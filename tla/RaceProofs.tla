----------------------------- MODULE RaceProofs -----------------------------
(***************************************************************************)
(* The cross-core race check reports no false race, whatever the launch:   *)
(* if the program orders two accesses, their clocks are ordered            *)
(* (ReportsAreRaces).  The inductive invariant RaceInv has three parts.    *)
(* Books: wherever knowledge is kept, by a core, a flag, a barrier or a    *)
(* lock, the clock kept there is past every access that is known there.    *)
(* LogInv: the same held of each access when it was issued, so the         *)
(* accesses it knew of have smaller clocks.  MemoryInv: the history of     *)
(* every byte, and every effect still queued, is an access of the log, and *)
(* a pair that was reported is a pair of unordered clocks.                 *)
(*                                                                         *)
(* The other way round the clocks say more than the program does where     *)
(* sets of a flag pile up, as its clock joins them all.  Where every flag  *)
(* is used one set at a time they do not (ClocksArePrecise): PreciseInv    *)
(* has it that wherever knowledge is kept, the clock kept there is past    *)
(* only such accesses as are known there.                                  *)
(*                                                                         *)
(* And no race is missed (RacesAreFound), where besides a byte is accessed *)
(* in one way and a core commits its accesses in turn.  FoundInv has it    *)
(* that the entry of a byte without a report stands for every access       *)
(* committed to it, and those that clash have ordered clocks (Store); and  *)
(* that an access whose effect still waits is a secret of its core         *)
(* (SecretInv), so that no later one can be before it when it commits.     *)
(* When the run finishes, nothing waits.                                   *)
(***************************************************************************)
EXTENDS RaceDetector, CrossSyncProofs, WellFoundedInduction

-----------------------------------------------------------------------------
(* Every set of numbers has a least one.                                   *)
LEMMA LeastNumber ==
  ASSUME NEW S \in SUBSET Nat, S # {}
  PROVE  \E x \in S : \A y \in S : x <= y
<1> DEFINE Below == OpToRel(<, Nat)
<1>1. \E x \in S : \A y \in S : ~(<<y, x>> \in Below)
  <2>1. IsWellFoundedOn(Below, Nat)
    BY NatLessThanWellFounded
  <2> HIDE DEF Below
  <2> QED BY <2>1, WFMin
<1>2. \A x, y \in S : y < x => <<y, x>> \in Below
  BY DEF OpToRel
<1> HIDE DEF Below
<1>3. PICK x \in S : \A y \in S : ~(<<y, x>> \in Below)
  BY <1>1
<1>4. \A y \in S : ~(y < x)
  BY <1>2, <1>3, Zenon
<1>5. \A y \in S : x <= y
  BY <1>4
<1> QED BY <1>5

(* A bounded one has a greatest one too.                                   *)
LEMMA GreatestNumber ==
  ASSUME NEW n \in Nat, NEW S \in SUBSET (0 .. n), S # {}
  PROVE  \E x \in S : \A y \in S : y <= x
<1> DEFINE T == {x \in 0 .. n : n - x \in S}
<1>1. T \in SUBSET Nat /\ T # {}
  <2>1. PICK x \in S : TRUE
    OBVIOUS
  <2>2. n - x \in 0 .. n /\ n - (n - x) = x
    BY <2>1
  <2>3. n - x \in T
    BY <2>1, <2>2
  <2>4. T \in SUBSET Nat
    OBVIOUS
  <2> HIDE DEF T
  <2> QED BY <2>3, <2>4
<1> HIDE DEF T
<1>2. PICK x \in T : \A y \in T : x <= y
  BY <1>1, LeastNumber
<1>3. n - x \in S /\ x \in 0 .. n
  BY DEF T
<1>4. ASSUME NEW y \in S PROVE y <= n - x
  <2>1. n - y \in 0 .. n /\ n - (n - y) = y
    OBVIOUS
  <2>2. n - y \in T
    BY <2>1 DEF T
  <2> QED BY <1>2, <1>3, <2>1, <2>2
<1> QED BY <1>3, <1>4

(* Finitely many numbers have a bound.                                     *)
LEMMA BoundedFamily ==
  ASSUME NEW n \in Nat, NEW f \in [0 .. (n - 1) -> Nat]
  PROVE  \E m \in Nat : \A i \in 0 .. (n - 1) : f[i] <= m
<1>1. \A i, j \in Nat : i + j \in Nat /\ i <= i + j /\ j <= i + j
  OBVIOUS
<1> DEFINE Bounded(k) == \A g \in [0 .. (k - 1) -> Nat] :
                           \E m \in Nat : \A i \in 0 .. (k - 1) : g[i] <= m
           Bad == {k \in Nat : ~Bounded(k)}
<1>2. ASSUME NEW k \in Bad, \A j \in Bad : k <= j PROVE FALSE
  <2>1. k \in Nat /\ ~Bounded(k)
    OBVIOUS
  <2>2. k # 0
    <3>1. Bounded(0)
      <4>1. 0 \in Nat /\ \A i \in 0 .. (0 - 1) : FALSE
        OBVIOUS
      <4> QED BY <4>1
    <3> QED BY <2>1, <3>1
  <2>3. k - 1 \in Nat /\ ~(k <= k - 1)
    BY <2>1, <2>2
  <2>4. Bounded(k - 1)
    BY <1>2, <2>3
  <2>5. PICK g \in [0 .. (k - 1) -> Nat] :
          \A m \in Nat : ~(\A i \in 0 .. (k - 1) : g[i] <= m)
    BY <2>1
  <2>6. PICK h \in [0 .. (k - 1 - 1) -> Nat] : \A i \in 0 .. (k - 1 - 1) : h[i] = g[i]
    <3>1. \A i \in 0 .. (k - 1 - 1) : i \in 0 .. (k - 1)
      BY <2>3
    <3> DEFINE less == [i \in 0 .. (k - 1 - 1) |-> g[i]]
    <3>2. less \in [0 .. (k - 1 - 1) -> Nat] /\ \A i \in 0 .. (k - 1 - 1) : less[i] = g[i]
      BY <3>1
    <3> HIDE DEF less
    <3> QED BY <3>2
  <2>7. PICK m \in Nat : \A i \in 0 .. (k - 1 - 1) : h[i] <= m
    BY <2>4
  <2>8. PICK m1 \in Nat : m <= m1 /\ g[k - 1] <= m1
    <3>1. g[k - 1] \in Nat
      BY <2>1, <2>3
    <3>2. PICK v \in Nat : v = g[k - 1]
      BY <3>1
    <3>3. m + v \in Nat /\ m <= m + v /\ v <= m + v
      BY <1>1
    <3> QED BY <3>2, <3>3
  <2>9. ASSUME NEW i \in 0 .. (k - 1) PROVE g[i] <= m1
    <3>1. CASE i = k - 1
      BY <2>8, <3>1
    <3>2. CASE i # k - 1
      <4>1. i \in 0 .. (k - 1 - 1)
        BY <2>3, <3>2
      <4>2. g[i] <= m /\ g[i] \in Nat
        BY <2>6, <2>7, <4>1
      <4> QED BY <2>8, <4>2
    <3> QED BY <3>1, <3>2
  <2> QED BY <2>5, <2>9
<1>3. Bad = {}
  <2>1. Bad \in SUBSET Nat
    OBVIOUS
  <2> HIDE DEF Bad
  <2> QED BY <1>2, <2>1, LeastNumber
<1> QED BY <1>3

-----------------------------------------------------------------------------
(* The order of clocks, and how joining and ticking go with it.            *)
Leq(p, q) == \A d \in Core : p[d] <= q[d]

(* The order is transitive.                                                *)
LEMMA LeqTransitive ==
  ASSUME NEW p \in Clock, NEW q \in Clock, NEW r \in Clock, Leq(p, q), Leq(q, r)
  PROVE  Leq(p, r)
<1> SUFFICES ASSUME NEW d \in Core PROVE p[d] <= r[d]
  BY DEF Leq
<1>1. p[d] \in Nat /\ q[d] \in Nat /\ r[d] \in Nat /\ p[d] <= q[d] /\ q[d] <= r[d]
  BY DEF Leq, Clock
<1> QED BY <1>1

(* A join is past both clocks,                                             *)
LEMMA JoinFacts ==
  ASSUME NEW p \in Clock, NEW q \in Clock
  PROVE  Join(p, q) \in Clock /\ Leq(p, Join(p, q)) /\ Leq(q, Join(p, q))
<1>1. \A d \in Core : p[d] \in Nat /\ q[d] \in Nat
  BY DEF Clock
<1> QED BY <1>1 DEF Join, Leq, Clock

(* a tick past the clock it ticks,                                         *)
LEMMA TickFacts ==
  ASSUME NEW p \in Clock, NEW c \in Core
  PROVE  Ticked(p, c) \in Clock /\ Leq(p, Ticked(p, c)) /\ Leq(p, p)
<1>1. \A d \in Core : p[d] \in Nat /\ p[d] + 1 \in Nat
  BY DEF Clock
<1>2. \A d \in Core : Ticked(p, c)[d] = IF d = c THEN p[d] + 1 ELSE p[d]
  BY DEF Ticked, Clock
<1>3. Ticked(p, c) \in Clock
  BY <1>1 DEF Ticked, Clock
<1> QED BY <1>1, <1>2, <1>3 DEF Leq

(* and the join of a set of clocks past each of them, and nowhere past     *)
(* all of them.                                                            *)
LEMMA JoinAllFacts ==
  ASSUME IsLaunch(launch), NEW D \in SUBSET Core, NEW f \in [D -> Clock]
  PROVE  /\ JoinAll({f[d] : d \in D}) \in Clock
         /\ \A d \in D : Leq(f[d], JoinAll({f[e] : e \in D}))
         /\ \A e \in Core : \/ JoinAll({f[d] : d \in D})[e] = 0
                            \/ \E d \in D : JoinAll({f[a] : a \in D})[e] = f[d][e]
<1>1. PICK n \in Nat \ {0} : Core = 0 .. (n - 1)
  BY CoreFacts
<1> DEFINE Seen(c) == {p[c] : p \in {f[d] : d \in D}} \cup {0}
           top(c) == CHOOSE t \in Seen(c) : \A u \in Seen(c) : u <= t
<1>2. ASSUME NEW c \in Core
      PROVE  /\ top(c) \in Nat /\ \A d \in D : f[d][c] <= top(c)
             /\ top(c) = 0 \/ \E d \in D : top(c) = f[d][c]
  <2>1. \A d \in D : f[d][c] \in Nat
    BY DEF Clock
  <2>2. PICK h \in [0 .. (n - 1) -> Nat] : \A d \in D : h[d] = f[d][c]
    <3> DEFINE g == [i \in 0 .. (n - 1) |-> IF i \in D THEN f[i][c] ELSE 0]
    <3>1. g \in [0 .. (n - 1) -> Nat] /\ \A d \in D : g[d] = f[d][c]
      BY <1>1, <2>1
    <3> HIDE DEF g
    <3> QED BY <3>1
  <2>3. PICK m \in Nat : \A i \in 0 .. (n - 1) : h[i] <= m
    BY BoundedFamily
  <2>4. Seen(c) \in SUBSET (0 .. m) /\ Seen(c) # {}
    <3>1. \A d \in D : f[d][c] \in 0 .. m
      BY <1>1, <2>1, <2>2, <2>3
    <3> QED BY <3>1
  <2>5. /\ \A d \in D : f[d][c] \in Seen(c)
        /\ \A t \in Seen(c) : t = 0 \/ \E d \in D : t = f[d][c]
    OBVIOUS
  <2> HIDE DEF Seen
  <2>6. \E t \in Seen(c) : \A u \in Seen(c) : u <= t
    BY <2>4, GreatestNumber
  <2>7. top(c) \in Seen(c) /\ \A u \in Seen(c) : u <= top(c)
    BY <2>6
  <2> QED BY <2>4, <2>5, <2>7
<1>3. JoinAll({f[d] : d \in D}) = [c \in Core |-> top(c)]
  BY DEF JoinAll
<1> HIDE DEF top
<1> QED BY <1>2, <1>3 DEF Leq, Clock

(* On clocks with a component for every core, happens-before is that order. *)
LEMMA HappensBeforeIsLeq ==
  ASSUME NEW p \in Clock, NEW q \in Clock
  PROVE  HappensBefore(p, q) <=> Leq(p, q)
<1>1. DOMAIN p = Core /\ DOMAIN q = Core
  BY DEF Clock
<1>2. DOMAIN p \cup DOMAIN q = Core
  BY <1>1
<1>3. \A d \in Core : Ticks(p, d) = p[d] /\ Ticks(q, d) = q[d]
  BY <1>1 DEF Ticks
<1> QED BY <1>2, <1>3 DEF HappensBefore, Leq

-----------------------------------------------------------------------------
(* What the histories and the queues remember is what has been issued:     *)
(* every record in the history of a byte, and every effect in a queue, is  *)
(* that of an access in the log, on the same byte and of the same kind.    *)
Logged(L, b, w, r) ==
  \E x \in L : /\ x.record = r /\ x.access.byte = b /\ x.access.isWrite = w
               /\ x.access.class = r.class

Remembers(L, b, e) ==
  /\ e.lastWrite # None => Logged(L, b, TRUE, e.lastWrite)
  /\ \A i \in DOMAIN e.reads : Logged(L, b, FALSE, e.reads[i])

EffectsOf(L) == {e \in Effect : Logged(L, e.byte, e.isWrite, e.record)}

Genuine(L, r) ==
  \E x, y \in L : /\ x.record = r.first /\ y.record = r.second
                  /\ Clash(x, y) /\ x.access.byte = r.byte
                  /\ ~ Before(x, y) /\ ~ Before(y, x)

Report == [byte : Byte, first : AccessRecord, second : AccessRecord]

Good(L, m) ==
  /\ m.hist \in [Byte -> Entry]
  /\ \A b \in Byte : Remembers(L, b, m.hist[b])
  /\ m.races \subseteq {r \in Report : Genuine(L, r)}

(* What the program orders, the clocks order.                              *)
Ordered(L) ==
  \A x, y \in L : Before(x, y) => HappensBefore(x.record.clock, y.record.clock)

(* More in the log takes nothing away.                                     *)
LEMMA GoodGrows ==
  ASSUME NEW L, NEW M, L \subseteq M, NEW m, Good(L, m)
  PROVE  Good(M, m) /\ EffectsOf(L) \subseteq EffectsOf(M)
<1>1. \A b, w, r : Logged(L, b, w, r) => Logged(M, b, w, r)
  BY DEF Logged
<1>2. \A r : Genuine(L, r) => Genuine(M, r)
  BY DEF Genuine
<1>3. \A b \in Byte : Remembers(M, b, m.hist[b])
  BY <1>1 DEF Good, Remembers
<1>4. m.races \subseteq {r \in Report : Genuine(M, r)}
  BY <1>2 DEF Good
<1> QED BY <1>1, <1>3, <1>4 DEF Good, EffectsOf

(* Recording an access yields an entry, of accesses in the log.            *)
LEMMA TouchedRemembers ==
  ASSUME NEW L, NEW b, NEW e \in Entry, Remembers(L, b, e),
         NEW w \in BOOLEAN, NEW r \in AccessRecord, Logged(L, b, w, r)
  PROVE  Touched(e, w, r) \in Entry /\ Remembers(L, b, Touched(e, w, r))
<1>1. CASE w
  <2>1. Touched(e, w, r) = [lastWrite |-> r, reads |-> << >>]
    BY <1>1 DEF Touched
  <2>2. PICK t : t = Touched(e, w, r) /\ t.lastWrite = r /\ t.reads = << >> /\ t \in Entry
    <3>1. << >> \in Seq(AccessRecord)
      OBVIOUS
    <3>2. [lastWrite |-> r, reads |-> << >>] \in Entry
      BY <3>1 DEF Entry
    <3>3. Touched(e, w, r).lastWrite = r /\ Touched(e, w, r).reads = << >>
      BY <2>1
    <3> QED BY <2>1, <3>2, <3>3
  <2>3. DOMAIN t.reads = {}
    BY <2>2
  <2>4. Logged(L, b, TRUE, r)
    BY <1>1
  <2> QED BY <2>2, <2>3, <2>4 DEF Remembers
<1>2. CASE ~ w
  <2>1. PICK old \in Seq(AccessRecord) : old = e.reads
    BY DEF Entry
  <2> DEFINE over == [i \in DOMAIN old |-> IF old[i].core = r.core THEN r ELSE old[i]]
             more == Append(old, r)
  <2>2. \A i \in DOMAIN old : Logged(L, b, FALSE, old[i])
    BY <2>1 DEF Remembers
  <2>3. Logged(L, b, FALSE, r)
    BY <1>2
  <2>4. over \in Seq(AccessRecord) /\ \A i \in DOMAIN over : Logged(L, b, FALSE, over[i])
    <3>1. over \in Seq(AccessRecord) /\ DOMAIN over = DOMAIN old
          /\ \A i \in DOMAIN over : over[i] = old[i] \/ over[i] = r
      OBVIOUS
    <3> HIDE DEF over
    <3> QED BY <2>2, <2>3, <3>1
  <2>5. more \in Seq(AccessRecord) /\ \A i \in DOMAIN more : Logged(L, b, FALSE, more[i])
    <3>1. more \in Seq(AccessRecord) /\ DOMAIN more = 1 .. (Len(old) + 1)
          /\ \A i \in DOMAIN more :
               \/ i \in DOMAIN old /\ more[i] = old[i]
               \/ more[i] = r
      OBVIOUS
    <3> HIDE DEF more
    <3> QED BY <2>2, <2>3, <3>1
  <2>6. \/ Touched(e, w, r) = [e EXCEPT !.reads = over]
        \/ Touched(e, w, r) = [e EXCEPT !.reads = more]
    BY <1>2, <2>1 DEF Touched
  <2> HIDE DEF over, more
  <2>7. ASSUME NEW s \in Seq(AccessRecord), \A i \in DOMAIN s : Logged(L, b, FALSE, s[i]),
               Touched(e, w, r) = [e EXCEPT !.reads = s]
        PROVE  Touched(e, w, r) \in Entry /\ Remembers(L, b, Touched(e, w, r))
    <3>1. /\ Touched(e, w, r).reads = s /\ Touched(e, w, r).lastWrite = e.lastWrite
          /\ Touched(e, w, r) \in Entry
      BY <2>7 DEF Entry
    <3> QED BY <2>7, <3>1 DEF Remembers
  <2> QED BY <2>4, <2>5, <2>6, <2>7
<1> QED BY <1>1, <1>2

(* The culprit of a conflict is an access of the log the new one races.    *)
LEMMA CulpritIsLogged ==
  ASSUME NEW L, NEW b, NEW e \in Entry, Remembers(L, b, e),
         NEW w \in BOOLEAN, NEW r \in AccessRecord, Conflict(e, w, r)
  PROVE  LET prior == Culprit(e, r).first
         IN  /\ prior \in AccessRecord /\ Races(prior, r)
             /\ \E v \in BOOLEAN : Logged(L, b, v, prior) /\ (v \/ w)
<1>1. CASE WriteRaces(e, r)
  <2>1. Culprit(e, r).first = e.lastWrite /\ e.lastWrite # None
    BY <1>1 DEF Culprit, WriteRaces
  <2>2. Logged(L, b, TRUE, e.lastWrite)
    BY <2>1 DEF Remembers
  <2>3. e.lastWrite \in AccessRecord
    BY <2>1 DEF Entry
  <2> QED BY <1>1, <2>1, <2>2, <2>3 DEF WriteRaces
<1>2. CASE ~ WriteRaces(e, r)
  <2>1. w /\ RacingReads(e, r) # {}
    BY <1>2 DEF Conflict
  <2>2. RacingReads(e, r) \in SUBSET Nat
    BY DEF RacingReads, Entry
  <2>3. PICK S \in SUBSET Nat : S = RacingReads(e, r)
    BY <2>2
  <2>4. Least(S) \in S
    BY <2>1, <2>3, LeastNumber DEF Least
  <2>5. PICK i \in DOMAIN e.reads : i = Least(RacingReads(e, r)) /\ Races(e.reads[i], r)
    BY <2>3, <2>4 DEF RacingReads
  <2>6. Culprit(e, r).first = e.reads[i]
    BY <1>2, <2>5 DEF Culprit
  <2>7. e.reads[i] \in AccessRecord /\ Logged(L, b, FALSE, e.reads[i])
    <3>1. e.reads \in Seq(AccessRecord)
      BY DEF Entry
    <3>2. e.reads[i] \in AccessRecord
      BY <2>5, <3>1
    <3> QED BY <2>5, <3>2 DEF Remembers
  <2> QED BY <2>1, <2>5, <2>6, <2>7
<1> QED BY <1>1, <1>2

(* One effect committed.                                                   *)
LEMMA CommitKeepsGood ==
  ASSUME NEW L, Ordered(L), NEW m, Good(L, m), NEW e \in EffectsOf(L)
  PROVE  Good(L, Commit(m, e))
<1>1. /\ e.byte \in Byte /\ e.isWrite \in BOOLEAN /\ e.record \in AccessRecord
      /\ Logged(L, e.byte, e.isWrite, e.record)
  BY DEF EffectsOf, Effect
<1>2. PICK entry \in Entry : entry = m.hist[e.byte] /\ Remembers(L, e.byte, entry)
  BY <1>1 DEF Good
<1>3. PICK new \in Entry : new = Touched(entry, e.isWrite, e.record) /\ Remembers(L, e.byte, new)
  BY <1>1, <1>2, TouchedRemembers
<1>4. Commit(m, e).hist = [m.hist EXCEPT ![e.byte] = new]
  BY <1>2, <1>3 DEF Commit
<1>5. /\ Commit(m, e).hist \in [Byte -> Entry]
      /\ \A b \in Byte : Remembers(L, b, Commit(m, e).hist[b])
  BY <1>1, <1>3, <1>4 DEF Good
<1>6. PICK prior : prior = Culprit(entry, e.record).first
  OBVIOUS
<1> DEFINE pair == [byte |-> e.byte, first |-> prior, second |-> e.record]
<1>7. CASE Conflict(entry, e.isWrite, e.record) /\ ~ Exempt(prior, e.record)
  <2>1. prior \in AccessRecord /\ Races(prior, e.record)
    BY <1>1, <1>2, <1>6, <1>7, CulpritIsLogged
  <2>2. PICK v \in BOOLEAN : Logged(L, e.byte, v, prior) /\ (v \/ e.isWrite)
    BY <1>1, <1>2, <1>6, <1>7, CulpritIsLogged
  <2>3. PICK x \in L : /\ x.record = prior /\ x.access.byte = e.byte
                       /\ x.access.isWrite = v /\ x.access.class = prior.class
    BY <2>2 DEF Logged
  <2>4. PICK y \in L : /\ y.record = e.record /\ y.access.byte = e.byte
                       /\ y.access.isWrite = e.isWrite /\ y.access.class = e.record.class
    BY <1>1 DEF Logged
  <2>5. ~ Before(x, y) /\ ~ Before(y, x)
    BY <2>1, <2>3, <2>4 DEF Ordered, Races, Concurrent
  <2>6. Clash(x, y)
    <3>1. x.record.core # y.record.core
      BY <2>1, <2>3, <2>4 DEF Races
    <3>2. "plain" \in {x.access.class, y.access.class} \/ x.access.class # y.access.class
      BY <1>7, <2>3, <2>4 DEF Exempt
    <3>3. x.access.isWrite \/ y.access.isWrite
      BY <2>2, <2>3, <2>4
    <3> QED BY <2>3, <2>4, <3>1, <3>2, <3>3 DEF Clash
  <2>7. pair \in Report /\ Genuine(L, pair)
    <3>1. pair.first = prior /\ pair.second = e.record /\ pair.byte = e.byte
      OBVIOUS
    <3>2. pair \in Report
      BY <1>1, <2>1 DEF Report
    <3> HIDE DEF pair
    <3> QED BY <2>3, <2>4, <2>5, <2>6, <3>1, <3>2 DEF Genuine
  <2>8. Commit(m, e).races = m.races \cup {pair}
    BY <1>2, <1>6, <1>7 DEF Commit
  <2> HIDE DEF pair
  <2> QED BY <1>5, <2>7, <2>8 DEF Good
<1>8. CASE ~ (Conflict(entry, e.isWrite, e.record) /\ ~ Exempt(prior, e.record))
  <2>1. Commit(m, e).races = m.races
    BY <1>2, <1>6, <1>8 DEF Commit
  <2> QED BY <1>5, <2>1 DEF Good
<1> QED BY <1>7, <1>8

-----------------------------------------------------------------------------
(* The commits of a drain, one after the other.                            *)
CommitsOf(m, f, s) ==
  f = [n \in 0 .. Len(s) |-> IF n = 0 THEN m ELSE Commit(f[n - 1], s[n])]

(* The recursive function of Drained exists.                               *)
LEMMA CommitsExist ==
  ASSUME NEW m, NEW T, NEW s \in Seq(T)
  PROVE  \E f : CommitsOf(m, f, s)
<1> DEFINE Upto(k, f) == f = [n \in 0 .. k |-> IF n = 0 THEN m ELSE Commit(f[n - 1], s[n])]
           Bad == {k \in Nat : ~ \E f : Upto(k, f)}
<1>1. ASSUME NEW k \in Nat, ~ \E f : Upto(k, f),
             \A j \in Nat : ~ (\E f : Upto(j, f)) => k <= j
      PROVE  FALSE
  <2>1. k # 0
    <3>1. Upto(0, [n \in 0 .. 0 |-> m])
      OBVIOUS
    <3> QED BY <1>1, <3>1
  <2>2. k - 1 \in Nat /\ ~ (k <= k - 1)
    BY <2>1
  <2>3. PICK f : Upto(k - 1, f)
    BY <1>1, <2>2
  <2> DEFINE g == [n \in 0 .. k |-> IF n = k THEN Commit(f[k - 1], s[k]) ELSE f[n]]
  <2>4. ASSUME NEW n \in 0 .. k
        PROVE  g[n] = IF n = 0 THEN m ELSE Commit(g[n - 1], s[n])
    <3>1. CASE n = k
      <4>1. g[n] = Commit(f[k - 1], s[k]) /\ g[k - 1] = f[k - 1]
        BY <2>2, <3>1
      <4> QED BY <2>1, <3>1, <4>1
    <3>2. CASE n # k
      <4>1. n \in 0 .. (k - 1) /\ (n # 0 => n - 1 \in 0 .. k /\ n - 1 # k)
        BY <3>2
      <4>2. g[n] = f[n] /\ (n # 0 => g[n - 1] = f[n - 1])
        BY <3>2, <4>1
      <4>3. f[n] = IF n = 0 THEN m ELSE Commit(f[n - 1], s[n])
        BY <2>3, <4>1
      <4> QED BY <4>2, <4>3
    <3> QED BY <3>1, <3>2
  <2>5. Upto(k, g)
    <3>1. g = [n \in 0 .. k |-> g[n]]
      OBVIOUS
    <3>2. [n \in 0 .. k |-> g[n]] = [n \in 0 .. k |-> IF n = 0 THEN m ELSE Commit(g[n - 1], s[n])]
      BY <2>4
    <3> QED BY <3>1, <3>2
  <2> QED BY <1>1, <2>5
<1>2. Bad = {}
  <2>1. Bad \in SUBSET Nat /\ \A k \in Bad : ~ \A j \in Bad : k <= j
    <3>1. \A k \in Nat : k \in Bad <=> ~ \E f : Upto(k, f)
      OBVIOUS
    <3>2. Bad \in SUBSET Nat
      OBVIOUS
    <3> HIDE DEF Bad, Upto
    <3> QED BY <1>1, <3>1, <3>2
  <2> HIDE DEF Bad
  <2> QED BY <2>1, LeastNumber
<1>3. \E f : Upto(Len(s), f)
  <2>1. Len(s) \in Nat
    OBVIOUS
  <2> HIDE DEF Upto
  <2> QED BY <1>2, <2>1
<1> QED BY <1>3 DEF CommitsOf

(* What a drain leaves is what the last of its commits leaves, and is as   *)
(* good as what it started from.                                           *)
LEMMA DrainKeepsGood ==
  ASSUME NEW L, Ordered(L), Good(L, [hist |-> hist, races |-> races]),
         NEW s \in Seq(EffectsOf(L))
  PROVE  Good(L, Drained(s))
<1>1. PICK m : m = [hist |-> hist, races |-> races]
  OBVIOUS
<1>2. PICK f : CommitsOf(m, f, s) /\ Drained(s) = f[Len(s)]
  <2> DEFINE g == CHOOSE h : CommitsOf(m, h, s)
  <2>1. CommitsOf(m, g, s)
    BY CommitsExist
  <2>2. Drained(s) = g[Len(s)]
    BY <1>1 DEF Drained, CommitsOf
  <2> HIDE DEF g
  <2> QED BY <2>1, <2>2
<1>3. Len(s) \in Nat /\ \A n \in 1 .. Len(s) : s[n] \in EffectsOf(L)
  OBVIOUS
<1>4. /\ f[0] = m
      /\ \A n \in 1 .. Len(s) : f[n] = Commit(f[n - 1], s[n])
  BY <1>2, <1>3 DEF CommitsOf
<1> DEFINE Bad == {n \in 0 .. Len(s) : ~ Good(L, f[n])}
<1>5. ASSUME NEW n \in Bad, \A j \in Bad : n <= j PROVE FALSE
  <2>1. n # 0
    BY <1>1, <1>4
  <2>2. n \in 1 .. Len(s) /\ n - 1 \in 0 .. Len(s) /\ ~ (n <= n - 1)
    BY <1>3, <2>1
  <2>3. Good(L, f[n - 1])
    BY <1>5, <2>2
  <2>4. Good(L, f[n])
    BY <1>3, <1>4, <2>2, <2>3, CommitKeepsGood
  <2> QED BY <2>4
<1>6. Bad = {}
  <2>1. Bad \in SUBSET Nat
    BY <1>3
  <2> HIDE DEF Bad
  <2> QED BY <1>5, <2>1, LeastNumber
<1> QED BY <1>2, <1>3, <1>6

(* All that is pending on a core is in its queues.                         *)
UptoPipe(q, g) == g = [n \in 0 .. NumPipes |-> IF n = 0 THEN << >> ELSE g[n - 1] \o q[n]]

(* The concatenation flushAllPipes commits, pipe by pipe, is a sequence    *)
(* of the queued effects.                                                  *)
LEMMA PendingFacts ==
  ASSUME NEW T, NEW c \in Core, queue[c] \in [1 .. NumPipes -> Seq(T)]
  PROVE  Pending(c) \in Seq(T) /\ \E g : UptoPipe(queue[c], g) /\ Pending(c) = g[NumPipes]
<1>1. NumPipes \in Nat
  BY AccessAssumption
<1> DEFINE q == queue[c]
           Upto(k, f) == f = [n \in 0 .. k |-> IF n = 0 THEN << >> ELSE f[n - 1] \o q[n]]
           Bad == {k \in 0 .. NumPipes : ~ \E f : Upto(k, f) /\ f[k] \in Seq(T)}
<1>2. ASSUME NEW k \in 0 .. NumPipes, ~ \E f : Upto(k, f) /\ f[k] \in Seq(T),
             \A j \in 0 .. NumPipes : ~ (\E f : Upto(j, f) /\ f[j] \in Seq(T)) => k <= j
      PROVE  FALSE
  <2>1. k # 0
    <3>1. Upto(0, [n \in 0 .. 0 |-> << >>]) /\ [n \in 0 .. 0 |-> << >>][0] \in Seq(T)
      OBVIOUS
    <3> QED BY <1>2, <3>1
  <2>2. k - 1 \in 0 .. NumPipes /\ ~ (k <= k - 1) /\ k \in 1 .. NumPipes
    BY <1>1, <2>1
  <2>3. PICK f : Upto(k - 1, f) /\ f[k - 1] \in Seq(T)
    BY <1>2, <2>2
  <2>4. k \in 0 .. k /\ k - 1 \in 0 .. k /\ k - 1 # k
    BY <1>1, <2>2
  <2>5. q[k] \in Seq(T)
    BY <2>2
  <2> HIDE DEF q
  <2> DEFINE g == [n \in 0 .. k |-> IF n = k THEN f[k - 1] \o q[k] ELSE f[n]]
  <2>6. ASSUME NEW n \in 0 .. k
        PROVE  g[n] = IF n = 0 THEN << >> ELSE g[n - 1] \o q[n]
    <3>1. CASE n = k
      <4>1. g[n] = f[k - 1] \o q[k] /\ g[k - 1] = f[k - 1]
        BY <2>4, <3>1
      <4> QED BY <2>1, <3>1, <4>1
    <3>2. CASE n # k
      <4>1. n \in 0 .. (k - 1) /\ (n # 0 => n - 1 \in 0 .. k /\ n - 1 # k)
        BY <1>1, <3>2
      <4>2. g[n] = f[n] /\ (n # 0 => g[n - 1] = f[n - 1])
        BY <3>2, <4>1
      <4>3. f[n] = IF n = 0 THEN << >> ELSE f[n - 1] \o q[n]
        BY <2>3, <4>1
      <4> QED BY <4>2, <4>3
    <3> QED BY <3>1, <3>2
  <2>7. Upto(k, g)
    <3>1. g = [n \in 0 .. k |-> g[n]]
      OBVIOUS
    <3>2. [n \in 0 .. k |-> g[n]] = [n \in 0 .. k |-> IF n = 0 THEN << >> ELSE g[n - 1] \o q[n]]
      BY <2>6
    <3> QED BY <3>1, <3>2
  <2>8. g[k] \in Seq(T)
    <3>1. g[k] = f[k - 1] \o q[k]
      BY <2>4
    <3> HIDE DEF g, Upto
    <3> QED BY <2>3, <2>5, <3>1
  <2> HIDE DEF g, Upto
  <2> QED BY <1>2, <2>7, <2>8
<1>3. Bad = {}
  <2>1. Bad \in SUBSET Nat /\ \A k \in Bad : ~ \A j \in Bad : k <= j
    <3>1. \A k \in 0 .. NumPipes : k \in Bad <=> ~ \E f : Upto(k, f) /\ f[k] \in Seq(T)
      OBVIOUS
    <3>2. Bad \in SUBSET Nat /\ Bad \subseteq 0 .. NumPipes
      <4>1. Bad \subseteq 0 .. NumPipes
        OBVIOUS
      <4>2. 0 .. NumPipes \subseteq Nat
        BY <1>1
      <4> HIDE DEF Bad
      <4> QED BY <4>1, <4>2
    <3> HIDE DEF Bad, Upto
    <3> QED BY <1>2, <3>1, <3>2
  <2> HIDE DEF Bad
  <2> QED BY <2>1, LeastNumber
<1>4. PICK f : UptoPipe(q, f) /\ f[NumPipes] \in Seq(T)
  <2>1. \E f : Upto(NumPipes, f) /\ f[NumPipes] \in Seq(T)
    <3>1. NumPipes \in 0 .. NumPipes
      BY <1>1
    <3> HIDE DEF Upto
    <3> QED BY <1>3, <3>1
  <2> QED BY <2>1 DEF UptoPipe
<1>5. \A g, h : UptoPipe(q, g) /\ UptoPipe(q, h) => g[NumPipes] = h[NumPipes]
  <2> SUFFICES ASSUME NEW g, NEW h, UptoPipe(q, g), UptoPipe(q, h)
               PROVE  g[NumPipes] = h[NumPipes]
    OBVIOUS
  <2> HIDE DEF q
  <2> DEFINE Off == {n \in 0 .. NumPipes : g[n] # h[n]}
  <2>1. ASSUME NEW n \in Off, \A j \in Off : n <= j PROVE FALSE
    <3>1. n \in 0 .. NumPipes /\ n \in Nat
      BY <1>1
    <3>2. CASE n = 0
      BY <1>1, <3>1, <3>2 DEF UptoPipe
    <3>3. CASE n # 0
      <4>1. n - 1 \in 0 .. NumPipes /\ ~ (n <= n - 1)
        BY <1>1, <3>1, <3>3
      <4>2. g[n - 1] = h[n - 1]
        BY <2>1, <4>1
      <4> QED BY <3>1, <3>3, <4>2 DEF UptoPipe
    <3> QED BY <3>2, <3>3
  <2>2. Off = {}
    <3>1. Off \in SUBSET Nat
      BY <1>1
    <3> HIDE DEF Off
    <3> QED BY <2>1, <3>1, LeastNumber
  <2> QED BY <1>1, <2>2
<1>6. PICK g : UptoPipe(q, g) /\ Pending(c) = g[NumPipes]
  <2> DEFINE h == CHOOSE g : UptoPipe(q, g)
  <2>1. UptoPipe(q, h)
    <3> HIDE DEF q
    <3> QED BY <1>4
  <2>2. Pending(c) = h[NumPipes]
    BY DEF Pending, UptoPipe
  <2> HIDE DEF h, q
  <2> QED BY <2>1, <2>2
<1>7. \E h : UptoPipe(queue[c], h) /\ Pending(c) = h[NumPipes]
  BY <1>6
<1> HIDE DEF q
<1> QED BY <1>4, <1>5, <1>6, <1>7

-----------------------------------------------------------------------------
(* What is known at a point is sound if the clock there is past every      *)
(* access of the log that is known: C are the cores, E the positions       *)
(* executed so far.                                                        *)
Sound(C, L, E, S, q) ==
  /\ S \in SUBSET E
  /\ q \in [C -> Nat]
  /\ \A x \in L : Id(x) \in S => \A d \in C : x.record.clock[d] <= q[d]

(* The log grows by an access that is new, the executed positions grow.    *)
Grows(L, E, L2, E2) ==
  /\ E \subseteq E2 /\ L \subseteq L2
  /\ \A x \in L2 \ L : Id(x) \notin E

(* An access that was not executed when S was known is not in S.           *)
LEMMA SoundGrows ==
  ASSUME NEW C, NEW L, NEW E, NEW L2, NEW E2, Grows(L, E, L2, E2),
         NEW S, NEW q, Sound(C, L, E, S, q)
  PROVE  Sound(C, L2, E2, S, q)
BY DEF Grows, Sound

(* A clock that is later, and the empty knowledge, are sound as well.      *)
ClocksTyped(C, L) == \A x \in L : x.record.clock \in [C -> Nat]

(* A later clock is past whatever an earlier one was past.                 *)
LEMMA SoundLater ==
  ASSUME NEW L, ClocksTyped(Core, L), NEW E, NEW S, NEW p, Sound(Core, L, E, S, p),
         NEW q \in Clock, Leq(p, q)
  PROVE  Sound(Core, L, E, S, q)
<1> SUFFICES ASSUME NEW x \in L, Id(x) \in S, NEW d \in Core
             PROVE  x.record.clock[d] <= q[d]
  BY DEF Sound, Clock
<1>1. x.record.clock[d] \in Nat /\ p[d] \in Nat /\ q[d] \in Nat
  BY DEF ClocksTyped, Sound, Clock
<1>2. x.record.clock[d] <= p[d] /\ p[d] <= q[d]
  BY DEF Sound, Leq
<1> QED BY <1>1, <1>2

(* Two sets sound with one clock are sound together.                       *)
LEMMA SoundBoth ==
  ASSUME NEW C, NEW L, NEW E, NEW S, NEW T, NEW q, Sound(C, L, E, S, q), Sound(C, L, E, T, q)
  PROVE  Sound(C, L, E, S \cup T, q)
BY DEF Sound

(* Two sets are sound together with the join of their clocks.              *)
LEMMA SoundJoin ==
  ASSUME NEW L, ClocksTyped(Core, L), NEW E, NEW S, NEW T, NEW p, NEW q,
         Sound(Core, L, E, S, p), Sound(Core, L, E, T, q)
  PROVE  Sound(Core, L, E, S \cup T, Join(p, q))
<1>1. p \in Clock /\ q \in Clock
  BY DEF Sound, Clock
<1>2. Join(p, q) \in Clock /\ Leq(p, Join(p, q)) /\ Leq(q, Join(p, q))
  BY <1>1, JoinFacts
<1>3. Sound(Core, L, E, S, Join(p, q)) /\ Sound(Core, L, E, T, Join(p, q))
  BY <1>2, SoundLater
<1> QED BY <1>3, SoundBoth

(* A tick keeps knowledge sound.                                           *)
LEMMA SoundTick ==
  ASSUME NEW L, ClocksTyped(Core, L), NEW E, NEW S, NEW p, NEW c \in Core,
         Sound(Core, L, E, S, p)
  PROVE  Sound(Core, L, E, S, Ticked(p, c))
<1>1. p \in Clock
  BY DEF Sound, Clock
<1>2. Ticked(p, c) \in Clock /\ Leq(p, Ticked(p, c))
  BY <1>1, TickFacts
<1> QED BY <1>2, SoundLater

-----------------------------------------------------------------------------
(* The invariant, family by family.  L is the log and E the positions      *)
(* executed: a step is first looked at with both as they are after it.     *)
KnownInv(L, E) ==
  /\ known \in [Core -> SUBSET Sites] /\ clock \in [Core -> Clock]
  /\ \A c \in Core : Sound(Core, L, E, known[c], clock[c])

(* The clock that carries the sets of one kind on a flag.                  *)
SetClock(k, n) == IF Mixed THEN aicClock[k] ELSE sameKindClock[k][n]

SetsInv(L, E) ==
  /\ pub \in [FlagKey -> [Kind -> Seq(SUBSET Sites)]]
  /\ aicClock \in [FlagKey -> Clock] /\ sameKindClock \in [FlagKey -> [Kind -> Clock]]
  /\ \A k \in FlagKey : \A n \in Kind :
       /\ \A i \in 1 .. Len(pub[k][n]) : Sound(Core, L, E, pub[k][n][i], SetClock(k, n))
       /\ sameKind[k][n] <= Len(pub[k][n])
  /\ \A k \in FlagKey : aicGen[k] <= Len(pub[k]["AIC"])

LanesInv(L, E) ==
  /\ lanePub \in [FlagKey -> [Core -> Seq(SUBSET Sites)]]
  /\ aivClock \in [FlagKey -> [Core -> Clock]]
  /\ \A k \in FlagKey : \A d \in Core :
       /\ \A i \in 1 .. Len(lanePub[k][d]) : Sound(Core, L, E, lanePub[k][d][i], aivClock[k][d])
       /\ aivCount[k][d] <= Len(lanePub[k][d])

MergedInv(L, E) ==
  /\ mergedKnown \in [BarrierKey -> SUBSET Sites] /\ mergedClock \in [BarrierKey -> Clock]
  /\ \A k \in BarrierKey : Sound(Core, L, E, mergedKnown[k], mergedClock[k])

HandedInv(L, E) ==
  /\ lockKnown \in [Lock -> SUBSET Sites] /\ lockClock \in [Lock -> Clock]
  /\ \A l \in Lock : Sound(Core, L, E, lockKnown[l], lockClock[l])

Books(L, E) ==
  KnownInv(L, E) /\ SetsInv(L, E) /\ LanesInv(L, E) /\ MergedInv(L, E) /\ HandedInv(L, E)

LogInv(L, E) ==
  /\ L \subseteq [access : Access, record : AccessRecord, past : SUBSET Sites]
  /\ \A x \in L : Id(x) \in E /\ Sound(Core, L, E, x.past, x.record.clock)

MemoryInv(L) ==
  /\ Good(L, [hist |-> hist, races |-> races])
  /\ queue \in [Core -> [1 .. NumPipes -> Seq(EffectsOf(L))]]

RaceInv ==
  TypeOK /\ launch \in Launches /\ Books(log, Executed) /\ LogInv(log, Executed) /\ MemoryInv(log)

(* The books stay balanced when the log and the positions grow.            *)
LEMMA BooksGrow ==
  ASSUME NEW L, NEW E, NEW L2, NEW E2, Grows(L, E, L2, E2), Books(L, E)
  PROVE  Books(L2, E2)
<1>1. \A S, q : Sound(Core, L, E, S, q) => Sound(Core, L2, E2, S, q)
  BY SoundGrows
<1>2. KnownInv(L2, E2)
  BY <1>1 DEF Books, KnownInv
<1>3. SetsInv(L2, E2)
  BY <1>1 DEF Books, SetsInv
<1>4. LanesInv(L2, E2)
  BY <1>1 DEF Books, LanesInv
<1>5. MergedInv(L2, E2)
  BY <1>1 DEF Books, MergedInv
<1>6. HandedInv(L2, E2)
  BY <1>1 DEF Books, HandedInv
<1> QED BY <1>2, <1>3, <1>4, <1>5, <1>6 DEF Books

(* What a step does not touch stays as it was.                             *)
LEMMA SameLaunch ==
  ASSUME launch' = launch
  PROVE  /\ Core' = Core /\ Clock' = Clock /\ Sites' = Sites
         /\ (Mixed <=> Mixed') /\ AccessRecord' = AccessRecord /\ Effect' = Effect
         /\ Entry' = Entry /\ Report' = Report
<1>1. Core' = Core /\ \A c : KindOf(c)' = KindOf(c)
  BY DEF Core, KindOf
<1>2. Clock' = Clock /\ Sites' = Sites /\ AccessRecord' = AccessRecord
  BY <1>1 DEF Clock, Sites, AccessRecord
<1>3. Effect' = Effect /\ Entry' = Entry /\ Report' = Report
  BY <1>2 DEF Effect, Entry, Report
<1>4. Mixed <=> Mixed'
  BY <1>1 DEF Mixed
<1> QED BY <1>1, <1>2, <1>3, <1>4

(* A step that touches neither knowledge nor clocks keeps KnownInv;        *)
LEMMA KnownKept ==
  ASSUME launch' = launch, NEW L, NEW E, KnownInv(L, E), UNCHANGED << known, clock >>
  PROVE  KnownInv(L, E)'
BY SameLaunch DEF KnownInv

(* so does one that gives a core knowledge sound with its new clock.       *)
LEMMA KnownStep ==
  ASSUME launch' = launch, NEW L, NEW E, E \subseteq Sites, KnownInv(L, E),
         NEW c \in Core, NEW S, NEW q, Sound(Core, L, E, S, q),
         known' = [known EXCEPT ![c] = S], clock' = [clock EXCEPT ![c] = q]
  PROVE  KnownInv(L, E)'
<1>1. Core' = Core /\ Clock' = Clock /\ Sites' = Sites
  BY SameLaunch
<1>2. S \in SUBSET Sites /\ q \in Clock
  BY DEF Sound, Clock
<1>3. known' \in [Core -> SUBSET Sites] /\ clock' \in [Core -> Clock]
  BY <1>2 DEF KnownInv
<1>4. \A d \in Core : Sound(Core, L, E, known'[d], clock'[d])
  BY DEF KnownInv
<1> QED BY <1>1, <1>3, <1>4 DEF KnownInv

(* SetsInv is kept by a step that publishes nothing and only takes counts  *)
(* away,                                                                   *)
LEMMA SetsKept ==
  ASSUME launch' = launch, TypeOK, TypeOK', NEW L, NEW E, SetsInv(L, E),
         UNCHANGED << pub, aicClock, sameKindClock, aicGen >>,
         \A k \in FlagKey : \A n \in Kind : sameKind'[k][n] <= sameKind[k][n]
  PROVE  SetsInv(L, E)'
<1>1. Core' = Core /\ Clock' = Clock /\ Sites' = Sites /\ (Mixed <=> Mixed')
  BY SameLaunch
<1>2. \A k \in FlagKey : \A n \in Kind : SetClock(k, n)' = SetClock(k, n)
  BY <1>1 DEF SetClock
<1>3. ASSUME NEW k \in FlagKey, NEW n \in Kind PROVE sameKind'[k][n] <= Len(pub[k][n])
  <2>1. sameKind[k][n] \in Nat /\ sameKind'[k][n] \in Nat
    BY DEF TypeOK
  <2>2. sameKind[k][n] <= Len(pub[k][n]) /\ Len(pub[k][n]) \in Nat
    BY DEF SetsInv
  <2> QED BY <2>1, <2>2
<1> QED BY <1>1, <1>2, <1>3 DEF SetsInv

(* LanesInv likewise,                                                      *)
LEMMA LanesKept ==
  ASSUME launch' = launch, TypeOK, TypeOK', NEW L, NEW E, LanesInv(L, E),
         UNCHANGED << lanePub, aivClock >>,
         \A k \in FlagKey : \A d \in Core : aivCount'[k][d] <= aivCount[k][d]
  PROVE  LanesInv(L, E)'
<1>1. Core' = Core /\ Clock' = Clock /\ Sites' = Sites
  BY SameLaunch
<1>2. ASSUME NEW k \in FlagKey, NEW d \in Core PROVE aivCount'[k][d] <= Len(lanePub[k][d])
  <2>1. aivCount[k][d] \in Nat /\ aivCount'[k][d] \in Nat
    BY <1>1 DEF TypeOK
  <2>2. aivCount[k][d] <= Len(lanePub[k][d]) /\ Len(lanePub[k][d]) \in Nat
    BY DEF LanesInv
  <2> QED BY <2>1, <2>2
<1> QED BY <1>1, <1>2 DEF LanesInv

(* MergedInv by a step no barrier fires in,                                *)
LEMMA MergedKept ==
  ASSUME launch' = launch, NEW L, NEW E, MergedInv(L, E),
         UNCHANGED << mergedKnown, mergedClock >>
  PROVE  MergedInv(L, E)'
BY SameLaunch DEF MergedInv

(* and HandedInv by one no lock is given back in.                          *)
LEMMA HandedKept ==
  ASSUME launch' = launch, NEW L, NEW E, HandedInv(L, E), UNCHANGED << lockKnown, lockClock >>
  PROVE  HandedInv(L, E)'
BY SameLaunch DEF HandedInv

(* All of it but what the core itself knows, in a step that publishes      *)
(* nothing.                                                                *)
LEMMA NothingPublished ==
  ASSUME launch' = launch, TypeOK, TypeOK', NEW L, NEW E, Books(L, E),
         UNCHANGED << pub, lanePub, mergedKnown, lockKnown >>,
         UNCHANGED << aicClock, aivClock, sameKindClock, mergedClock, lockClock >>,
         UNCHANGED flagVars, KnownInv(L, E)'
  PROVE  Books(L, E)'
<1>1. UNCHANGED << aicGen, sameKind, aivCount >>
  BY DEF flagVars
<1>2. /\ \A k \in FlagKey : \A n \in Kind : sameKind'[k][n] <= sameKind[k][n]
      /\ \A k \in FlagKey : \A d \in Core : aivCount'[k][d] <= aivCount[k][d]
  BY <1>1 DEF TypeOK
<1>3. SetsInv(L, E)'
  BY <1>1, <1>2, SetsKept DEF Books
<1>4. LanesInv(L, E)'
  BY <1>1, <1>2, LanesKept DEF Books
<1>5. MergedInv(L, E)' /\ HandedInv(L, E)'
  BY MergedKept, HandedKept DEF Books
<1> QED BY <1>3, <1>4, <1>5 DEF Books

-----------------------------------------------------------------------------
(* An issue: the core knows its own access from now on, and the clock that *)
(* stamps it is the core's.                                                *)
LEMMA IssueKeepsBooks ==
  ASSUME TypeOK, TypeOK', NEW L, NEW E, E \subseteq Sites, ClocksTyped(Core, L), Books(L, E),
         NEW c \in Core, Issue(c), << c, pc[c] >> \in E,
         \A x \in L : Id(x) = << c, pc[c] >> => x.record.clock = Ticked(clock[c], c)
  PROVE  Books(L, E)'
<1>1. launch' = launch /\ UNCHANGED flagVars
  BY Zenon DEF Issue, Compute, Turn
<1>2. PICK q : q = Ticked(clock[c], c)
  OBVIOUS
<1>3. Sound(Core, L, E, known[c], q)
  BY <1>2, SoundTick DEF Books, KnownInv
<1>4. Sound(Core, L, E, {<< c, pc[c] >>}, q)
  <2>1. q \in Clock /\ Leq(q, q)
    BY <1>3, TickFacts DEF Sound, Clock
  <2> QED BY <1>2, <2>1 DEF Sound, Clock, Leq
<1>5. Sound(Core, L, E, known[c] \cup {<< c, pc[c] >>}, q)
  BY <1>3, <1>4, SoundBoth
<1>6. /\ known' = [known EXCEPT ![c] = known[c] \cup {<< c, pc[c] >>}]
      /\ clock' = [clock EXCEPT ![c] = q]
  BY <1>2, Zenon DEF Issue
<1>7. KnownInv(L, E)'
  BY <1>1, <1>5, <1>6, KnownStep, Zenon DEF Books
<1>8. /\ UNCHANGED << pub, lanePub, mergedKnown, lockKnown >>
      /\ UNCHANGED << aicClock, aivClock, sameKindClock, mergedClock, lockClock >>
  BY Zenon DEF Issue
<1> QED BY <1>1, <1>7, <1>8, NothingPublished

(* The clock a core reaches by a tick, with what it knew before.           *)
LEMMA TickKeepsKnown ==
  ASSUME launch' = launch, NEW L, NEW E, E \subseteq Sites, ClocksTyped(Core, L),
         KnownInv(L, E), NEW c \in Core, UNCHANGED known,
         clock' = [clock EXCEPT ![c] = Ticked(clock[c], c)]
  PROVE  KnownInv(L, E)'
<1>1. PICK q : q = Ticked(clock[c], c)
  OBVIOUS
<1>2. PICK S : S = known[c]
  OBVIOUS
<1>3. Sound(Core, L, E, S, q)
  BY <1>1, <1>2, SoundTick DEF KnownInv
<1>4. known' = [known EXCEPT ![c] = S] /\ clock' = [clock EXCEPT ![c] = q]
  BY <1>1, <1>2 DEF KnownInv
<1> QED BY <1>3, <1>4, KnownStep

(* What appending does.                                                    *)
LEMMA AppendFacts ==
  ASSUME NEW T, NEW s \in Seq(T), NEW e \in T
  PROVE  /\ Append(s, e) \in Seq(T) /\ Len(s) \in Nat /\ Len(Append(s, e)) = Len(s) + 1
         /\ Append(s, e)[Len(s) + 1] = e /\ \A i \in 1 .. Len(s) : Append(s, e)[i] = s[i]
OBVIOUS

(* A publication adds what the core knows, and its clock to the one that   *)
(* carries it.                                                             *)
LEMMA AppendSound ==
  ASSUME NEW L, NEW E, E \subseteq Sites, ClocksTyped(Core, L),
         NEW s \in Seq(SUBSET Sites), NEW p \in Clock, NEW S, NEW q \in Clock,
         \A i \in 1 .. Len(s) : Sound(Core, L, E, s[i], p), Sound(Core, L, E, S, q)
  PROVE  /\ Append(s, S) \in Seq(SUBSET Sites) /\ Len(Append(s, S)) = Len(s) + 1
         /\ Join(p, q) \in Clock
         /\ \A i \in 1 .. Len(Append(s, S)) : Sound(Core, L, E, Append(s, S)[i], Join(p, q))
<1>1. Join(p, q) \in Clock /\ Leq(p, Join(p, q)) /\ Leq(q, Join(p, q))
  BY JoinFacts
<1>2. PICK D : D = SUBSET Sites /\ S \in D /\ s \in Seq(D)
  BY DEF Sound
<1>3. \A i \in 1 .. Len(s) : Sound(Core, L, E, s[i], Join(p, q))
  BY <1>1, SoundLater
<1>4. Sound(Core, L, E, S, Join(p, q))
  BY <1>1, SoundLater
<1>5. PICK t : /\ t = Append(s, S) /\ t \in Seq(SUBSET Sites) /\ Len(t) = Len(s) + 1
               /\ Len(s) \in Nat /\ t[Len(s) + 1] = S /\ \A i \in 1 .. Len(s) : t[i] = s[i]
  <2>1. /\ Append(s, S) \in Seq(D) /\ Len(s) \in Nat /\ Len(Append(s, S)) = Len(s) + 1
        /\ Append(s, S)[Len(s) + 1] = S /\ \A i \in 1 .. Len(s) : Append(s, S)[i] = s[i]
    BY <1>2, AppendFacts
  <2> QED BY <1>2, <2>1
<1>6. \A i \in 1 .. Len(t) : i \in 1 .. Len(s) \/ i = Len(s) + 1
  BY <1>5
<1>7. \A i \in 1 .. Len(t) : Sound(Core, L, E, t[i], Join(p, q))
  BY <1>3, <1>4, <1>5, <1>6
<1> QED BY <1>1, <1>5, <1>7

(* A set that publishes S with clock q on the counter of its kind appends  *)
(* S and joins q to the clock of the flag, so that every set published     *)
(* there stays below it.                                                   *)
LEMMA PublishSets ==
  ASSUME TypeOK, TypeOK', NEW L, NEW E, E \subseteq Sites, ClocksTyped(Core, L), SetsInv(L, E),
         launch' = launch, NEW k \in FlagKey, NEW n \in Kind, NEW S, NEW q \in Clock,
         NEW t, t = Append(pub[k][n], S), pub' = [pub EXCEPT ![k][n] = t],
         NEW r, r = Join(SetClock(k, n), q), Sound(Core, L, E, S, q),
         \/ /\ Mixed /\ n = "AIC" /\ UNCHANGED << sameKind, sameKindClock >>
            /\ aicGen' = [aicGen EXCEPT ![k] = @ + 1]
            /\ aicClock' = [aicClock EXCEPT ![k] = r]
         \/ /\ ~ Mixed /\ UNCHANGED << aicGen, aicClock >>
            /\ sameKind' = [sameKind EXCEPT ![k][n] = @ + 1]
            /\ sameKindClock' = [sameKindClock EXCEPT ![k][n] = r]
  PROVE  SetsInv(L, E)'
<1>1. Core' = Core /\ Clock' = Clock /\ Sites' = Sites /\ (Mixed <=> Mixed')
  BY SameLaunch
<1>2. PICK s \in Seq(SUBSET Sites) : s = pub[k][n]
  BY DEF SetsInv
<1>3. PICK p \in Clock : p = SetClock(k, n)
  BY DEF SetClock, SetsInv
<1>4. /\ t \in Seq(SUBSET Sites) /\ r \in Clock
        /\ t = Append(s, S) /\ r = Join(p, q) /\ Len(t) = Len(s) + 1
        /\ \A i \in 1 .. Len(t) : Sound(Core, L, E, t[i], r)
  <2>1. \A i \in 1 .. Len(s) : Sound(Core, L, E, s[i], p)
    BY <1>2, <1>3 DEF SetsInv
  <2>2. /\ Append(s, S) \in Seq(SUBSET Sites) /\ Len(Append(s, S)) = Len(s) + 1
        /\ Join(p, q) \in Clock
        /\ \A i \in 1 .. Len(Append(s, S)) : Sound(Core, L, E, Append(s, S)[i], Join(p, q))
    BY <2>1, AppendSound
  <2> QED BY <1>2, <1>3, <2>2
<1>5. pub' = [pub EXCEPT ![k][n] = t]
  OBVIOUS
<1>6. pub' \in [FlagKey -> [Kind -> Seq(SUBSET Sites)]]
  BY <1>4, <1>5 DEF SetsInv
<1>7. \A k1 \in FlagKey : \A n1 \in Kind :
        pub'[k1][n1] = IF k1 = k /\ n1 = n THEN t ELSE pub[k1][n1]
  <2>1. PICK V : V = Seq(SUBSET Sites) /\ t \in V /\ pub \in [FlagKey -> [Kind -> V]]
    BY <1>4 DEF SetsInv
  <2> QED BY <1>5, <2>1
<1>8. /\ Len(s) \in Nat /\ \A k1 \in FlagKey : \A n1 \in Kind : Len(pub[k1][n1]) \in Nat
      /\ \A k1 \in FlagKey : \A n1 \in Kind :
           sameKind[k1][n1] \in Nat /\ sameKind[k1][n1] <= Len(pub[k1][n1])
      /\ \A k1 \in FlagKey : aicGen[k1] \in Nat /\ aicGen[k1] <= Len(pub[k1]["AIC"])
  BY DEF TypeOK, SetsInv
<1>9. CASE Mixed
  <2>1. /\ n = "AIC" /\ UNCHANGED << sameKind, sameKindClock >>
        /\ aicGen' = [aicGen EXCEPT ![k] = @ + 1]
        /\ aicClock' = [aicClock EXCEPT ![k] = r] /\ aicClock[k] = p
    BY <1>3, <1>9 DEF SetClock
  <2>2. aicClock' \in [FlagKey -> Clock]
    BY <1>4, <2>1 DEF SetsInv
  <2>3. Leq(p, r)
    BY <1>4, JoinFacts
  <2>4. ASSUME NEW k1 \in FlagKey, NEW n1 \in Kind, NEW i \in 1 .. Len(pub'[k1][n1])
        PROVE  Sound(Core, L, E, pub'[k1][n1][i], aicClock'[k1])
    <3>1. CASE k1 = k /\ n1 = n
      BY <1>4, <1>7, <2>1, <3>1 DEF SetsInv
    <3>2. CASE ~ (k1 = k /\ n1 = n)
      <4>1. Sound(Core, L, E, pub[k1][n1][i], aicClock[k1])
        BY <1>7, <1>9, <3>2 DEF SetsInv, SetClock
      <4>2. aicClock'[k1] = IF k1 = k THEN r ELSE aicClock[k1]
        BY <2>1 DEF SetsInv
      <4>3. pub'[k1][n1] = pub[k1][n1]
        BY <1>7, <3>2
      <4>4. CASE k1 = k
        <5>1. Sound(Core, L, E, pub[k1][n1][i], p)
          BY <2>1, <4>1, <4>4
        <5>2. Sound(Core, L, E, pub[k1][n1][i], r)
          BY <1>4, <2>3, <5>1, SoundLater
        <5> QED BY <4>2, <4>3, <4>4, <5>2
      <4>5. CASE k1 # k
        BY <4>1, <4>2, <4>3, <4>5
      <4> QED BY <4>4, <4>5
    <3> QED BY <3>1, <3>2
  <2>5. \A k1 \in FlagKey : \A n1 \in Kind : sameKind'[k1][n1] <= Len(pub'[k1][n1])
    <3>1. Len(t) = Len(s) + 1 /\ sameKind' = sameKind /\ s = pub[k][n]
      BY <1>2, <1>4, <2>1
    <3>2. ASSUME NEW k1 \in FlagKey, NEW n1 \in Kind
          PROVE  sameKind'[k1][n1] <= Len(pub'[k1][n1])
      <4>1. CASE k1 = k /\ n1 = n
        <5>1. sameKind[k1][n1] \in Nat /\ sameKind[k1][n1] <= Len(s)
          BY <1>8, <3>1, <4>1
        <5> QED BY <1>7, <1>8, <3>1, <4>1, <5>1
      <4>2. CASE ~ (k1 = k /\ n1 = n)
        BY <1>7, <1>8, <3>1, <4>2
      <4> QED BY <4>1, <4>2
    <3> QED BY <3>2
  <2>6. \A k1 \in FlagKey : aicGen'[k1] <= Len(pub'[k1]["AIC"])
    <3>1. Len(t) = Len(s) + 1 /\ s = pub[k]["AIC"] /\ n = "AIC"
      BY <1>2, <1>4, <2>1
    <3>2. ASSUME NEW k1 \in FlagKey PROVE aicGen'[k1] <= Len(pub'[k1]["AIC"])
      <4>1. aicGen'[k1] = IF k1 = k THEN aicGen[k1] + 1 ELSE aicGen[k1]
        BY <2>1 DEF TypeOK
      <4>2. pub'[k1]["AIC"] = IF k1 = k THEN t ELSE pub[k1]["AIC"]
        BY <1>7, <3>1 DEF Kind
      <4>3. aicGen[k1] \in Nat /\ aicGen[k1] <= Len(pub[k1]["AIC"]) /\ Len(pub[k1]["AIC"]) \in Nat
        BY <1>8 DEF Kind
      <4>4. CASE k1 = k
        BY <3>1, <4>1, <4>2, <4>3, <4>4
      <4>5. CASE k1 # k
        BY <4>1, <4>2, <4>3, <4>5
      <4> QED BY <4>4, <4>5
    <3> QED BY <3>2
  <2>7. sameKindClock' \in [FlagKey -> [Kind -> Clock]]
    BY <2>1 DEF SetsInv
  <2>8. \A k1 \in FlagKey : \A n1 \in Kind : SetClock(k1, n1)' = aicClock'[k1]
    BY <1>1, <1>9 DEF SetClock
  <2> QED BY <1>1, <1>6, <2>2, <2>4, <2>5, <2>6, <2>7, <2>8 DEF SetsInv
<1>10. CASE ~ Mixed
  <2>1. /\ UNCHANGED << aicGen, aicClock >>
        /\ sameKind' = [sameKind EXCEPT ![k][n] = @ + 1]
        /\ sameKindClock' = [sameKindClock EXCEPT ![k][n] = r]
    BY <1>10
  <2>2. sameKindClock' \in [FlagKey -> [Kind -> Clock]]
    BY <1>4, <2>1 DEF SetsInv
  <2>3. \A k1 \in FlagKey : \A n1 \in Kind :
          sameKindClock'[k1][n1] = IF k1 = k /\ n1 = n THEN r ELSE sameKindClock[k1][n1]
    BY <2>1 DEF SetsInv
  <2>4. ASSUME NEW k1 \in FlagKey, NEW n1 \in Kind, NEW i \in 1 .. Len(pub'[k1][n1])
        PROVE  Sound(Core, L, E, pub'[k1][n1][i], sameKindClock'[k1][n1])
    <3>1. CASE k1 = k /\ n1 = n
      <4>1. pub'[k1][n1] = t
        BY <1>7, <3>1
      <4>2. sameKindClock'[k1][n1] = r
        BY <2>3, <3>1
      <4>3. i \in 1 .. Len(t)
        BY <4>1
      <4> QED BY <1>4, <4>1, <4>2, <4>3
    <3>2. CASE ~ (k1 = k /\ n1 = n)
      <4>1. pub'[k1][n1] = pub[k1][n1] /\ sameKindClock'[k1][n1] = sameKindClock[k1][n1]
        BY <1>7, <2>3, <3>2
      <4> QED BY <1>10, <4>1 DEF SetsInv, SetClock
    <3> QED BY <3>1, <3>2
  <2>5. \A k1 \in FlagKey : \A n1 \in Kind : sameKind'[k1][n1] <= Len(pub'[k1][n1])
    <3>1. Len(t) = Len(s) + 1 /\ s = pub[k][n]
      BY <1>2, <1>4
    <3>2. ASSUME NEW k1 \in FlagKey, NEW n1 \in Kind
          PROVE  sameKind'[k1][n1] <= Len(pub'[k1][n1])
      <4>1. CASE k1 = k /\ n1 = n
        <5>1. sameKind'[k1][n1] = sameKind[k1][n1] + 1
          BY <2>1, <4>1 DEF TypeOK
        <5>2. sameKind[k1][n1] \in Nat /\ sameKind[k1][n1] <= Len(s)
          BY <1>8, <3>1, <4>1
        <5>3. pub'[k1][n1] = t
          BY <1>7, <4>1
        <5>4. Len(s) \in Nat /\ Len(pub'[k1][n1]) = Len(s) + 1
          BY <1>8, <3>1, <5>3
        <5> QED BY <5>1, <5>2, <5>4
      <4>2. CASE ~ (k1 = k /\ n1 = n)
        <5>1. sameKind'[k1][n1] = sameKind[k1][n1]
          BY <2>1, <4>2 DEF TypeOK
        <5> QED BY <1>7, <1>8, <4>2, <5>1
      <4> QED BY <4>1, <4>2
    <3> QED BY <3>2
  <2>6. \A k1 \in FlagKey : aicGen'[k1] <= Len(pub'[k1]["AIC"])
    <3>1. Len(t) = Len(s) + 1 /\ s = pub[k][n] /\ aicGen' = aicGen
      BY <1>2, <1>4, <2>1
    <3>2. ASSUME NEW k1 \in FlagKey PROVE aicGen'[k1] <= Len(pub'[k1]["AIC"])
      <4>1. pub'[k1]["AIC"] = IF k1 = k /\ n = "AIC" THEN t ELSE pub[k1]["AIC"]
        BY <1>7 DEF Kind
      <4>2. aicGen[k1] \in Nat /\ aicGen[k1] <= Len(pub[k1]["AIC"]) /\ Len(pub[k1]["AIC"]) \in Nat
        BY <1>8 DEF Kind
      <4>3. CASE k1 = k /\ n = "AIC"
        BY <3>1, <4>1, <4>2, <4>3
      <4>4. CASE ~ (k1 = k /\ n = "AIC")
        BY <3>1, <4>1, <4>2, <4>4
      <4> QED BY <4>3, <4>4
    <3> QED BY <3>2
  <2>7. \A k1 \in FlagKey : \A n1 \in Kind : SetClock(k1, n1)' = sameKindClock'[k1][n1]
    BY <1>1, <1>10 DEF SetClock
  <2>8. aicClock' \in [FlagKey -> Clock]
    BY <2>1 DEF SetsInv
  <2> QED BY <1>1, <1>6, <2>2, <2>4, <2>5, <2>6, <2>7, <2>8 DEF SetsInv
<1> QED BY <1>9, <1>10

(* The same for the lane a vector core of a mixed launch sets.             *)
LEMMA PublishLane ==
  ASSUME TypeOK, TypeOK', NEW L, NEW E, E \subseteq Sites, ClocksTyped(Core, L), LanesInv(L, E),
         launch' = launch, NEW k \in FlagKey, NEW c \in Core, NEW S, NEW q \in Clock,
         NEW t, t = Append(lanePub[k][c], S), lanePub' = [lanePub EXCEPT ![k][c] = t],
         NEW r, r = Join(aivClock[k][c], q), aivClock' = [aivClock EXCEPT ![k][c] = r],
         Sound(Core, L, E, S, q), aivCount' = [aivCount EXCEPT ![k][c] = @ + 1]
  PROVE  LanesInv(L, E)'
<1>1. Core' = Core /\ Clock' = Clock /\ Sites' = Sites
  BY SameLaunch
<1>2. PICK s \in Seq(SUBSET Sites) : s = lanePub[k][c]
  BY DEF LanesInv
<1>3. PICK p \in Clock : p = aivClock[k][c]
  BY DEF LanesInv
<1>4. /\ t \in Seq(SUBSET Sites) /\ r \in Clock /\ Len(t) = Len(s) + 1
      /\ \A i \in 1 .. Len(t) : Sound(Core, L, E, t[i], r)
  <2>1. \A i \in 1 .. Len(s) : Sound(Core, L, E, s[i], p)
    BY <1>2, <1>3 DEF LanesInv
  <2>2. /\ Append(s, S) \in Seq(SUBSET Sites) /\ Len(Append(s, S)) = Len(s) + 1
        /\ Join(p, q) \in Clock
        /\ \A i \in 1 .. Len(Append(s, S)) : Sound(Core, L, E, Append(s, S)[i], Join(p, q))
    BY <2>1, AppendSound
  <2> QED BY <1>2, <1>3, <2>2
<1>5. lanePub' \in [FlagKey -> [Core -> Seq(SUBSET Sites)]] /\ aivClock' \in [FlagKey -> [Core -> Clock]]
  BY <1>4 DEF LanesInv
<1>6. \A k1 \in FlagKey : \A d \in Core :
        lanePub'[k1][d] = IF k1 = k /\ d = c THEN t ELSE lanePub[k1][d]
  <2>1. PICK V : V = Seq(SUBSET Sites) /\ t \in V /\ lanePub \in [FlagKey -> [Core -> V]]
    BY <1>4 DEF LanesInv
  <2> QED BY <2>1
<1>7. \A k1 \in FlagKey : \A d \in Core :
        aivClock'[k1][d] = IF k1 = k /\ d = c THEN r ELSE aivClock[k1][d]
  BY <1>4 DEF LanesInv
<1>8. ASSUME NEW k1 \in FlagKey, NEW d \in Core
      PROVE  /\ \A i \in 1 .. Len(lanePub'[k1][d]) : Sound(Core, L, E, lanePub'[k1][d][i], aivClock'[k1][d])
             /\ aivCount'[k1][d] <= Len(lanePub'[k1][d])
  <2>1. /\ aivCount[k1][d] \in Nat /\ aivCount[k1][d] <= Len(lanePub[k1][d])
        /\ Len(lanePub[k1][d]) \in Nat
    BY DEF TypeOK, LanesInv
  <2>2. CASE k1 = k /\ d = c
    <3>1. lanePub'[k1][d] = t /\ aivClock'[k1][d] = r
      BY <1>6, <1>7, <2>2
    <3>2. aivCount'[k1][d] = aivCount[k1][d] + 1
      BY <2>2 DEF TypeOK
    <3>3. Len(t) = Len(lanePub[k1][d]) + 1
      BY <1>2, <1>4, <2>2
    <3> QED BY <1>4, <2>1, <3>1, <3>2, <3>3
  <2>3. CASE ~ (k1 = k /\ d = c)
    <3>1. lanePub'[k1][d] = lanePub[k1][d] /\ aivClock'[k1][d] = aivClock[k1][d]
      BY <1>6, <1>7, <2>3
    <3>2. aivCount'[k1][d] = aivCount[k1][d]
      BY <2>3 DEF TypeOK
    <3> QED BY <2>1, <3>1, <3>2 DEF LanesInv
  <2> QED BY <2>2, <2>3
<1> QED BY <1>1, <1>5, <1>8 DEF LanesInv

(* sync_block_set keeps the books.                                         *)
LEMMA PublishKeepsBooks ==
  ASSUME TypeOK, TypeOK', NEW L, NEW E, E \subseteq Sites, ClocksTyped(Core, L), Books(L, E),
         NEW c \in Core, Publish(c)
  PROVE  Books(L, E)'
<1>1. launch' = launch /\ SyncBlockSet(c) /\ IsLaunch(launch)
  BY DEF Publish, SyncBlockSet, Turn, TypeOK
<1>2. PICK k \in FlagKey : k = FlagKeyOf(c)
  BY <1>1, FlagKeyFacts DEF SyncBlockSet, TypeOK
<1>3. PICK n \in Kind : n = KindOf(c)
  BY <1>1, CoreFacts
<1>4. HasOpposite(c) <=> Mixed
  BY <1>1, KindFacts
<1>5. PICK q : q = Ticked(clock[c], c)
  OBVIOUS
<1>6. PICK S : S = known[c]
  OBVIOUS
<1>7. Sound(Core, L, E, S, q) /\ q \in Clock
  <2>1. Sound(Core, L, E, S, q)
    BY <1>5, <1>6, SoundTick DEF Books, KnownInv
  <2> QED BY <2>1 DEF Sound, Clock
<1>8. KnownInv(L, E)'
  <2>1. UNCHANGED known /\ clock' = [clock EXCEPT ![c] = Ticked(clock[c], c)]
    BY DEF Publish
  <2> QED BY <1>1, <2>1, TickKeepsKnown DEF Books
<1>9. MergedInv(L, E)' /\ HandedInv(L, E)'
  <2>1. UNCHANGED << mergedKnown, mergedClock >> /\ UNCHANGED << lockKnown, lockClock >>
    BY DEF Publish
  <2> QED BY <1>1, <2>1, MergedKept, HandedKept DEF Books
<1>10. CASE Mixed /\ n = "AIV"
  <2>1. /\ UNCHANGED << sameKindClock, aicClock, pub >>
        /\ aivClock' = [aivClock EXCEPT ![k][c] = Join(aivClock[k][c], q)]
        /\ lanePub' = [lanePub EXCEPT ![k][c] = Append(lanePub[k][c], S)]
    BY <1>2, <1>3, <1>4, <1>5, <1>6, <1>10 DEF Publish
  <2>2. aivCount' = [aivCount EXCEPT ![k][c] = @ + 1] /\ UNCHANGED << sameKind, aicGen >>
    BY <1>1, <1>2, <1>3, <1>4, <1>10 DEF SyncBlockSet
  <2>3. \A k1 \in FlagKey : \A n1 \in Kind : sameKind'[k1][n1] <= sameKind[k1][n1]
    BY <2>2 DEF TypeOK
  <2>4. SetsInv(L, E)'
    BY <1>1, <2>1, <2>2, <2>3, SetsKept DEF Books
  <2>5. LanesInv(L, E)'
    <3>1. PICK t : t = Append(lanePub[k][c], S)
      OBVIOUS
    <3>2. PICK r : r = Join(aivClock[k][c], q)
      OBVIOUS
    <3>3. lanePub' = [lanePub EXCEPT ![k][c] = t] /\ aivClock' = [aivClock EXCEPT ![k][c] = r]
      BY <2>1, <3>1, <3>2
    <3> QED BY <1>1, <1>7, <2>2, <3>1, <3>2, <3>3, PublishLane DEF Books
  <2> QED BY <1>8, <1>9, <2>4, <2>5 DEF Books
<1>11. CASE ~ (Mixed /\ n = "AIV")
  <2>1. /\ UNCHANGED << aivClock, lanePub >>
        /\ pub' = [pub EXCEPT ![k][n] = Append(pub[k][n], S)]
    <3>1. ~ (HasOpposite(c) /\ KindOf(c) = "AIV")
      BY <1>3, <1>4, <1>11
    <3>2. UNCHANGED lanePub /\ pub' = [pub EXCEPT ![k][n] = Append(@, known[c])]
      BY <1>2, <1>3, <3>1 DEF Publish
    <3>3. UNCHANGED aivClock
      BY <1>3, <3>1 DEF Publish, Kind
    <3> QED BY <1>6, <3>2, <3>3
  <2>2. UNCHANGED aivCount
    BY <1>1, <1>2, <1>3, <1>4, <1>11 DEF SyncBlockSet, Kind
  <2>3. LanesInv(L, E)'
    <3>1. \A k1 \in FlagKey : \A d \in Core : aivCount'[k1][d] <= aivCount[k1][d]
      BY <2>2 DEF TypeOK
    <3> QED BY <1>1, <2>1, <3>1, LanesKept DEF Books
  <2>4. PICK t : t = Append(pub[k][n], S)
    OBVIOUS
  <2>5. PICK r : r = Join(SetClock(k, n), q)
    OBVIOUS
  <2>6. pub' = [pub EXCEPT ![k][n] = t]
    BY <2>1, <2>4
  <2>7. \/ /\ Mixed /\ n = "AIC" /\ UNCHANGED << sameKind, sameKindClock >>
           /\ aicGen' = [aicGen EXCEPT ![k] = @ + 1]
           /\ aicClock' = [aicClock EXCEPT ![k] = r]
        \/ /\ ~ Mixed /\ UNCHANGED << aicGen, aicClock >>
           /\ sameKind' = [sameKind EXCEPT ![k][n] = @ + 1]
           /\ sameKindClock' = [sameKindClock EXCEPT ![k][n] = r]
    <3>1. CASE Mixed
      <4>1. n = "AIC"
        BY <1>11, <3>1 DEF Kind
      <4>2. r = Join(aicClock[k], q)
        BY <2>5, <3>1 DEF SetClock
      <4>3. aicGen' = [aicGen EXCEPT ![k] = @ + 1] /\ UNCHANGED sameKind
        BY <1>1, <1>2, <1>3, <1>4, <3>1, <4>1 DEF SyncBlockSet
      <4>4. aicClock' = [aicClock EXCEPT ![k] = Join(aicClock[k], q)] /\ UNCHANGED sameKindClock
        BY <1>2, <1>3, <1>4, <1>5, <3>1, <4>1 DEF Publish
      <4> QED BY <3>1, <4>1, <4>2, <4>3, <4>4
    <3>2. CASE ~ Mixed
      <4>1. r = Join(sameKindClock[k][n], q)
        BY <2>5, <3>2 DEF SetClock
      <4>2. sameKind' = [sameKind EXCEPT ![k][n] = @ + 1] /\ UNCHANGED aicGen
        BY <1>1, <1>2, <1>3, <1>4, <3>2 DEF SyncBlockSet
      <4>3. /\ sameKindClock' = [sameKindClock EXCEPT ![k][n] = Join(sameKindClock[k][n], q)]
            /\ UNCHANGED aicClock
        BY <1>2, <1>3, <1>4, <1>5, <3>2 DEF Publish
      <4> QED BY <3>2, <4>1, <4>2, <4>3
    <3> QED BY <3>1, <3>2
  <2>8. SetsInv(L, E)'
    BY <1>1, <1>7, <2>4, <2>5, <2>6, <2>7, PublishSets DEF Books
  <2> QED BY <1>8, <1>9, <2>3, <2>8 DEF Books
<1> QED BY <1>10, <1>11

(* Joining a clock that carries knowledge, and ticking, brings it to the   *)
(* core.                                                                   *)
LEMMA JoinKeepsKnown ==
  ASSUME launch' = launch, NEW L, NEW E, E \subseteq Sites, ClocksTyped(Core, L),
         KnownInv(L, E), NEW c \in Core, NEW S, NEW q, Sound(Core, L, E, S, q),
         known' = [known EXCEPT ![c] = known[c] \cup S],
         \/ clock' = [clock EXCEPT ![c] = Ticked(Join(clock[c], q), c)]
         \/ clock' = [clock EXCEPT ![c] = Join(clock[c], q)]
  PROVE  KnownInv(L, E)'
<1>1. PICK r : r = Join(clock[c], q)
  OBVIOUS
<1>2. PICK T : T = known[c] \cup S
  OBVIOUS
<1>3. Sound(Core, L, E, T, r)
  BY <1>1, <1>2, SoundJoin DEF KnownInv
<1>4. PICK t : t = Ticked(r, c)
  OBVIOUS
<1>5. Sound(Core, L, E, T, t)
  BY <1>3, <1>4, SoundTick
<1>6. known' = [known EXCEPT ![c] = T]
  BY <1>2
<1>7. clock' = [clock EXCEPT ![c] = t] \/ clock' = [clock EXCEPT ![c] = r]
  BY <1>1, <1>4
<1> QED BY <1>3, <1>5, <1>6, <1>7, KnownStep

(* The set a ready wait is paired with is one of those published.          *)
LEMMA PairedIsSet ==
  ASSUME NEW s, Len(s) \in Nat, NEW u \in Nat, 0 < u, u <= Len(s)
  PROVE  \E i \in 1 .. Len(s) : Paired(s, u) = s[i]
<1>1. Len(s) - u + 1 \in 1 .. Len(s)
  OBVIOUS
<1> QED BY <1>1 DEF Paired

(* A union of knowledge is sound with the join of the clocks.              *)
All(q, D) == {q[d] : d \in D}

(* The union is sound with the join of all.                                *)
LEMMA SoundJoinAll ==
  ASSUME IsLaunch(launch), NEW L, NEW E, ClocksTyped(Core, L), NEW D \in SUBSET Core,
         NEW S, NEW q, \A d \in D : Sound(Core, L, E, S[d], q[d])
  PROVE  Sound(Core, L, E, UNION All(S, D), JoinAll(All(q, D)))
<1>1. PICK f \in [D -> Clock] : \A d \in D : f[d] = q[d]
  <2> DEFINE g == [d \in D |-> q[d]]
  <2>1. g \in [D -> Clock] /\ \A d \in D : g[d] = q[d]
    BY DEF Sound, Clock
  <2> HIDE DEF g
  <2> QED BY <2>1
<1>2. PICK j \in Clock : j = JoinAll(All(q, D)) /\ \A d \in D : Leq(f[d], j)
  <2>1. {f[d] : d \in D} = All(q, D)
    BY <1>1 DEF All
  <2>2. JoinAll({f[d] : d \in D}) \in Clock /\ \A d \in D : Leq(f[d], JoinAll({f[e] : e \in D}))
    BY JoinAllFacts
  <2> QED BY <2>1, <2>2
<1>3. \A d \in D : Sound(Core, L, E, S[d], j)
  <2>1. ASSUME NEW d \in D PROVE Sound(Core, L, E, S[d], j)
    <3>1. Sound(Core, L, E, S[d], f[d]) /\ Leq(f[d], j)
      BY <1>1, <1>2
    <3> QED BY <3>1, SoundLater
  <2> QED BY <2>1
<1>4. Sound(Core, L, E, UNION All(S, D), j)
  BY <1>2, <1>3 DEF Sound, Clock, All
<1> QED BY <1>2, <1>4

(* sync_block_wait keeps the books: the clock of the flag is past every    *)
(* set it may be paired with.                                              *)
LEMMA AcquireKeepsBooks ==
  ASSUME TypeOK, TypeOK', NEW L, NEW E, E \subseteq Sites, ClocksTyped(Core, L), Books(L, E),
         NEW c \in Core, Acquire(c)
  PROVE  Books(L, E)'
<1>1. launch' = launch /\ SyncBlockWait(c) /\ IsLaunch(launch)
  BY DEF Acquire, SyncBlockWait, Turn, TypeOK
<1>2. PICK k \in FlagKey : k = FlagKeyOf(c)
  BY <1>1, FlagKeyFacts DEF SyncBlockWait, TypeOK
<1>3. PICK n \in Kind : n = KindOf(c)
  BY <1>1, CoreFacts
<1>4. (HasOpposite(c) <=> Mixed) /\ FlagReady(c, k)
  BY <1>1, <1>2, KindFacts DEF SyncBlockWait
<1>5. /\ UNCHANGED << pub, lanePub, mergedKnown, lockKnown, aicGen >>
      /\ UNCHANGED << aicClock, aivClock, sameKindClock, mergedClock, lockClock >>
  BY <1>1 DEF Acquire, SyncBlockWait
<1>6. SetsInv(L, E)'
  <2>1. ASSUME NEW k1 \in FlagKey, NEW n1 \in Kind PROVE sameKind'[k1][n1] <= sameKind[k1][n1]
    <3>1. UNCHANGED sameKind \/ sameKind' = [sameKind EXCEPT ![k][n] = @ - 1]
      BY <1>1, <1>2, <1>3 DEF SyncBlockWait
    <3>2. sameKind[k1][n1] \in Nat /\ sameKind \in [FlagKey -> [Kind -> Nat]]
      BY DEF TypeOK
    <3>3. CASE UNCHANGED sameKind
      BY <3>2, <3>3
    <3>4. CASE sameKind' = [sameKind EXCEPT ![k][n] = @ - 1]
      <4>1. sameKind'[k1][n1] = IF k1 = k /\ n1 = n THEN sameKind[k1][n1] - 1
                                                   ELSE sameKind[k1][n1]
        BY <3>2, <3>4
      <4> QED BY <3>2, <4>1
    <3> QED BY <3>1, <3>3, <3>4
  <2> QED BY <1>1, <1>5, <2>1, SetsKept DEF Books
<1>7. LanesInv(L, E)'
  <2>1. ASSUME NEW k1 \in FlagKey, NEW d \in Core PROVE aivCount'[k1][d] <= aivCount[k1][d]
    <3>1. PICK C : C = Contributors(c, k)
      OBVIOUS
    <3>2. \/ UNCHANGED aivCount
          \/ aivCount' = [aivCount EXCEPT ![k] =
                           [e \in Core |-> IF e \in C THEN aivCount[k][e] - 1 ELSE aivCount[k][e]]]
      BY <1>1, <1>2, <3>1 DEF SyncBlockWait
    <3>3. aivCount[k1][d] \in Nat
      BY DEF TypeOK
    <3>4. \/ aivCount'[k1][d] = aivCount[k1][d]
          \/ aivCount'[k1][d] = aivCount[k1][d] - 1
      <4>1. CASE UNCHANGED aivCount
        BY <4>1
      <4>2. CASE aivCount' = [aivCount EXCEPT ![k] =
                 [e \in Core |-> IF e \in C THEN aivCount[k][e] - 1 ELSE aivCount[k][e]]]
        <5>1. aivCount \in [FlagKey -> [Core -> Nat]]
          BY DEF TypeOK
        <5>2. CASE k1 = k
          BY <4>2, <5>1, <5>2
        <5>3. CASE k1 # k
          BY <4>2, <5>1, <5>3
        <5> QED BY <5>2, <5>3
      <4> QED BY <3>2, <4>1, <4>2
    <3> QED BY <3>3, <3>4
  <2> QED BY <1>1, <1>5, <2>1, LanesKept DEF Books
<1>8. MergedInv(L, E)' /\ HandedInv(L, E)'
  BY <1>1, <1>5, MergedKept, HandedKept DEF Books
<1>9. CASE ~ Mixed
  <2>1. PICK S, q : /\ S = Paired(pub[k][n], sameKind[k][n]) /\ q = sameKindClock[k][n]
    OBVIOUS
  <2>2. /\ known' = [known EXCEPT ![c] = known[c] \cup S]
        /\ clock' = [clock EXCEPT ![c] = Ticked(Join(clock[c], q), c)]
    BY <1>2, <1>3, <1>4, <1>9, <2>1 DEF Acquire
  <2>3. /\ sameKind[k][n] \in Nat /\ 0 < sameKind[k][n] /\ sameKind[k][n] <= Len(pub[k][n])
        /\ Len(pub[k][n]) \in Nat
    <3>1. sameKind[k][n] > 0
      BY <1>3, <1>4, <1>9 DEF FlagReady
    <3> QED BY <3>1 DEF Books, SetsInv, TypeOK
  <2>4. PICK i \in 1 .. Len(pub[k][n]) : S = pub[k][n][i]
    BY <2>1, <2>3, PairedIsSet
  <2>5. Sound(Core, L, E, S, q)
    BY <1>9, <2>1, <2>4 DEF Books, SetsInv, SetClock
  <2>6. KnownInv(L, E)'
    BY <1>1, <2>2, <2>5, JoinKeepsKnown DEF Books
  <2> QED BY <1>6, <1>7, <1>8, <2>6 DEF Books
<1>10. CASE Mixed /\ n = "AIV"
  <2>1. PICK S, q : /\ S = Paired(pub[k]["AIC"], aicGen[k] - aivSeen[k][c]) /\ q = aicClock[k]
    OBVIOUS
  <2>2. /\ known' = [known EXCEPT ![c] = known[c] \cup S]
        /\ clock' = [clock EXCEPT ![c] = Ticked(Join(clock[c], q), c)]
    BY <1>2, <1>3, <1>4, <1>10, <2>1 DEF Acquire
  <2>3. PICK u \in Nat : /\ u = aicGen[k] - aivSeen[k][c] /\ 0 < u /\ u <= Len(pub[k]["AIC"])
                         /\ Len(pub[k]["AIC"]) \in Nat
    <3>1. aivSeen[k][c] < aicGen[k]
      BY <1>3, <1>4, <1>10 DEF FlagReady
    <3>2. aivSeen[k][c] \in Nat /\ aicGen[k] \in Nat
      BY DEF TypeOK
    <3>3. aicGen[k] <= Len(pub[k]["AIC"]) /\ Len(pub[k]["AIC"]) \in Nat
      BY DEF Books, SetsInv, Kind
    <3> QED BY <3>1, <3>2, <3>3
  <2>4. PICK i \in 1 .. Len(pub[k]["AIC"]) : S = pub[k]["AIC"][i]
    BY <2>1, <2>3, PairedIsSet
  <2>5. Sound(Core, L, E, S, q)
    BY <1>10, <2>1, <2>4 DEF Books, SetsInv, SetClock, Kind
  <2>6. KnownInv(L, E)'
    BY <1>1, <2>2, <2>5, JoinKeepsKnown DEF Books
  <2> QED BY <1>6, <1>7, <1>8, <2>6 DEF Books
<1>11. CASE Mixed /\ n # "AIV"
  <2>1. PICK D \in SUBSET Core : D = Contributors(c, k)
    BY DEF Contributors
  <2>2. PICK S : S = [d \in D |-> Paired(lanePub[k][d], aivCount[k][d])]
    OBVIOUS
  <2>3. PICK q : q = [d \in D |-> aivClock[k][d]]
    OBVIOUS
  <2>4. ASSUME NEW d \in D PROVE Sound(Core, L, E, S[d], q[d])
    <3>1. aivCount[k][d] > 0
      BY <1>3, <1>4, <1>11, <2>1 DEF FlagReady
    <3>2. /\ aivCount[k][d] \in Nat /\ aivCount[k][d] <= Len(lanePub[k][d])
          /\ Len(lanePub[k][d]) \in Nat
      BY DEF TypeOK, Books, LanesInv
    <3>3. PICK u \in Nat : u = aivCount[k][d] /\ 0 < u /\ u <= Len(lanePub[k][d])
      BY <3>1, <3>2
    <3>4. PICK i \in 1 .. Len(lanePub[k][d]) : Paired(lanePub[k][d], u) = lanePub[k][d][i]
      BY <3>2, <3>3, PairedIsSet
    <3>5. S[d] = lanePub[k][d][i] /\ q[d] = aivClock[k][d]
      BY <2>2, <2>3, <3>3, <3>4
    <3>6. d \in Core
      OBVIOUS
    <3> QED BY <3>4, <3>5, <3>6 DEF Books, LanesInv
  <2>5. PICK T, j : T = UNION All(S, D) /\ j = JoinAll(All(q, D))
    OBVIOUS
  <2>6. Sound(Core, L, E, T, j)
    <3>1. Sound(Core, L, E, UNION All(S, D), JoinAll(All(q, D)))
      BY <1>1, <2>4, SoundJoinAll
    <3> QED BY <2>5, <3>1
  <2>7. T = UNION {Paired(lanePub[k][d], aivCount[k][d]) : d \in D}
    BY <2>2, <2>5 DEF All
  <2>8. All(q, D) = {aivClock[k][d] : d \in D}
    BY <2>3 DEF All
  <2>9. known' = [known EXCEPT ![c] = known[c] \cup T]
    <3>1. known' = [known EXCEPT ![c] = @ \cup UNION {Paired(lanePub[k][d], aivCount[k][d]) : d \in D}]
      BY <1>2, <1>3, <1>4, <1>11, <2>1 DEF Acquire
    <3> QED BY <2>7, <3>1
  <2>10. clock' = [clock EXCEPT ![c] = Ticked(Join(clock[c], j), c)]
    <3>1. clock' = [clock EXCEPT ![c] = Ticked(Join(@, JoinAll({aivClock[k][d] : d \in D})), c)]
      BY <1>2, <1>3, <1>4, <1>11, <2>1 DEF Acquire
    <3> QED BY <2>5, <2>8, <3>1
  <2>11. KnownInv(L, E)'
    BY <1>1, <2>6, <2>9, <2>10, JoinKeepsKnown DEF Books
  <2> QED BY <1>6, <1>7, <1>8, <2>11 DEF Books
<1> QED BY <1>9, <1>10, <1>11

(* A barrier publishes nothing until it fires, and then what all those     *)
(* know that have arrived.                                                 *)
LEMMA ArrivalIsSound ==
  ASSUME NEW L, NEW E, ClocksTyped(Core, L), KnownInv(L, E), NEW c \in Core
  PROVE  Sound(Core, L, E, known[c], AtArrival(c))
<1>1. Sound(Core, L, E, known[c], clock[c])
  BY DEF KnownInv
<1>2. Sound(Core, L, E, known[c], Ticked(clock[c], c))
  BY <1>1, SoundTick
<1> QED BY <1>1, <1>2 DEF AtArrival

(* Arriving at a barrier without completing it keeps the books,            *)
LEMMA ParksKeepsBooks ==
  ASSUME TypeOK, TypeOK', NEW L, NEW E, E \subseteq Sites, ClocksTyped(Core, L), Books(L, E),
         NEW c \in Core, BarrierParks(c)
  PROVE  Books(L, E)'
<1>1. launch' = launch /\ UNCHANGED flagVars
  BY DEF BarrierParks, SyncBlockParks, Turn
<1>2. /\ UNCHANGED << pub, lanePub, mergedKnown, lockKnown >>
      /\ UNCHANGED << aicClock, aivClock, sameKindClock, mergedClock, lockClock >>
      /\ UNCHANGED known
  BY DEF BarrierParks, history
<1>3. PICK S, q : S = known[c] /\ q = AtArrival(c)
  OBVIOUS
<1>4. Sound(Core, L, E, S, q)
  BY <1>3, ArrivalIsSound DEF Books
<1>5. known' = [known EXCEPT ![c] = S] /\ clock' = [clock EXCEPT ![c] = q]
  BY <1>2, <1>3 DEF BarrierParks, Books, KnownInv
<1>6. KnownInv(L, E)'
  BY <1>1, <1>4, <1>5, KnownStep DEF Books
<1> QED BY <1>1, <1>2, <1>6, NothingPublished

(* and so does the arrival that completes it, which merges everybody's,    *)
LEMMA FiresKeepsBooks ==
  ASSUME TypeOK, TypeOK', NEW L, NEW E, E \subseteq Sites, ClocksTyped(Core, L), Books(L, E),
         NEW c \in Core, BarrierFires(c)
  PROVE  Books(L, E)'
<1>1. /\ launch' = launch /\ UNCHANGED << aicGen, sameKind, aivCount >> /\ SyncBlockFires(c)
      /\ IsLaunch(launch)
  BY DEF BarrierFires, SyncBlockFires, Turn, flagVars, TypeOK
<1>2. /\ UNCHANGED << pub, aicClock, sameKindClock >> /\ UNCHANGED << lanePub, aivClock >>
      /\ UNCHANGED << lockKnown, lockClock >>
  BY DEF BarrierFires
<1>3. PICK k \in BarrierKey : k = BarrierKeyOf(c)
  BY <1>1, BarrierKeyFacts DEF SyncBlockFires, TypeOK
<1>4. PICK D \in SUBSET Core : D = arrived[k] \cup {c}
  BY DEF TypeOK
<1>5. PICK S : S = [d \in D |-> known[d]]
  OBVIOUS
<1>6. PICK q : q = [d \in D |-> IF d = c THEN AtArrival(c) ELSE clock[d]]
  OBVIOUS
<1>7. PICK T, j : T = UNION All(S, D) /\ j = JoinAll(All(q, D))
  OBVIOUS
<1>8. Sound(Core, L, E, T, j)
  <2>1. ASSUME NEW d \in D PROVE Sound(Core, L, E, S[d], q[d])
    <3>1. d \in Core /\ S[d] = known[d]
      BY <1>5
    <3>2. CASE d = c
      BY <1>6, <3>1, <3>2, ArrivalIsSound DEF Books
    <3>3. CASE d # c
      BY <1>6, <3>1, <3>3 DEF Books, KnownInv
    <3> QED BY <3>2, <3>3
  <2>2. Sound(Core, L, E, UNION All(S, D), JoinAll(All(q, D)))
    BY <1>1, <2>1, SoundJoinAll
  <2> QED BY <1>7, <2>2
<1>9. mergedKnown' = [mergedKnown EXCEPT ![k] = T] /\ mergedClock' = [mergedClock EXCEPT ![k] = j]
  <2>1. All(S, D) = {known[d] : d \in D}
    BY <1>5 DEF All
  <2>2. All(q, D) = {IF d = c THEN AtArrival(c) ELSE clock[d] : d \in D}
    BY <1>6 DEF All
  <2>3. mergedKnown' = [mergedKnown EXCEPT ![k] = UNION {known[d] : d \in D}]
    BY <1>3, <1>4 DEF BarrierFires
  <2>4. mergedClock' = [mergedClock EXCEPT ![k] =
                          JoinAll({IF d = c THEN AtArrival(c) ELSE clock[d] : d \in D})]
    BY <1>3, <1>4 DEF BarrierFires
  <2> QED BY <1>7, <2>1, <2>2, <2>3, <2>4
<1>10. T \in SUBSET Sites /\ j \in Clock
  BY <1>8 DEF Sound, Clock
<1>11. MergedInv(L, E)'
  <2>1. /\ mergedKnown' \in [BarrierKey -> SUBSET Sites] /\ mergedClock' \in [BarrierKey -> Clock]
        /\ \A b \in BarrierKey : Sound(Core, L, E, mergedKnown'[b], mergedClock'[b])
    BY <1>8, <1>9, <1>10 DEF Books, MergedInv
  <2> QED BY <1>1, <2>1, SameLaunch DEF MergedInv
<1>12. KnownInv(L, E)'
  <2>1. PICK U, r : U = known[c] \cup T /\ r = Join(AtArrival(c), j)
    OBVIOUS
  <2>2. Sound(Core, L, E, U, r)
    BY <1>8, <2>1, ArrivalIsSound, SoundJoin DEF Books
  <2>3. known' = [known EXCEPT ![c] = U]
    <3>1. known' = [known EXCEPT ![c] = @ \cup mergedKnown'[k]] /\ mergedKnown'[k] = T
      BY <1>3, <1>9 DEF BarrierFires, Books, MergedInv
    <3> QED BY <2>1, <3>1
  <2>4. clock' = [clock EXCEPT ![c] = r]
    <3>1. clock' = [clock EXCEPT ![c] = Join(AtArrival(c), mergedClock'[k])]
          /\ mergedClock'[k] = j
      <4>1. mergedClock'[k] = j
        BY <1>9 DEF Books, MergedInv
      <4>2. mergedClock'[k] = JoinAll({IF d = c THEN AtArrival(c) ELSE clock[d] : d \in D})
        BY <1>3, <1>4 DEF BarrierFires, Books, MergedInv
      <4>3. clock' = [clock EXCEPT ![c] = Join(AtArrival(c),
                        JoinAll({IF d = c THEN AtArrival(c) ELSE clock[d] : d \in D}))]
        BY <1>3, <1>4 DEF BarrierFires
      <4> QED BY <4>1, <4>2, <4>3
    <3> QED BY <2>1, <3>1
  <2> QED BY <1>1, <2>2, <2>3, <2>4, KnownStep DEF Books
<1>13. /\ \A k1 \in FlagKey : \A n \in Kind : sameKind'[k1][n] <= sameKind[k1][n]
       /\ \A k1 \in FlagKey : \A d \in Core : aivCount'[k1][d] <= aivCount[k1][d]
  BY <1>1 DEF TypeOK
<1>14. SetsInv(L, E)' /\ LanesInv(L, E)'
  BY <1>1, <1>2, <1>13, SetsKept, LanesKept DEF Books
<1>15. HandedInv(L, E)'
  BY <1>1, <1>2, HandedKept DEF Books
<1> QED BY <1>11, <1>12, <1>14, <1>15 DEF Books

(* the departure from it, which takes the merge over,                      *)
LEMMA ReleasedKeepsBooks ==
  ASSUME TypeOK, TypeOK', NEW L, NEW E, E \subseteq Sites, ClocksTyped(Core, L), Books(L, E),
         NEW c \in Core, BarrierReleased(c)
  PROVE  Books(L, E)'
<1>1. launch' = launch /\ UNCHANGED flagVars /\ SyncBlockReleased(c) /\ IsLaunch(launch)
  BY DEF BarrierReleased, SyncBlockReleased, Turn, TypeOK
<1>2. PICK k \in BarrierKey : k = BarrierKeyOf(c)
  BY <1>1, BarrierKeyFacts DEF SyncBlockReleased, TypeOK
<1>3. /\ UNCHANGED << pub, lanePub, mergedKnown, lockKnown >>
      /\ UNCHANGED << aicClock, aivClock, sameKindClock, mergedClock, lockClock >>
  BY DEF BarrierReleased
<1>4. PICK S, q : S = mergedKnown[k] /\ q = mergedClock[k]
  OBVIOUS
<1>5. Sound(Core, L, E, S, q)
  BY <1>4 DEF Books, MergedInv
<1>6. /\ known' = [known EXCEPT ![c] = known[c] \cup S]
      /\ clock' = [clock EXCEPT ![c] = Join(clock[c], q)]
  BY <1>2, <1>4 DEF BarrierReleased
<1>7. KnownInv(L, E)'
  BY <1>1, <1>5, <1>6, JoinKeepsKnown DEF Books
<1> QED BY <1>1, <1>3, <1>7, NothingPublished

(* A lock brings what its holders have left with it, and takes along what  *)
(* the one that gives it back knows.                                       *)
LEMMA TakeKeepsBooks ==
  ASSUME TypeOK, TypeOK', NEW L, NEW E, E \subseteq Sites, ClocksTyped(Core, L), Books(L, E),
         NEW c \in Core, TakeLock(c)
  PROVE  Books(L, E)'
<1>1. launch' = launch /\ UNCHANGED flagVars /\ SyncBlockLock(c) /\ IsLaunch(launch)
  BY DEF TakeLock, SyncBlockLock, Turn, TypeOK
<1>2. PICK l \in Lock : l = Op(c).lock
  BY <1>1, LockFacts DEF SyncBlockLock, TypeOK
<1>3. /\ UNCHANGED << pub, lanePub, mergedKnown, lockKnown >>
      /\ UNCHANGED << aicClock, aivClock, sameKindClock, mergedClock, lockClock >>
  BY DEF TakeLock
<1>4. PICK S, q : S = lockKnown[l] /\ q = lockClock[l]
  OBVIOUS
<1>5. Sound(Core, L, E, S, q)
  BY <1>4 DEF Books, HandedInv
<1>6. /\ known' = [known EXCEPT ![c] = known[c] \cup S]
      /\ clock' = [clock EXCEPT ![c] = Ticked(Join(clock[c], q), c)]
  BY <1>2, <1>4 DEF TakeLock
<1>7. KnownInv(L, E)'
  BY <1>1, <1>5, <1>6, JoinKeepsKnown DEF Books
<1> QED BY <1>1, <1>3, <1>7, NothingPublished

(* and giving a lock back, which leaves the core's own with the lock.      *)
LEMMA GiveKeepsBooks ==
  ASSUME TypeOK, TypeOK', NEW L, NEW E, E \subseteq Sites, ClocksTyped(Core, L), Books(L, E),
         NEW c \in Core, GiveLock(c)
  PROVE  Books(L, E)'
<1>1. /\ launch' = launch /\ UNCHANGED << aicGen, sameKind, aivCount >> /\ ReleaseLock(c)
      /\ IsLaunch(launch)
  BY DEF GiveLock, ReleaseLock, Turn, flagVars, TypeOK
<1>2. PICK l \in Lock : l = Op(c).lock
  BY <1>1, LockFacts DEF ReleaseLock, TypeOK
<1>3. /\ UNCHANGED << pub, aicClock, sameKindClock >> /\ UNCHANGED << lanePub, aivClock >>
      /\ UNCHANGED << mergedKnown, mergedClock >>
      /\ UNCHANGED known /\ clock' = [clock EXCEPT ![c] = Ticked(clock[c], c)]
  BY DEF GiveLock
<1>4. KnownInv(L, E)'
  BY <1>1, <1>3, TickKeepsKnown DEF Books
<1>5. PICK q : q = Ticked(clock[c], c)
  OBVIOUS
<1>6. PICK S, r : S = lockKnown[l] \cup known[c] /\ r = Join(lockClock[l], q)
  OBVIOUS
<1>7. Sound(Core, L, E, S, r)
  <2>1. Sound(Core, L, E, known[c], q)
    BY <1>5, SoundTick DEF Books, KnownInv
  <2>2. Sound(Core, L, E, lockKnown[l], lockClock[l])
    BY DEF Books, HandedInv
  <2> QED BY <1>6, <2>1, <2>2, SoundJoin
<1>8. lockKnown' = [lockKnown EXCEPT ![l] = S] /\ lockClock' = [lockClock EXCEPT ![l] = r]
  <2>1. lockKnown' = [lockKnown EXCEPT ![l] = @ \cup known[c]]
    BY <1>2 DEF GiveLock
  <2>2. clock'[c] = q
    BY <1>3, <1>5 DEF Books, KnownInv
  <2>3. lockClock' = [lockClock EXCEPT ![l] = Join(@, clock'[c])]
    BY <1>2 DEF GiveLock
  <2> QED BY <1>6, <2>1, <2>2, <2>3
<1>9. HandedInv(L, E)'
  <2>1. S \in SUBSET Sites /\ r \in Clock
    BY <1>7 DEF Sound, Clock
  <2>2. /\ lockKnown' \in [Lock -> SUBSET Sites] /\ lockClock' \in [Lock -> Clock]
        /\ \A m \in Lock : Sound(Core, L, E, lockKnown'[m], lockClock'[m])
    BY <1>7, <1>8, <2>1 DEF Books, HandedInv
  <2> QED BY <1>1, <2>2, SameLaunch DEF HandedInv
<1>10. /\ \A k1 \in FlagKey : \A n \in Kind : sameKind'[k1][n] <= sameKind[k1][n]
       /\ \A k1 \in FlagKey : \A d \in Core : aivCount'[k1][d] <= aivCount[k1][d]
  BY <1>1 DEF TypeOK
<1>11. SetsInv(L, E)' /\ LanesInv(L, E)'
  BY <1>1, <1>3, <1>10, SetsKept, LanesKept DEF Books
<1>12. MergedInv(L, E)'
  BY <1>1, <1>3, MergedKept DEF Books
<1> QED BY <1>4, <1>9, <1>11, <1>12 DEF Books

(* The return of a kernel, and what moves no clock, leaves the books.      *)
LEMMA QuietKeepsBooks ==
  ASSUME TypeOK, TypeOK', NEW L, NEW E, E \subseteq Sites, ClocksTyped(Core, L), Books(L, E),
         (\E c \in Core : DrainAtReturn(c)) \/ Other \/ UNCHANGED raceVars
  PROVE  Books(L, E)'
<1>1. launch' = launch /\ UNCHANGED flagVars
  BY DEF DrainAtReturn, Return, Other, raceVars, vars, SyncBlockWaitParks, SyncBlockLockParks,
         WaitFlagParks, Fail, Finish, Retry, Deadlock, Turn
<1>2. UNCHANGED << clocks, history >>
  BY DEF DrainAtReturn, Other, raceVars
<1>3. /\ UNCHANGED << pub, lanePub, mergedKnown, lockKnown >>
      /\ UNCHANGED << aicClock, aivClock, sameKindClock, mergedClock, lockClock >>
      /\ UNCHANGED << known, clock >>
  BY <1>2 DEF clocks, history
<1>4. KnownInv(L, E)'
  BY <1>1, <1>3, KnownKept DEF Books
<1> QED BY <1>1, <1>3, <1>4, NothingPublished

-----------------------------------------------------------------------------
(* A memory made of a map and a set of reports has them as its fields.     *)
LEMMA MemoryFields ==
  ASSUME NEW h, NEW r
  PROVE  \E n : n = [hist |-> h, races |-> r] /\ n.hist = h /\ n.races = r
<1>1. [hist |-> h, races |-> r].hist = h /\ [hist |-> h, races |-> r].races = r
  OBVIOUS
<1> QED BY <1>1, Zenon

(* What a step commits keeps the memory good, given a log in order.        *)
LEMMA CommitsKeepGood ==
  ASSUME NEW L, Ordered(L), MemoryInv(L), NEW s \in Seq(EffectsOf(L)), CommitAll(s)
  PROVE  Good(L, [hist |-> hist', races |-> races'])
<1>1. PICK m : m = Drained(s)
  OBVIOUS
<1>2. Good(L, m)
  BY <1>1, DrainKeepsGood DEF MemoryInv
<1>3. PICK n : n = [hist |-> hist', races |-> races'] /\ n.hist = hist' /\ n.races = races'
  BY MemoryFields, Zenon
<1>4. hist' = m.hist /\ races' = m.races
  BY <1>1 DEF CommitAll
<1>5. Good(L, n)
  BY <1>2, <1>3, <1>4 DEF Good
<1> QED BY <1>3, <1>5

(* A good memory and queues of logged effects are what MemoryInv asks.     *)
LEMMA MemoryAfter ==
  ASSUME launch' = launch, NEW L, Good(L, [hist |-> hist', races |-> races']),
         queue' \in [Core -> [1 .. NumPipes -> Seq(EffectsOf(L))]]
  PROVE  MemoryInv(L)'
<1>1. PICK n : n = [hist |-> hist', races |-> races'] /\ Good(L, n)
  OBVIOUS
<1>2. Core' = Core /\ Effect' = Effect /\ Entry' = Entry /\ Report' = Report
  BY SameLaunch
<1>3. EffectsOf(L)' = EffectsOf(L)
  BY <1>2 DEF EffectsOf
<1>4. Good(L, n)'
  BY <1>1, <1>2 DEF Good
<1>5. Good(L, [hist |-> hist, races |-> races])'
  BY <1>1, <1>4
<1> QED BY <1>2, <1>3, <1>5 DEF MemoryInv

(* Committing all a core has pending keeps the memory good,                *)
LEMMA FlushAllKeepsMemory ==
  ASSUME launch' = launch, NEW L, Ordered(L), MemoryInv(L), NEW c \in Core, FlushAllPipes(c)
  PROVE  MemoryInv(L)'
<1>1. queue[c] \in [1 .. NumPipes -> Seq(EffectsOf(L))]
  BY DEF MemoryInv
<1>2. PICK s \in Seq(EffectsOf(L)) : s = Pending(c)
  BY <1>1, PendingFacts
<1>3. Good(L, [hist |-> hist', races |-> races'])
  BY <1>2, CommitsKeepGood DEF FlushAllPipes
<1>4. queue' \in [Core -> [1 .. NumPipes -> Seq(EffectsOf(L))]]
  <2>1. PICK T : T = EffectsOf(L)
    OBVIOUS
  <2>2. queue \in [Core -> [1 .. NumPipes -> Seq(T)]]
    BY <2>1 DEF MemoryInv
  <2>3. [p \in 1 .. NumPipes |-> << >>] \in [1 .. NumPipes -> Seq(T)]
    OBVIOUS
  <2>4. queue' = [queue EXCEPT ![c] = [p \in 1 .. NumPipes |-> << >>]]
    BY <2>2 DEF FlushAllPipes
  <2> QED BY <2>1, <2>2, <2>3, <2>4
<1> QED BY <1>3, <1>4, MemoryAfter

(* and so does committing the queue of one pipe,                           *)
LEMMA FlushPipeKeepsMemory ==
  ASSUME launch' = launch, NEW L, Ordered(L), MemoryInv(L), NEW c \in Core,
         NEW p \in 1 .. NumPipes, FlushPipe(c, p)
  PROVE  MemoryInv(L)'
<1>1. PICK s \in Seq(EffectsOf(L)) : s = queue[c][p]
  BY DEF MemoryInv
<1>2. Good(L, [hist |-> hist', races |-> races'])
  BY <1>1, CommitsKeepGood DEF FlushPipe
<1>3. queue' \in [Core -> [1 .. NumPipes -> Seq(EffectsOf(L))]]
  <2>1. PICK T : T = EffectsOf(L)
    OBVIOUS
  <2>2. queue \in [Core -> [1 .. NumPipes -> Seq(T)]] /\ << >> \in Seq(T)
    BY <2>1 DEF MemoryInv
  <2>3. queue' = [queue EXCEPT ![c][p] = << >>]
    BY DEF FlushPipe
  <2> QED BY <2>1, <2>2, <2>3
<1> QED BY <1>2, <1>3, MemoryAfter

(* or leaving all as it is.                                                *)
LEMMA SameMemory ==
  ASSUME launch' = launch, NEW L, MemoryInv(L), UNCHANGED memory
  PROVE  MemoryInv(L)'
<1>1. hist' = hist /\ races' = races /\ queue' = queue
  BY DEF memory
<1>2. Good(L, [hist |-> hist', races |-> races'])
  BY <1>1 DEF MemoryInv
<1> QED BY <1>1, <1>2, MemoryAfter DEF MemoryInv

(* Every action but an issue flushes or leaves the memory alone.           *)
LEMMA OthersKeepMemory ==
  ASSUME TypeOK, launch \in Launches, NEW L, Ordered(L), MemoryInv(L),
         \/ \E c \in Core : \/ Publish(c) \/ Acquire(c) \/ BarrierParks(c) \/ BarrierFires(c)
                            \/ BarrierReleased(c) \/ TakeLock(c) \/ GiveLock(c)
                            \/ DrainAtReturn(c)
         \/ Other \/ UNCHANGED raceVars
  PROVE  MemoryInv(L)'
<1>1. ASSUME NEW c \in Core, Publish(c) PROVE MemoryInv(L)'
  <2>1. launch' = launch /\ SyncBlockSet(c)
    BY <1>1 DEF Publish, SyncBlockSet, Turn
  <2>2. FlagKeyOf(c) \in FlagKey
    BY <2>1, FlagKeyFacts DEF TypeOK, SyncBlockSet
  <2>3. launch.tpipe[FlagKeyOf(c).flag] \in 1 .. NumPipes
    BY <2>2, AccessAssumption DEF FlagKey
  <2> QED BY <1>1, <2>1, <2>3, FlushPipeKeepsMemory DEF Publish
<1>2. ASSUME NEW c \in Core, Acquire(c) \/ BarrierReleased(c) PROVE MemoryInv(L)'
  <2>1. launch' = launch /\ UNCHANGED memory
    BY <1>2 DEF Acquire, BarrierReleased, SyncBlockWait, SyncBlockReleased, Turn, memory
  <2> QED BY <2>1, SameMemory
<1>3. ASSUME NEW c \in Core, BarrierParks(c) \/ BarrierFires(c) PROVE MemoryInv(L)'
  <2>1. launch' = launch /\ (FlushAllPipes(c) \/ UNCHANGED memory)
    BY <1>3 DEF BarrierParks, BarrierFires, SyncBlockParks, SyncBlockFires, Turn, DrainOnArrival
  <2> QED BY <2>1, SameMemory, FlushAllKeepsMemory
<1>4. ASSUME NEW c \in Core, TakeLock(c) \/ GiveLock(c) \/ DrainAtReturn(c) PROVE MemoryInv(L)'
  <2>1. launch' = launch /\ FlushAllPipes(c)
    BY <1>4 DEF TakeLock, GiveLock, DrainAtReturn, SyncBlockLock, ReleaseLock, Return, Turn
  <2> QED BY <2>1, FlushAllKeepsMemory
<1>5. CASE Other \/ UNCHANGED raceVars
  <2>1. launch' = launch
    BY <1>5 DEF Other, raceVars, vars, SyncBlockWaitParks, SyncBlockLockParks,
           WaitFlagParks, Fail, Finish, Retry, Deadlock, Turn
  <2>2. UNCHANGED memory
    BY <1>5 DEF Other, raceVars
  <2> QED BY <2>1, <2>2, SameMemory
<1> QED BY <1>1, <1>2, <1>3, <1>4, <1>5

-----------------------------------------------------------------------------
(* A log whose clocks agree with what was known is in order.               *)
LEMMA LogFacts ==
  ASSUME NEW L, NEW E, LogInv(L, E)
  PROVE  ClocksTyped(Core, L) /\ Ordered(L)
<1>1. \A x \in L : x.record \in AccessRecord
  BY DEF LogInv
<1>2. \A x \in L : x.record.clock \in [Core -> Nat]
  BY <1>1 DEF AccessRecord
<1>3. ASSUME NEW x \in L, NEW y \in L, Before(x, y)
      PROVE  HappensBefore(x.record.clock, y.record.clock)
  <2>1. Sound(Core, L, E, y.past, y.record.clock) /\ Id(x) \in y.past
    BY <1>3 DEF LogInv, Before
  <2>2. Leq(x.record.clock, y.record.clock)
    BY <2>1 DEF Sound, Leq
  <2> QED BY <1>2, <2>2, HappensBeforeIsLeq DEF Clock
<1> QED BY <1>2, <1>3 DEF ClocksTyped, Ordered

(* The positions executed only grow, and with the log as it was that keeps *)
(* it what it was.                                                         *)
LEMMA LogStays ==
  ASSUME NEW L, NEW E, LogInv(L, E), NEW E2, E \subseteq E2
  PROVE  LogInv(L, E2) /\ Grows(L, E, L, E2)
<1>1. Grows(L, E, L, E2)
  BY DEF Grows
<1>2. \A x \in L : Id(x) \in E2 /\ Sound(Core, L, E2, x.past, x.record.clock)
  BY <1>1, SoundGrows DEF LogInv
<1> QED BY <1>1, <1>2 DEF LogInv

(* What has been executed stays executed.                                  *)
LEMMA ExecutedStep ==
  ASSUME TypeOK, launch' = launch, (\E c \in Core : Advance(c)) \/ UNCHANGED pc
  PROVE  Executed \subseteq Executed'
<1>1. ASSUME NEW c \in Core, Advance(c) PROVE Executed \subseteq Executed'
  BY <1>1, AdvanceExecutes, Zenon
<1>2. CASE UNCHANGED pc
  <2>1. Core' = Core
    BY DEF Core
  <2> QED BY <1>2, <2>1 DEF Executed
<1> QED BY <1>1, <1>2

(* The access of an issue: new, logged, and in order with what the core    *)
(* knew before it.                                                         *)
LEMMA IssueLogs ==
  ASSUME TypeOK, launch \in Launches, KnownInv(log, Executed), LogInv(log, Executed),
         NEW c \in Core, Issue(c), NEW L, L = log', NEW E, E = Executed',
         NEW a, a = launch.access[c][pc[c]],
         NEW r, r = [core |-> c, clock |-> Stamp(c), pos |-> pc[c], class |-> a.class]
  PROVE  /\ Grows(log, Executed, L, E) /\ LogInv(L, E)
         /\ << c, pc[c] >> \in E
         /\ \A x \in L : Id(x) = << c, pc[c] >> => x.record.clock = Ticked(clock[c], c)
         /\ a.pipe = Scalar \/ a.pipe \in 1 .. NumPipes
         /\ [byte |-> a.byte, isWrite |-> a.isWrite, record |-> r] \in EffectsOf(L)
<1>1. /\ launch' = launch /\ Advance(c) /\ At(c, "compute") /\ pc[c] \in Nat \ {0}
      /\ IsLaunch(launch)
  BY Zenon DEF Issue, Compute, Turn, TypeOK
<1>2. E = Executed \cup {<< c, pc[c] >>} /\ << c, pc[c] >> \notin Executed
  BY <1>1, AdvanceExecutes
<1>3. a \in Access
  <2>1. launch.program[c] \in Seq(Instr)
    BY <1>1 DEF IsLaunch, Core
  <2>2. pc[c] \in 1 .. Len(launch.program[c]) /\ launch.program[c][pc[c]].op = "compute"
    BY <1>1, <2>1 DEF At, AtEnd, Op
  <2> QED BY <2>2, AccessAssumption DEF Core
<1>4. /\ a.byte \in Byte /\ a.isWrite \in BOOLEAN /\ a.class \in {"plain", "atomic", "raw"}
      /\ a.pipe = Scalar \/ a.pipe \in 1 .. NumPipes
  BY <1>3 DEF Access
<1>5. PICK q : q = Ticked(clock[c], c) /\ q \in [Core -> Nat]
  BY TickFacts DEF KnownInv, Clock
<1>6. /\ r \in AccessRecord /\ r.core = c /\ r.clock = q /\ r.pos = pc[c] /\ r.class = a.class
  BY <1>1, <1>4, <1>5 DEF AccessRecord, Stamp
<1>7. PICK z : z = [access |-> a, record |-> r, past |-> known[c]]
  BY Zenon
<1>8. /\ L = log \cup {z} /\ z.access = a /\ z.record = r /\ z.past = known[c]
      /\ Id(z) = << c, pc[c] >>
  BY <1>6, <1>7, Zenon DEF Issue, Id
<1>9. Grows(log, Executed, L, E)
  BY <1>2, <1>8 DEF Grows
<1>10. \A x \in log : Id(x) \in Executed
  BY DEF LogInv
<1>11. \A x \in L : Id(x) = << c, pc[c] >> => x.record.clock = q
  BY <1>2, <1>6, <1>8, <1>10
<1>12. LogInv(L, E)
  <2>1. z \in [access : Access, record : AccessRecord, past : SUBSET Sites]
    <3>1. known[c] \in SUBSET Sites
      BY DEF KnownInv
    <3> QED BY <1>3, <1>6, <1>7, <3>1
  <2>2. ClocksTyped(Core, log)
    BY LogFacts
  <2>3. Sound(Core, log, Executed, known[c], q)
    BY <1>5, <2>2, SoundTick DEF KnownInv
  <2>4. Sound(Core, L, E, z.past, z.record.clock)
    BY <1>6, <1>8, <1>9, <2>3, SoundGrows
  <2>5. ASSUME NEW x \in log PROVE Id(x) \in E /\ Sound(Core, L, E, x.past, x.record.clock)
    <3>1. Id(x) \in Executed /\ Sound(Core, log, Executed, x.past, x.record.clock)
      BY DEF LogInv
    <3> QED BY <1>2, <1>9, <3>1, SoundGrows
  <2>6. L \subseteq [access : Access, record : AccessRecord, past : SUBSET Sites]
    BY <1>8, <2>1 DEF LogInv
  <2> QED BY <1>2, <1>8, <2>4, <2>5, <2>6 DEF LogInv
<1>13. PICK e : e = [byte |-> a.byte, isWrite |-> a.isWrite, record |-> r]
  OBVIOUS
<1>14. e \in Effect /\ Logged(L, e.byte, e.isWrite, e.record)
  <2>1. e \in Effect /\ e.byte = a.byte /\ e.isWrite = a.isWrite /\ e.record = r
    BY <1>4, <1>6, <1>13 DEF Effect
  <2>2. z \in L
    BY <1>8
  <2> QED BY <1>6, <1>8, <2>1, <2>2 DEF Logged
<1> QED BY <1>2, <1>4, <1>5, <1>9, <1>11, <1>12, <1>13, <1>14, Zenon DEF EffectsOf

(* An access is queued on its pipe, or committed at once when it is in     *)
(* order; either way the memory stays good.                                *)
LEMMA IssueKeepsMemory ==
  ASSUME launch' = launch, NEW L, Ordered(L), MemoryInv(L), NEW c \in Core, Issue(c),
         NEW a, a = launch.access[c][pc[c]], a.pipe = Scalar \/ a.pipe \in 1 .. NumPipes,
         NEW r, r = [core |-> c, clock |-> Stamp(c), pos |-> pc[c], class |-> a.class],
         [byte |-> a.byte, isWrite |-> a.isWrite, record |-> r] \in EffectsOf(L)
  PROVE  MemoryInv(L)'
<1>1. PICK e \in EffectsOf(L) : e = [byte |-> a.byte, isWrite |-> a.isWrite, record |-> r]
  OBVIOUS
<1>2. CASE launch.inOrder \/ a.pipe = Scalar
  <2>1. CommitAll(<< e >>) /\ UNCHANGED queue
    BY <1>1, <1>2, Zenon DEF Issue
  <2>2. PICK s \in Seq(EffectsOf(L)) : s = << e >>
    <3>1. PICK T : T = EffectsOf(L) /\ e \in T
      BY <1>1
    <3>2. << e >> \in Seq(T)
      BY <3>1
    <3> QED BY <3>1, <3>2
  <2>3. Good(L, [hist |-> hist', races |-> races'])
    BY <2>1, <2>2, CommitsKeepGood
  <2> QED BY <2>1, <2>3, MemoryAfter DEF MemoryInv
<1>3. CASE ~ (launch.inOrder \/ a.pipe = Scalar)
  <2>1. queue' = [queue EXCEPT ![c][a.pipe] = Append(@, e)] /\ UNCHANGED << hist, races >>
    BY <1>1, <1>3, Zenon DEF Issue
  <2>2. PICK p \in 1 .. NumPipes : p = a.pipe
    BY <1>3
  <2>3. queue' \in [Core -> [1 .. NumPipes -> Seq(EffectsOf(L))]]
    <3>1. PICK T : T = EffectsOf(L) /\ e \in T /\ queue \in [Core -> [1 .. NumPipes -> Seq(T)]]
      BY <1>1 DEF MemoryInv
    <3>2. PICK s \in Seq(T) : s = queue[c][p]
      BY <3>1
    <3>3. Append(s, e) \in Seq(T)
      BY <3>1, <3>2, AppendFacts
    <3>4. PICK t \in Seq(T) : t = Append(s, e)
      BY <3>3, Zenon
    <3>5. queue' = [queue EXCEPT ![c][p] = t]
      BY <2>1, <2>2, <3>2, <3>4, Zenon
    <3> QED BY <2>2, <3>1, <3>4, <3>5
  <2>4. Good(L, [hist |-> hist', races |-> races'])
    BY <2>1, Zenon DEF MemoryInv
  <2> QED BY <2>3, <2>4, MemoryAfter
<1> QED BY <1>2, <1>3

-----------------------------------------------------------------------------
(* A step of the detector is a step of the launch.                         *)
LEMMA RaceStepIsStep ==
  ASSUME [RaceNext]_raceVars
  PROVE  [Next]_vars
<1>1. ASSUME NEW c \in Core,
             \/ Issue(c) \/ Publish(c) \/ Acquire(c)
             \/ BarrierParks(c) \/ BarrierFires(c) \/ BarrierReleased(c)
             \/ TakeLock(c) \/ GiveLock(c) \/ DrainAtReturn(c)
      PROVE  Next
  <2>1. Step(c)
    BY <1>1, Zenon DEF Step, Issue, Publish, Acquire, BarrierParks, BarrierFires, BarrierReleased,
           TakeLock, GiveLock, DrainAtReturn
  <2> QED BY <2>1 DEF Next
<1>2. CASE Other
  BY <1>2 DEF Other, Next, Step
<1>3. CASE UNCHANGED raceVars
  BY <1>3 DEF raceVars
<1> QED BY <1>1, <1>2, <1>3 DEF RaceNext

(* And it keeps the launch, and the positions executed.                    *)
LEMMA RaceStepGrows ==
  ASSUME TypeOK, [RaceNext]_raceVars
  PROVE  TypeOK' /\ launch' = launch /\ Executed \subseteq Executed'
<1>1. [Next]_vars
  BY RaceStepIsStep
<1>2. TypeOK'
  BY <1>1, NextKeepsTypes
<1>3. launch' = launch /\ ((\E c \in Core : Advance(c)) \/ UNCHANGED pc)
  <2>1. ASSUME NEW c \in Core, Step(c) PROVE launch' = launch /\ (Advance(c) \/ UNCHANGED pc)
    BY <2>1 DEF Step, SyncBlockSet, SyncBlockWait, SyncBlockWaitParks, SyncBlockReleased,
           SyncBlockParks, SyncBlockFires, SyncBlockLock, SyncBlockLockParks, ReleaseLock,
           Compute, WaitFlagParks, Fail, Return, Turn, Park
  <2>2. CASE Finish \/ Retry \/ Deadlock \/ UNCHANGED vars
    BY <2>2 DEF Finish, Retry, Deadlock, vars
  <2> QED BY <1>1, <2>1, <2>2 DEF Next
<1> QED BY <1>2, <1>3, ExecutedStep

(* What has been shown for the log and the positions after the step is     *)
(* what the invariant says of the state after it.                          *)
LEMMA AfterStep ==
  ASSUME TypeOK', launch' = launch, launch \in Launches, NEW L, L = log', NEW E, E = Executed',
         Books(L, E)', LogInv(L, E), MemoryInv(L)'
  PROVE  RaceInv'
<1>1. Core' = Core /\ Sites' = Sites /\ AccessRecord' = AccessRecord
  BY SameLaunch
<1>2. LogInv(L, E)'
  BY <1>1 DEF LogInv
<1>3. Books(log, Executed)' /\ LogInv(log, Executed)' /\ MemoryInv(log)'
  BY <1>2 DEF Books, KnownInv, SetsInv, LanesInv, MergedInv, HandedInv, LogInv, MemoryInv
<1> QED BY <1>3 DEF RaceInv

(* The invariant is inductive.                                             *)
LEMMA NextRace == RaceInv /\ [RaceNext]_raceVars => RaceInv'
<1> SUFFICES ASSUME RaceInv, [RaceNext]_raceVars PROVE RaceInv'
  OBVIOUS
<1>1. TypeOK /\ launch \in Launches /\ Books(log, Executed) /\ LogInv(log, Executed) /\ MemoryInv(log)
  BY DEF RaceInv
<1>2. TypeOK' /\ launch' = launch /\ Executed \subseteq Executed'
  BY <1>1, RaceStepGrows
<1>3. PICK L : L = log'
  OBVIOUS
<1>4. PICK E : E = Executed'
  OBVIOUS
<1>5. E \subseteq Sites
  <2>1. Sites' = Sites
    BY <1>2, SameLaunch
  <2>2. Executed' \subseteq Sites'
    <3>1. \A c \in Core' : \A i \in 1 .. (pc'[c] - 1) : i \in Nat \ {0}
      BY <1>2 DEF TypeOK
    <3> QED BY <3>1 DEF Executed, Sites
  <2> QED BY <1>4, <2>1, <2>2
<1>6. ASSUME NEW c \in Core, Issue(c) PROVE RaceInv'
  <2>1. PICK a : a = launch.access[c][pc[c]]
    OBVIOUS
  <2>2. PICK r : r = [core |-> c, clock |-> Stamp(c), pos |-> pc[c], class |-> a.class]
    OBVIOUS
  <2>3. /\ Grows(log, Executed, L, E) /\ LogInv(L, E)
        /\ << c, pc[c] >> \in E
        /\ \A x \in L : Id(x) = << c, pc[c] >> => x.record.clock = Ticked(clock[c], c)
        /\ a.pipe = Scalar \/ a.pipe \in 1 .. NumPipes
        /\ [byte |-> a.byte, isWrite |-> a.isWrite, record |-> r] \in EffectsOf(L)
    BY <1>1, <1>3, <1>4, <1>6, <2>1, <2>2, IssueLogs DEF Books
  <2>4. Books(L, E)
    BY <1>1, <2>3, BooksGrow
  <2>5. ClocksTyped(Core, L) /\ Ordered(L)
    BY <2>3, LogFacts
  <2>6. Books(L, E)'
    BY <1>1, <1>2, <1>5, <1>6, <2>3, <2>4, <2>5, IssueKeepsBooks
  <2>7. MemoryInv(L)
    <3>1. log \subseteq L
      BY <2>3 DEF Grows
    <3>2. Good(L, [hist |-> hist, races |-> races]) /\ EffectsOf(log) \subseteq EffectsOf(L)
      BY <1>1, <3>1, GoodGrows DEF MemoryInv
    <3>3. queue \in [Core -> [1 .. NumPipes -> Seq(EffectsOf(L))]]
      <4>1. PICK S, T : S = EffectsOf(log) /\ T = EffectsOf(L) /\ S \subseteq T
        BY <3>2
      <4>2. queue \in [Core -> [1 .. NumPipes -> Seq(S)]]
        BY <1>1, <4>1 DEF MemoryInv
      <4>3. \A s \in Seq(S) : s \in Seq(T)
        BY <4>1
      <4>4. queue \in [Core -> [1 .. NumPipes -> Seq(T)]]
        BY <4>2, <4>3
      <4> QED BY <4>1, <4>4
    <3> QED BY <3>2, <3>3 DEF MemoryInv
  <2>8. MemoryInv(L)'
    BY <1>2, <1>6, <2>1, <2>2, <2>3, <2>5, <2>7, IssueKeepsMemory
  <2> QED BY <1>1, <1>2, <1>3, <1>4, <2>3, <2>6, <2>8, AfterStep
<1>7. ASSUME \/ \E c \in Core : \/ Publish(c) \/ Acquire(c) \/ BarrierParks(c) \/ BarrierFires(c)
                                \/ BarrierReleased(c) \/ TakeLock(c) \/ GiveLock(c)
                                \/ DrainAtReturn(c)
             \/ Other \/ UNCHANGED raceVars
      PROVE  RaceInv'
  <2>1. L = log
    BY <1>3, <1>7 DEF Publish, Acquire, BarrierParks, BarrierFires, BarrierReleased,
           TakeLock, GiveLock, DrainAtReturn, Other, raceVars, history
  <2>2. LogInv(L, E) /\ Grows(log, Executed, L, E)
    BY <1>1, <1>2, <1>4, <2>1, LogStays
  <2>3. ClocksTyped(Core, L) /\ Ordered(L)
    BY <2>2, LogFacts
  <2>4. Books(L, E)
    BY <1>1, <2>2, BooksGrow
  <2>5. MemoryInv(L)'
    <3>1. MemoryInv(L)
      BY <1>1, <2>1
    <3> QED BY <1>1, <1>7, <2>3, <3>1, OthersKeepMemory
  <2>6. Books(L, E)'
    BY <1>1, <1>2, <1>5, <1>7, <2>3, <2>4, PublishKeepsBooks, AcquireKeepsBooks,
       ParksKeepsBooks, FiresKeepsBooks, ReleasedKeepsBooks, TakeKeepsBooks, GiveKeepsBooks,
       QuietKeepsBooks
  <2> QED BY <1>1, <1>2, <1>3, <1>4, <2>2, <2>5, <2>6, AfterStep
<1> QED BY <1>6, <1>7 DEF RaceNext

(* At the start nothing is known, nothing is logged and no clock has       *)
(* moved.                                                                  *)
LEMMA InitRace == RaceInit => RaceInv
<1> SUFFICES ASSUME RaceInit PROVE RaceInv
  OBVIOUS
<1>1. TypeOK /\ launch \in Launches
  BY InitTypes DEF RaceInit, Init
<1>2. Zero \in Clock
  BY DEF Zero, Clock
<1>3. PICK z \in Clock : z = Zero
  BY <1>2
<1>4. Sound(Core, log, Executed, {}, z)
  BY <1>3 DEF Sound, Clock
<1>5. KnownInv(log, Executed)
  BY <1>3, <1>4 DEF KnownInv, RaceInit
<1>6. SetsInv(log, Executed)
  <2>1. /\ pub = [k \in FlagKey |-> [n \in Kind |-> << >>]]
        /\ aicClock = [k \in FlagKey |-> z] /\ sameKindClock = [k \in FlagKey |-> [n \in Kind |-> z]]
        /\ aicGen = [k \in FlagKey |-> 0] /\ sameKind = [k \in FlagKey |-> [n \in Kind |-> 0]]
    BY <1>3 DEF RaceInit, Init
  <2>2. << >> \in Seq(SUBSET Sites) /\ Len(<< >>) = 0 /\ 1 .. 0 = {}
    OBVIOUS
  <2> QED BY <2>1, <2>2 DEF SetsInv, Kind
<1>7. LanesInv(log, Executed)
  <2>1. /\ lanePub = [k \in FlagKey |-> [n \in Core |-> << >>]]
        /\ aivClock = [k \in FlagKey |-> [n \in Core |-> z]]
        /\ aivCount = [k \in FlagKey |-> [n \in Core |-> 0]]
    BY <1>3 DEF RaceInit, Init
  <2>2. << >> \in Seq(SUBSET Sites) /\ Len(<< >>) = 0 /\ 1 .. 0 = {}
    OBVIOUS
  <2> QED BY <2>1, <2>2 DEF LanesInv
<1>8. MergedInv(log, Executed) /\ HandedInv(log, Executed)
  BY <1>3, <1>4 DEF MergedInv, HandedInv, RaceInit
<1>9. LogInv(log, Executed)
  BY DEF LogInv, RaceInit
<1>10. MemoryInv(log)
  <2>1. PICK T : T = EffectsOf(log)
    OBVIOUS
  <2>2. queue \in [Core -> [1 .. NumPipes -> Seq(T)]]
    BY DEF RaceInit
  <2>3. Fresh \in Entry /\ DOMAIN Fresh.reads = {} /\ Fresh.lastWrite = None
    <3>1. << >> \in Seq(AccessRecord) /\ DOMAIN << >> = {}
      OBVIOUS
    <3> QED BY <3>1 DEF Fresh, Entry
  <2>4. \A b \in Byte : Remembers(log, b, Fresh)
    BY <2>3 DEF Remembers
  <2>5. Good(log, [hist |-> hist, races |-> races])
    BY <2>3, <2>4 DEF Good, RaceInit
  <2> QED BY <2>1, <2>2, <2>5 DEF MemoryInv
<1> QED BY <1>1, <1>5, <1>6, <1>7, <1>8, <1>9, <1>10 DEF RaceInv, Books

(* It holds of every state a launch reaches.                               *)
LEMMA RaceInductive == RaceSpec => []RaceInv
<1>1. RaceInit => RaceInv
  BY InitRace
<1>2. RaceInv /\ [RaceNext]_raceVars => RaceInv'
  BY NextRace
<1> QED BY <1>1, <1>2, PTL DEF RaceSpec

(* The clocks keep a component for every core and the histories keep the   *)
(* shape the code gives them.                                              *)
THEOREM RaceTypesHold == RaceSpec => []RaceTypeOK
<1>1. RaceInv => RaceTypeOK
  <2> SUFFICES ASSUME RaceInv PROVE RaceTypeOK
    OBVIOUS
  <2>1. queue \in [Core -> [1 .. NumPipes -> Seq(Effect)]]
    <3>1. PICK T : T = EffectsOf(log) /\ T \subseteq Effect
      BY DEF EffectsOf
    <3>2. queue \in [Core -> [1 .. NumPipes -> Seq(T)]]
      BY <3>1 DEF RaceInv, MemoryInv
    <3>3. PICK S : S = Effect /\ T \subseteq S
      BY <3>1
    <3>4. \A s \in Seq(T) : s \in Seq(S)
      BY <3>3
    <3>5. queue \in [Core -> [1 .. NumPipes -> Seq(S)]]
      BY <3>2, <3>4
    <3> QED BY <3>3, <3>5
  <2>2. hist \in [Byte -> Entry] /\ races \subseteq [byte : Byte, first : AccessRecord, second : AccessRecord]
    <3>1. PICK m : m = [hist |-> hist, races |-> races] /\ m.hist = hist /\ m.races = races
      BY MemoryFields, Zenon
    <3>2. Good(log, m)
      BY <3>1 DEF RaceInv, MemoryInv
    <3> QED BY <3>1, <3>2 DEF Good, Report
  <2>3. log \subseteq [access : Access, record : AccessRecord, past : SUBSET Sites]
    BY DEF RaceInv, LogInv
  <2>4. /\ known \in [Core -> SUBSET Sites] /\ clock \in [Core -> Clock]
        /\ pub \in [FlagKey -> [Kind -> Seq(SUBSET Sites)]]
        /\ aicClock \in [FlagKey -> Clock] /\ sameKindClock \in [FlagKey -> [Kind -> Clock]]
        /\ lanePub \in [FlagKey -> [Core -> Seq(SUBSET Sites)]]
        /\ aivClock \in [FlagKey -> [Core -> Clock]]
        /\ mergedKnown \in [BarrierKey -> SUBSET Sites] /\ mergedClock \in [BarrierKey -> Clock]
        /\ lockKnown \in [Lock -> SUBSET Sites] /\ lockClock \in [Lock -> Clock]
    BY DEF RaceInv, Books, KnownInv, SetsInv, LanesInv, MergedInv, HandedInv
  <2> QED BY <2>1, <2>2, <2>3, <2>4 DEF RaceTypeOK
<1> QED BY <1>1, RaceInductive, PTL

(* Whatever the launch, no report is false: filterAndReportRace names two  *)
(* accesses that clash and that neither program order nor any of the       *)
(* synchronisation operations orders.                                      *)
THEOREM ReportsAreGenuine == RaceSpec => []ReportsAreRaces
<1>1. RaceInv => ReportsAreRaces
  <2> SUFFICES ASSUME RaceInv PROVE ReportsAreRaces
    OBVIOUS
  <2>1. PICK m : m = [hist |-> hist, races |-> races] /\ m.hist = hist /\ m.races = races
    BY MemoryFields, Zenon
  <2>2. Good(log, m)
    BY <2>1 DEF RaceInv, MemoryInv
  <2>3. \A r \in races : Genuine(log, r)
    BY <2>1, <2>2 DEF Good
  <2> QED BY <2>3 DEF ReportsAreRaces, Genuine
<1> QED BY <1>1, RaceInductive, PTL

-----------------------------------------------------------------------------
(* The other way round: what the clocks order, the program orders.  A      *)
(* clock is exact for what is known at a point if it is past an access     *)
(* only if the access is known there, and no component of it is ahead of   *)
(* the core whose component it is.  L is the log, h the cores' own         *)
(* components.                                                             *)
Own(x) == x.record.clock[x.record.core]

Exact(C, L, S, q, h) ==
  /\ \A x \in L : Own(x) <= q[x.record.core] => Id(x) \in S
  /\ \A d \in C : q[d] <= h[d]

(* Every access has ticked the clock that stamps it.                       *)
Stamped(C, L) ==
  \A x \in L : x.record.core \in C /\ Own(x) \in Nat \ {0} /\ x.record.clock \in [C -> Nat]

(* All accesses of core c are in S.                                        *)
Mine(L, c, S) == \A x \in L : x.record.core = c => Id(x) \in S

Front == [d \in Core |-> clock[d][d]]

(* An access that is new has a stamp nobody's clock has reached.           *)
LEMMA ExactGrows ==
  ASSUME NEW C, NEW L, NEW L2, Stamped(C, L2),
         NEW h \in [C -> Nat], NEW h2 \in [C -> Nat], \A d \in C : h[d] <= h2[d],
         \A x \in L2 : x \in L \/ h[x.record.core] < Own(x),
         NEW S, NEW q \in [C -> Nat], Exact(C, L, S, q, h)
  PROVE  Exact(C, L2, S, q, h2)
<1>1. ASSUME NEW x \in L2, Own(x) <= q[x.record.core] PROVE Id(x) \in S
  <2>1. PICK d \in C : d = x.record.core
    BY DEF Stamped
  <2>2. q[d] \in Nat /\ h[d] \in Nat /\ q[d] <= h[d] /\ Own(x) \in Nat
    BY DEF Stamped, Exact
  <2>3. x \in L
    BY <1>1, <2>1, <2>2
  <2> QED BY <1>1, <2>3 DEF Exact
<1>2. ASSUME NEW d \in C PROVE q[d] <= h2[d]
  <2>1. q[d] \in Nat /\ h[d] \in Nat /\ h2[d] \in Nat /\ q[d] <= h[d] /\ h[d] <= h2[d]
    BY DEF Exact
  <2> QED BY <2>1
<1> QED BY <1>1, <1>2 DEF Exact

(* More may be known,                                                      *)
LEMMA ExactMore ==
  ASSUME NEW C, NEW L, NEW S, NEW T, S \subseteq T, NEW q, NEW h, Exact(C, L, S, q, h)
  PROVE  Exact(C, L, T, q, h)
BY DEF Exact

(* a join is exact for all that is known on both sides,                    *)
LEMMA ExactJoin ==
  ASSUME NEW L, Stamped(Core, L), NEW h, NEW S, NEW T, NEW p \in Clock, NEW q \in Clock,
         Exact(Core, L, S, p, h), Exact(Core, L, T, q, h)
  PROVE  Exact(Core, L, S \cup T, Join(p, q), h)
<1>1. PICK r : r = Join(p, q) /\ \A d \in Core : r[d] = p[d] \/ r[d] = q[d]
  <2>1. \A d \in Core : Join(p, q)[d] = p[d] \/ Join(p, q)[d] = q[d]
    BY DEF Join
  <2> QED BY <2>1
<1>2. ASSUME NEW x \in L, Own(x) <= r[x.record.core] PROVE Id(x) \in S \cup T
  BY <1>1, <1>2 DEF Stamped, Exact
<1>3. \A d \in Core : r[d] <= h[d]
  BY <1>1 DEF Exact
<1> QED BY <1>1, <1>2, <1>3 DEF Exact

(* that of many clocks too,                                                *)
LEMMA ExactJoinAll ==
  ASSUME IsLaunch(launch), NEW L, Stamped(Core, L), NEW h \in Clock, NEW D \in SUBSET Core,
         NEW S, NEW q, \A d \in D : q[d] \in Clock /\ Exact(Core, L, S[d], q[d], h)
  PROVE  JoinAll(All(q, D)) \in Clock /\ Exact(Core, L, UNION All(S, D), JoinAll(All(q, D)), h)
<1>1. PICK f \in [D -> Clock] : \A d \in D : f[d] = q[d]
  <2> DEFINE g == [d \in D |-> q[d]]
  <2>1. g \in [D -> Clock] /\ \A d \in D : g[d] = q[d]
    OBVIOUS
  <2> HIDE DEF g
  <2> QED BY <2>1
<1>2. PICK j \in Clock : /\ j = JoinAll(All(q, D))
                         /\ \A e \in Core : j[e] = 0 \/ \E d \in D : j[e] = f[d][e]
  <2>1. {f[d] : d \in D} = All(q, D)
    BY <1>1 DEF All
  <2>2. /\ JoinAll({f[d] : d \in D}) \in Clock
        /\ \A e \in Core : \/ JoinAll({f[d] : d \in D})[e] = 0
                           \/ \E d \in D : JoinAll({f[a] : a \in D})[e] = f[d][e]
    BY JoinAllFacts
  <2> QED BY <2>1, <2>2
<1>3. ASSUME NEW x \in L, Own(x) <= j[x.record.core] PROVE Id(x) \in UNION All(S, D)
  <2>1. PICK e \in Core : e = x.record.core /\ Own(x) \in Nat \ {0}
    BY DEF Stamped
  <2>2. j[e] # 0
    BY <1>3, <2>1
  <2>3. PICK d \in D : j[e] = f[d][e]
    BY <1>2, <2>1, <2>2
  <2>4. Own(x) <= q[d][x.record.core]
    BY <1>1, <1>3, <2>1, <2>3
  <2>5. Id(x) \in S[d]
    BY <2>4 DEF Exact
  <2> QED BY <2>5 DEF All
<1>4. ASSUME NEW e \in Core PROVE j[e] <= h[e]
  <2>1. h[e] \in Nat
    BY DEF Clock
  <2>2. CASE j[e] = 0
    BY <2>1, <2>2
  <2>3. CASE \E d \in D : j[e] = f[d][e]
    BY <1>1, <2>3 DEF Exact
  <2> QED BY <1>2, <2>2, <2>3
<1> QED BY <1>2, <1>3, <1>4 DEF Exact

(* and so does a tick, where all the accesses of the core that ticks are   *)
(* known.                                                                  *)
LEMMA ExactTick ==
  ASSUME NEW L, Stamped(Core, L), NEW S, NEW q \in Clock, NEW h, Exact(Core, L, S, q, h),
         NEW c \in Core, Mine(L, c, S), Ticked(q, c)[c] <= h[c]
  PROVE  Exact(Core, L, S, Ticked(q, c), h)
<1>1. PICK t : t = Ticked(q, c) /\ t[c] <= h[c] /\ \A d \in Core : d # c => t[d] = q[d]
  <2>1. \A d \in Core : d # c => Ticked(q, c)[d] = q[d]
    BY DEF Ticked, Clock
  <2> QED BY <2>1
<1>2. ASSUME NEW x \in L, Own(x) <= t[x.record.core] PROVE Id(x) \in S
  <2>1. CASE x.record.core = c
    BY <2>1 DEF Mine
  <2>2. CASE x.record.core # c
    BY <1>1, <1>2, <2>2 DEF Stamped, Exact
  <2> QED BY <2>1, <2>2
<1>3. \A d \in Core : t[d] <= h[d]
  BY <1>1 DEF Exact
<1> QED BY <1>1, <1>2, <1>3 DEF Exact

-----------------------------------------------------------------------------
(* The invariant, family by family, as for Books.                          *)
Union(s) == UNION {s[i] : i \in 1 .. Len(s)}

KnownAt(L, h, d) == Exact(Core, L, known[d], clock[d], h) /\ Mine(L, d, known[d])

KnownExact(L, h) == \A d \in Core : KnownAt(L, h, d)

SetsExact(L, h) ==
  \A k \in FlagKey : \A n \in Kind :
    (Mixed => n = "AIC") => Exact(Core, L, Union(pub[k][n]), SetClock(k, n), h)

LanesExact(L, h) ==
  \A k \in FlagKey : \A d \in Core : Exact(Core, L, Union(lanePub[k][d]), aivClock[k][d], h)

(* A lane's later sets know what the earlier ones knew.                    *)
LastHasAll(s, K) == \A i \in 1 .. Len(s) : s[i] \subseteq s[Len(s)] /\ s[i] \subseteq K

LanesInOrder == \A k \in FlagKey : \A d \in Core : LastHasAll(lanePub[k][d], known[d])

MergedExact(L, h) == \A k \in BarrierKey : Exact(Core, L, mergedKnown[k], mergedClock[k], h)

HandedExact(L, h) == \A l \in Lock : Exact(Core, L, lockKnown[l], lockClock[l], h)

Published(L, h) ==
  SetsExact(L, h) /\ LanesExact(L, h) /\ LanesInOrder /\ MergedExact(L, h) /\ HandedExact(L, h)

LogExact(C, L, h) ==
  \A y \in L :
    /\ \A d \in C : y.record.clock[d] <= h[d]
    /\ \A x \in L : x # y /\ Own(x) <= y.record.clock[x.record.core] => Id(x) \in y.past

PreciseInv ==
  /\ KnownExact(log, Front) /\ Published(log, Front)
  /\ LogExact(Core, log, Front) /\ Stamped(Core, log)

(* The clocks of the books are clocks.                                     *)
LEMMA BookClocks ==
  ASSUME NEW L, NEW E, Books(L, E)
  PROVE  /\ Front \in Clock /\ clock \in [Core -> Clock]
         /\ \A k \in FlagKey : \A n \in Kind : SetClock(k, n) \in Clock
         /\ aivClock \in [FlagKey -> [Core -> Clock]]
         /\ mergedClock \in [BarrierKey -> Clock] /\ lockClock \in [Lock -> Clock]
<1>1. clock \in [Core -> Clock]
  BY DEF Books, KnownInv
<1>2. Front \in Clock
  BY <1>1 DEF Front, Clock
<1>3. \A k \in FlagKey : \A n \in Kind : SetClock(k, n) \in Clock
  BY DEF Books, SetsInv, SetClock
<1> QED BY <1>1, <1>2, <1>3 DEF Books, LanesInv, MergedInv, HandedInv

(* What was exact stays exact while the log and the clocks grow.           *)
LEMMA PreciseGrows ==
  ASSUME NEW E, Books(log, E), PreciseInv, NEW L, NEW h \in Clock, Stamped(Core, L),
         \A d \in Core : Front[d] <= h[d],
         \A x \in L : x \in log \/ Front[x.record.core] < Own(x)
  PROVE  /\ Published(L, h)
         /\ \A d \in Core : Exact(Core, L, known[d], clock[d], h)
<1>1. \A S, q : q \in Clock /\ Exact(Core, log, S, q, Front) => Exact(Core, L, S, q, h)
  BY BookClocks, ExactGrows DEF Clock
<1>2. SetsExact(L, h)
  BY <1>1, BookClocks DEF PreciseInv, Published, SetsExact
<1>3. LanesExact(L, h)
  BY <1>1, BookClocks DEF PreciseInv, Published, LanesExact
<1>4. MergedExact(L, h)
  BY <1>1, BookClocks DEF PreciseInv, Published, MergedExact
<1>5. HandedExact(L, h)
  BY <1>1, BookClocks DEF PreciseInv, Published, HandedExact
<1>6. \A d \in Core : Exact(Core, L, known[d], clock[d], h)
  BY <1>1, BookClocks DEF PreciseInv, KnownExact, KnownAt
<1> QED BY <1>2, <1>3, <1>4, <1>5, <1>6 DEF PreciseInv, Published

-----------------------------------------------------------------------------
(* A core's clock moves on; its own component comes first.                 *)
LEMMA FrontStep ==
  ASSUME launch' = launch, clock \in [Core -> Clock], NEW c \in Core, NEW t \in Clock,
         clock' = [clock EXCEPT ![c] = t], Leq(clock[c], t), NEW h, h = Front'
  PROVE  h \in Clock /\ h[c] = t[c] /\ \A d \in Core : Front[d] <= h[d]
<1>1. Core' = Core
  BY SameLaunch
<1>2. \A d \in Core : h[d] = IF d = c THEN t[d] ELSE clock[d][d]
  BY <1>1 DEF Front
<1>3. \A d \in Core : clock[d][d] \in Nat /\ t[d] \in Nat
  BY DEF Clock
<1>4. h \in Clock
  BY <1>1, <1>2, <1>3 DEF Front, Clock
<1>5. \A d \in Core : Front[d] <= h[d]
  BY <1>2, <1>3 DEF Front, Leq
<1> QED BY <1>2, <1>4, <1>5

(* A core that knows T from now on, with a clock that is exact for T       *)
LEMMA LearnPrecise ==
  ASSUME launch' = launch, NEW E, Books(log, E), NEW L, NEW h, NEW c \in Core,
         \A d \in Core : d # c => KnownAt(L, h, d), NEW T, known[c] \subseteq T, NEW t,
         Exact(Core, L, T, t, h), Mine(L, c, T),
         known' = [known EXCEPT ![c] = T], clock' = [clock EXCEPT ![c] = t]
  PROVE  KnownExact(L, h)' /\ \A d \in Core : known[d] \subseteq known'[d]
<1>1. Core' = Core
  BY SameLaunch
<1>2. known \in [Core -> SUBSET Sites] /\ clock \in [Core -> Clock]
  BY DEF Books, KnownInv
<1>3. ASSUME NEW d \in Core
      PROVE  Exact(Core, L, known'[d], clock'[d], h) /\ Mine(L, d, known'[d])
             /\ known[d] \subseteq known'[d]
  <2>1. CASE d = c
    BY <1>2, <2>1
  <2>2. CASE d # c
    BY <1>2, <2>2 DEF KnownAt
  <2> QED BY <2>1, <2>2
<1> QED BY <1>1, <1>3 DEF KnownExact, KnownAt

(* Mostly that clock is one exact already, ticked or not.                  *)
LEMMA LearnTicked ==
  ASSUME launch' = launch, NEW E, Books(log, E), PreciseInv, NEW L, L = log, NEW h, h = Front',
         NEW c \in Core, NEW T, known[c] \subseteq T, NEW r \in Clock, Leq(clock[c], r),
         Exact(Core, L, T, r, Front), known' = [known EXCEPT ![c] = T],
         clock' = [clock EXCEPT ![c] = r] \/ clock' = [clock EXCEPT ![c] = Ticked(r, c)]
  PROVE  /\ h \in Clock /\ \A d \in Core : Front[d] <= h[d]
         /\ KnownExact(L, h)' /\ \A d \in Core : known[d] \subseteq known'[d]
<1>1. clock \in [Core -> Clock] /\ Front \in Clock /\ Stamped(Core, L)
  BY BookClocks DEF PreciseInv
<1>2. PICK t \in Clock : (t = r \/ t = Ticked(r, c)) /\ clock' = [clock EXCEPT ![c] = t]
  BY TickFacts
<1>3. Leq(clock[c], t)
  <2>1. clock[c] \in Clock /\ Leq(r, t)
    BY <1>1, <1>2, TickFacts
  <2> QED BY <2>1, LeqTransitive
<1>4. h \in Clock /\ h[c] = t[c] /\ \A d \in Core : Front[d] <= h[d]
  BY <1>1, <1>2, <1>3, FrontStep
<1>5. Exact(Core, L, T, r, h) /\ \A d \in Core : KnownAt(L, h, d)
  <2>1. Exact(Core, L, T, r, h)
    BY <1>1, <1>4, ExactGrows DEF Clock
  <2>2. \A d \in Core : Exact(Core, L, known[d], clock[d], h)
    BY <1>1, <1>4, PreciseGrows
  <2> QED BY <2>1, <2>2 DEF PreciseInv, KnownExact, KnownAt
<1>6. Mine(L, c, T)
  BY <1>5 DEF KnownAt, Mine
<1>7. Exact(Core, L, T, t, h)
  <2>1. CASE t = r
    BY <1>5, <2>1
  <2>2. CASE t = Ticked(r, c)
    <3>1. t[c] \in Nat /\ Ticked(r, c)[c] <= h[c]
      BY <1>4, <2>2 DEF Clock
    <3>2. Exact(Core, L, T, Ticked(r, c), h)
      BY <1>1, <1>5, <1>6, <3>1, ExactTick
    <3> QED BY <2>2, <3>2
  <2> QED BY <1>2, <2>1, <2>2
<1> QED BY <1>2, <1>4, <1>5, <1>6, <1>7, LearnPrecise

(* What has been published is not touched by one who publishes nothing.    *)
LEMMA PublishedKept ==
  ASSUME launch' = launch, NEW L, NEW h, Published(L, h),
         UNCHANGED << pub, lanePub, mergedKnown, lockKnown >>,
         UNCHANGED << aicClock, aivClock, sameKindClock, mergedClock, lockClock >>,
         \A d \in Core : known[d] \subseteq known'[d]
  PROVE  Published(L, h)'
<1>1. Core' = Core /\ (Mixed <=> Mixed')
  BY SameLaunch
<1>2. \A k \in FlagKey : \A n \in Kind : SetClock(k, n)' = SetClock(k, n)
  BY <1>1 DEF SetClock
<1>3. SetsExact(L, h)'
  BY <1>1, <1>2 DEF Published, SetsExact, Union
<1>4. LanesExact(L, h)'
  BY <1>1 DEF Published, LanesExact, Union
<1>5. LanesInOrder'
  <2>1. \A k \in FlagKey : \A d \in Core : LastHasAll(lanePub[k][d], known'[d])
    BY DEF Published, LanesInOrder, LastHasAll
  <2> QED BY <1>1, <2>1 DEF LanesInOrder, LastHasAll
<1>6. MergedExact(L, h)' /\ HandedExact(L, h)'
  BY <1>1 DEF Published, MergedExact, HandedExact
<1> QED BY <1>3, <1>4, <1>5, <1>6 DEF Published

-----------------------------------------------------------------------------
(* A sequence that grows by S publishes S on top.                          *)
LEMMA UnionAppend ==
  ASSUME NEW V, NEW s \in Seq(V), NEW S \in V
  PROVE  Union(Append(s, S)) = Union(s) \cup S
<1>1. PICK t : t = Append(s, S) /\ Len(t) = Len(s) + 1 /\ Len(s) \in Nat
               /\ t[Len(s) + 1] = S /\ \A i \in 1 .. Len(s) : t[i] = s[i]
  <2>1. /\ Len(s) \in Nat /\ Len(Append(s, S)) = Len(s) + 1
        /\ Append(s, S)[Len(s) + 1] = S /\ \A i \in 1 .. Len(s) : Append(s, S)[i] = s[i]
    BY AppendFacts
  <2> QED BY <2>1
<1>2. \A i \in 1 .. Len(t) : i \in 1 .. Len(s) \/ i = Len(s) + 1
  BY <1>1
<1>3. Len(s) + 1 \in 1 .. Len(t) /\ \A i \in 1 .. Len(s) : i \in 1 .. Len(t)
  BY <1>1
<1>4. Union(t) \subseteq Union(s) \cup S
  BY <1>1, <1>2 DEF Union
<1>5. Union(s) \cup S \subseteq Union(t)
  BY <1>1, <1>3 DEF Union
<1> QED BY <1>1, <1>4, <1>5

(* Sets in order are all in the last one, with which a wait is paired that *)
(* finds one set untaken.                                                  *)
LEMMA LastIsAll ==
  ASSUME NEW s, Len(s) \in Nat, 0 < Len(s), \A i \in 1 .. Len(s) : s[i] \subseteq s[Len(s)],
         NEW C, NEW L, NEW q, NEW h, Exact(C, L, Union(s), q, h)
  PROVE  Exact(C, L, Paired(s, 1), q, h)
<1>1. PICK S : S = Paired(s, 1)
  OBVIOUS
<1>2. S = s[Len(s)]
  BY <1>1 DEF Paired
<1>3. Union(s) \subseteq S
  BY <1>2 DEF Union
<1> QED BY <1>1, <1>3, ExactMore

(* sync_block_set publishes what the core knows, with its clock.           *)
LEMMA PublishPrecise ==
  ASSUME TypeOK, Books(log, Executed), PreciseInv, NEW L, L = log, NEW h, h = Front',
         NEW c \in Core, Publish(c)
  PROVE  /\ h \in Clock /\ \A d \in Core : Front[d] <= h[d]
         /\ KnownExact(L, h)' /\ Published(L, h)'
<1>1. launch' = launch /\ SyncBlockSet(c) /\ IsLaunch(launch)
  BY DEF Publish, SyncBlockSet, Turn, TypeOK
<1>2. PICK k \in FlagKey : k = FlagKeyOf(c)
  BY <1>1, FlagKeyFacts DEF SyncBlockSet, TypeOK
<1>3. PICK n \in Kind : n = KindOf(c)
  BY <1>1, CoreFacts
<1>4. HasOpposite(c) <=> Mixed
  BY <1>1, KindFacts
<1>5. PICK q : q = Ticked(clock[c], c)
  OBVIOUS
<1>6. PICK S : S = known[c]
  OBVIOUS
<1>7. known' = known /\ clock' = [clock EXCEPT ![c] = q] /\ known \in [Core -> SUBSET Sites]
      /\ clock \in [Core -> Clock]
  BY <1>5 DEF Publish, Books, KnownInv
<1>8. /\ h \in Clock /\ \A d \in Core : Front[d] <= h[d]
      /\ KnownExact(L, h)'
  <2>1. clock[c] \in Clock /\ Leq(clock[c], clock[c])
    BY <1>7, TickFacts
  <2>2. Exact(Core, L, S, clock[c], Front)
    BY <1>6 DEF PreciseInv, KnownExact, KnownAt
  <2>3. known' = [known EXCEPT ![c] = S]
    BY <1>6, <1>7
  <2> QED BY <1>1, <1>5, <1>6, <1>7, <2>1, <2>2, <2>3, LearnTicked
<1>9. Published(L, h)
  <2>1. Stamped(Core, L) /\ \A x \in L : x \in log
    BY DEF PreciseInv
  <2> QED BY <1>8, <2>1, PreciseGrows
<1>10. q \in Clock /\ Exact(Core, L, S, q, h)
  <2>1. Core' = Core
    BY <1>1, SameLaunch
  <2>2. q \in Clock
    BY <1>5, <1>7, TickFacts
  <2>3. clock'[c] = q /\ known'[c] = S
    BY <1>6, <1>7
  <2>4. Exact(Core, L, known'[c], clock'[c], h)
    BY <1>8, <2>1 DEF KnownExact, KnownAt
  <2> QED BY <2>2, <2>3, <2>4
<1>11. Stamped(Core, L)
  BY DEF PreciseInv
<1>12. MergedExact(L, h)' /\ HandedExact(L, h)'
  <2>1. UNCHANGED << mergedKnown, mergedClock, lockKnown, lockClock >> /\ Core' = Core
    BY <1>1, SameLaunch DEF Publish
  <2> QED BY <1>9, <2>1 DEF Published, MergedExact, HandedExact
<1>13. CASE Mixed /\ n = "AIV"
  <2>1. /\ UNCHANGED << sameKindClock, aicClock, pub >>
        /\ aivClock' = [aivClock EXCEPT ![k][c] = Join(aivClock[k][c], q)]
        /\ lanePub' = [lanePub EXCEPT ![k][c] = Append(lanePub[k][c], S)]
    BY <1>2, <1>3, <1>4, <1>5, <1>6, <1>13 DEF Publish
  <2>2. Core' = Core /\ (Mixed <=> Mixed')
    BY <1>1, SameLaunch
  <2>3. SetsExact(L, h)'
    <3>1. \A k1 \in FlagKey : \A n1 \in Kind : SetClock(k1, n1)' = SetClock(k1, n1)
      BY <2>1, <2>2 DEF SetClock
    <3> QED BY <1>9, <2>1, <2>2, <3>1 DEF Published, SetsExact
  <2>4. PICK V : V = SUBSET Sites /\ S \in V /\ lanePub \in [FlagKey -> [Core -> Seq(V)]]
    BY <1>6, <1>7 DEF Books, LanesInv
  <2>5. PICK s \in Seq(V) : s = lanePub[k][c]
    BY <2>4
  <2>6. PICK t \in Seq(V) : /\ t = Append(s, S) /\ Len(s) \in Nat /\ Len(t) = Len(s) + 1
                            /\ t[Len(s) + 1] = S /\ \A i \in 1 .. Len(s) : t[i] = s[i]
    <3>1. /\ Append(s, S) \in Seq(V) /\ Len(s) \in Nat /\ Len(Append(s, S)) = Len(s) + 1
          /\ Append(s, S)[Len(s) + 1] = S /\ \A i \in 1 .. Len(s) : Append(s, S)[i] = s[i]
      BY <2>4, AppendFacts
    <3> QED BY <3>1
  <2>7. PICK p \in Clock : p = aivClock[k][c]
    BY DEF Books, LanesInv
  <2>8. PICK r \in Clock : r = Join(p, q)
    BY <1>10, JoinFacts
  <2>9. Exact(Core, L, Union(t), r, h)
    <3>1. Exact(Core, L, Union(s), p, h)
      BY <1>9, <2>5, <2>7 DEF Published, LanesExact
    <3>2. Exact(Core, L, Union(s) \cup S, r, h)
      BY <1>10, <1>11, <2>8, <3>1, ExactJoin
    <3>3. Union(t) = Union(s) \cup S
      BY <2>4, <2>6, UnionAppend
    <3> QED BY <3>2, <3>3
  <2>10. lanePub' = [lanePub EXCEPT ![k][c] = t] /\ aivClock' = [aivClock EXCEPT ![k][c] = r]
    BY <2>1, <2>5, <2>6, <2>7, <2>8
  <2>11. \A k1 \in FlagKey : \A d \in Core :
           /\ lanePub'[k1][d] = IF k1 = k /\ d = c THEN t ELSE lanePub[k1][d]
           /\ aivClock'[k1][d] = IF k1 = k /\ d = c THEN r ELSE aivClock[k1][d]
    <3>1. PICK W : W = Seq(V) /\ t \in W /\ lanePub \in [FlagKey -> [Core -> W]]
      BY <2>4
    <3>2. aivClock \in [FlagKey -> [Core -> Clock]]
      BY DEF Books, LanesInv
    <3> QED BY <2>10, <3>1, <3>2
  <2>12. LanesExact(L, h)'
    <3>1. ASSUME NEW k1 \in FlagKey, NEW d \in Core
          PROVE  Exact(Core, L, Union(lanePub'[k1][d]), aivClock'[k1][d], h)
      BY <1>9, <2>9, <2>11 DEF Published, LanesExact
    <3> QED BY <2>2, <3>1 DEF LanesExact, Union
  <2>13. LanesInOrder'
    <3>1. LastHasAll(t, S)
      <4>1. \A i \in 1 .. Len(s) : s[i] \subseteq S
        BY <1>6, <1>9, <2>5 DEF Published, LanesInOrder, LastHasAll
      <4>2. \A i \in 1 .. Len(t) : i \in 1 .. Len(s) \/ i = Len(s) + 1
        BY <2>6
      <4> QED BY <2>6, <4>1, <4>2 DEF LastHasAll
    <3>2. ASSUME NEW k1 \in FlagKey, NEW d \in Core
          PROVE  LastHasAll(lanePub'[k1][d], known'[d])
      BY <1>6, <1>7, <1>9, <2>11, <3>1 DEF Published, LanesInOrder
    <3> QED BY <2>2, <3>2 DEF LanesInOrder, LastHasAll
  <2> QED BY <1>8, <1>12, <2>3, <2>12, <2>13 DEF Published
<1>14. CASE ~ (Mixed /\ n = "AIV")
  <2>1. /\ UNCHANGED << aivClock, lanePub >>
        /\ pub' = [pub EXCEPT ![k][n] = Append(pub[k][n], S)]
    <3>1. ~ (HasOpposite(c) /\ KindOf(c) = "AIV")
      BY <1>3, <1>4, <1>14
    <3>2. UNCHANGED lanePub /\ pub' = [pub EXCEPT ![k][n] = Append(@, known[c])]
      BY <1>2, <1>3, <3>1 DEF Publish
    <3>3. UNCHANGED aivClock
      BY <1>3, <3>1 DEF Publish, Kind
    <3> QED BY <1>6, <3>2, <3>3
  <2>2. Core' = Core /\ (Mixed <=> Mixed')
    BY <1>1, SameLaunch
  <2>3. LanesExact(L, h)' /\ LanesInOrder'
    <3>1. LanesExact(L, h)'
      BY <1>9, <2>1, <2>2 DEF Published, LanesExact, Union
    <3> QED BY <1>7, <1>9, <2>1, <2>2, <3>1 DEF Published, LanesInOrder, LastHasAll
  <2>4. PICK V : V = SUBSET Sites /\ S \in V /\ pub \in [FlagKey -> [Kind -> Seq(V)]]
    BY <1>6, <1>7 DEF Books, SetsInv
  <2>5. PICK s \in Seq(V) : s = pub[k][n]
    BY <2>4
  <2>6. PICK t \in Seq(V) : t = Append(s, S)
    BY <2>4, AppendFacts
  <2>7. PICK p \in Clock : p = SetClock(k, n)
    BY BookClocks
  <2>8. PICK r \in Clock : r = Join(p, q)
    BY <1>10, JoinFacts
  <2>9. (Mixed => n = "AIC") /\ Exact(Core, L, Union(t), r, h)
    <3>1. Mixed => n = "AIC"
      BY <1>14 DEF Kind
    <3>2. Exact(Core, L, Union(s), p, h)
      BY <1>9, <2>5, <2>7, <3>1 DEF Published, SetsExact
    <3>3. Exact(Core, L, Union(s) \cup S, r, h)
      BY <1>10, <1>11, <2>8, <3>2, ExactJoin
    <3>4. Union(t) = Union(s) \cup S
      <4>1. Union(Append(s, S)) = Union(s) \cup S
        BY <2>4, UnionAppend
      <4> QED BY <2>6, <4>1
    <3> QED BY <3>1, <3>3, <3>4
  <2>10. \A k1 \in FlagKey : \A n1 \in Kind :
           pub'[k1][n1] = IF k1 = k /\ n1 = n THEN t ELSE pub[k1][n1]
    <3>1. PICK W : W = Seq(V) /\ t \in W /\ pub \in [FlagKey -> [Kind -> W]]
      BY <2>4
    <3>2. pub' = [pub EXCEPT ![k][n] = t]
      BY <2>1, <2>5, <2>6
    <3> QED BY <3>1, <3>2
  <2>11. \A k1 \in FlagKey : \A n1 \in Kind : (Mixed => n1 = "AIC") =>
           SetClock(k1, n1)' = IF k1 = k /\ n1 = n THEN r ELSE SetClock(k1, n1)
    <3>1. CASE Mixed
      <4>1. aicClock' = [aicClock EXCEPT ![k] = Join(aicClock[k], q)] /\ n = "AIC"
        BY <1>2, <1>3, <1>4, <1>5, <2>9, <3>1 DEF Publish
      <4>2. aicClock \in [FlagKey -> Clock] /\ r = Join(aicClock[k], q)
        BY <2>7, <2>8, <3>1 DEF SetClock, Books, SetsInv
      <4>3. \A k1 \in FlagKey : aicClock'[k1] = IF k1 = k THEN r ELSE aicClock[k1]
        BY <4>1, <4>2
      <4> QED BY <2>2, <3>1, <4>1, <4>3 DEF SetClock
    <3>2. CASE ~ Mixed
      <4>1. sameKindClock' = [sameKindClock EXCEPT ![k][n] = Join(sameKindClock[k][n], q)]
        BY <1>2, <1>3, <1>4, <1>5, <3>2 DEF Publish
      <4>2. sameKindClock \in [FlagKey -> [Kind -> Clock]] /\ r = Join(sameKindClock[k][n], q)
        BY <2>7, <2>8, <3>2 DEF SetClock, Books, SetsInv
      <4>3. \A k1 \in FlagKey : \A n1 \in Kind :
              sameKindClock'[k1][n1] = IF k1 = k /\ n1 = n THEN r ELSE sameKindClock[k1][n1]
        BY <4>1, <4>2
      <4> QED BY <2>2, <3>2, <4>3 DEF SetClock
    <3> QED BY <3>1, <3>2
  <2>12. SetsExact(L, h)'
    <3>1. ASSUME NEW k1 \in FlagKey, NEW n1 \in Kind, Mixed => n1 = "AIC"
          PROVE  Exact(Core, L, Union(pub'[k1][n1]), SetClock(k1, n1)', h)
      <4>1. CASE k1 = k /\ n1 = n
        <5>1. SetClock(k1, n1)' = r /\ pub'[k1][n1] = t
          BY <2>10, <2>11, <3>1, <4>1
        <5> QED BY <2>9, <5>1
      <4>2. CASE ~ (k1 = k /\ n1 = n)
        <5>1. SetClock(k1, n1)' = SetClock(k1, n1) /\ pub'[k1][n1] = pub[k1][n1]
          BY <2>10, <2>11, <3>1, <4>2
        <5>2. Exact(Core, L, Union(pub[k1][n1]), SetClock(k1, n1), h)
          BY <1>9, <3>1 DEF Published, SetsExact
        <5> QED BY <5>1, <5>2
      <4> QED BY <4>1, <4>2
    <3> QED BY <2>2, <3>1 DEF SetsExact, Union
  <2> QED BY <1>8, <1>12, <2>3, <2>12 DEF Published
<1> QED BY <1>13, <1>14

-----------------------------------------------------------------------------
(* A core that joins a clock exact for what it learns, ticked or not.      *)
LEMMA LearnJoined ==
  ASSUME launch' = launch, NEW E, Books(log, E), PreciseInv, NEW L, L = log, NEW h, h = Front',
         NEW c \in Core, NEW S, NEW q \in Clock, Exact(Core, L, S, q, Front),
         known' = [known EXCEPT ![c] = known[c] \cup S],
         \/ clock' = [clock EXCEPT ![c] = Ticked(Join(clock[c], q), c)]
         \/ clock' = [clock EXCEPT ![c] = Join(clock[c], q)],
         UNCHANGED << pub, lanePub, mergedKnown, lockKnown >>,
         UNCHANGED << aicClock, aivClock, sameKindClock, mergedClock, lockClock >>
  PROVE  /\ h \in Clock /\ \A d \in Core : Front[d] <= h[d]
         /\ KnownExact(L, h)' /\ Published(L, h)'
<1>1. PICK r \in Clock : r = Join(clock[c], q) /\ Leq(clock[c], r)
  <2>1. clock[c] \in Clock
    BY BookClocks
  <2> QED BY <2>1, JoinFacts
<1>2. PICK T : T = known[c] \cup S /\ known[c] \subseteq T
  OBVIOUS
<1>3. Stamped(Core, L) /\ Exact(Core, L, known[c], clock[c], Front)
  BY DEF PreciseInv, KnownExact, KnownAt
<1>4. Exact(Core, L, T, r, Front)
  <2>1. clock[c] \in Clock
    BY BookClocks
  <2>2. Exact(Core, L, known[c] \cup S, Join(clock[c], q), Front)
    BY <1>3, <2>1, ExactJoin
  <2> QED BY <1>1, <1>2, <2>2
<1>5. /\ known' = [known EXCEPT ![c] = T]
      /\ clock' = [clock EXCEPT ![c] = r] \/ clock' = [clock EXCEPT ![c] = Ticked(r, c)]
  BY <1>1, <1>2
<1>6. /\ h \in Clock /\ \A d \in Core : Front[d] <= h[d]
      /\ KnownExact(L, h)' /\ \A d \in Core : known[d] \subseteq known'[d]
  BY <1>1, <1>2, <1>4, <1>5, LearnTicked
<1>7. Published(L, h)
  BY <1>3, <1>6, PreciseGrows
<1>8. Published(L, h)'
  BY <1>6, <1>7, PublishedKept
<1> QED BY <1>6, <1>8

(* sync_block_wait, of a flag that is used one set at a time: the set it   *)
(* takes is the last, and holds all that the clock of the flag is past.    *)
LEMMA AcquirePrecise ==
  ASSUME TypeOK, Books(log, Executed), PreciseInv, OneSetAtATime, NEW L, L = log,
         NEW h, h = Front', NEW c \in Core, Acquire(c)
  PROVE  /\ h \in Clock /\ \A d \in Core : Front[d] <= h[d]
         /\ KnownExact(L, h)' /\ Published(L, h)'
<1>1. launch' = launch /\ SyncBlockWait(c) /\ IsLaunch(launch) /\ At(c, "wait")
  BY DEF Acquire, SyncBlockWait, Turn, TypeOK
<1>2. PICK k \in FlagKey : k = FlagKeyOf(c)
  BY <1>1, FlagKeyFacts DEF SyncBlockWait, TypeOK
<1>3. PICK n \in Kind : n = KindOf(c)
  BY <1>1, CoreFacts
<1>4. (HasOpposite(c) <=> Mixed) /\ FlagReady(c, k)
  BY <1>1, <1>2, KindFacts DEF SyncBlockWait
<1>5. /\ UNCHANGED << pub, lanePub, mergedKnown, lockKnown >>
      /\ UNCHANGED << aicClock, aivClock, sameKindClock, mergedClock, lockClock >>
  BY DEF Acquire
<1>6. /\ SetsExact(L, Front) /\ LanesExact(L, Front) /\ LanesInOrder /\ Stamped(Core, L)
      /\ Front \in Clock
  BY BookClocks DEF PreciseInv, Published
<1>7. ASSUME NEW n1 \in Kind, Mixed => n1 = "AIC", 0 < Len(pub[k][n1])
      PROVE  Exact(Core, L, Paired(pub[k][n1], 1), SetClock(k, n1), Front)
  <2>1. PICK s : s = pub[k][n1] /\ Len(s) \in Nat
    BY DEF Books, SetsInv
  <2>2. \A i, j \in 1 .. Len(s) : i < j => s[i] \subseteq s[j]
    BY <2>1 DEF OneSetAtATime, SetsInOrder
  <2>3. \A i \in 1 .. Len(s) : s[i] \subseteq s[Len(s)]
    <3>1. PICK m \in Nat : m = Len(s) /\ 0 < m
      BY <1>7, <2>1
    <3>2. \A i \in 1 .. m : i = m \/ i < m
      BY <3>1
    <3>3. m \in 1 .. m
      BY <3>1
    <3> QED BY <2>2, <3>1, <3>2, <3>3
  <2>4. Exact(Core, L, Union(s), SetClock(k, n1), Front)
    BY <1>6, <1>7, <2>1 DEF SetsExact
  <2> QED BY <1>7, <2>1, <2>3, <2>4, LastIsAll
<1>8. CASE ~ Mixed
  <2>1. sameKind[k][n] = 1 /\ 0 < Len(pub[k][n])
    <3>1. sameKind[k][n] > 0
      BY <1>3, <1>4, <1>8 DEF FlagReady
    <3>2. sameKind[k][n] <= 1
      BY <1>1, <1>2, <1>3, <1>4, <1>8 DEF OneSetAtATime, TakenInTurn
    <3>3. sameKind[k][n] \in Nat /\ Len(pub[k][n]) \in Nat /\ sameKind[k][n] <= Len(pub[k][n])
      BY DEF TypeOK, Books, SetsInv
    <3> QED BY <3>1, <3>2, <3>3
  <2>2. PICK S : S = Paired(pub[k][n], 1)
    OBVIOUS
  <2>3. PICK q \in Clock : q = sameKindClock[k][n] /\ q = SetClock(k, n)
    BY <1>8, BookClocks DEF SetClock
  <2>4. Exact(Core, L, S, q, Front)
    BY <1>7, <1>8, <2>1, <2>2, <2>3
  <2>5. /\ known' = [known EXCEPT ![c] = known[c] \cup S]
        /\ clock' = [clock EXCEPT ![c] = Ticked(Join(clock[c], q), c)]
    BY <1>2, <1>3, <1>4, <1>8, <2>1, <2>2, <2>3 DEF Acquire
  <2> QED BY <1>1, <1>5, <2>4, <2>5, LearnJoined
<1>9. CASE Mixed /\ n = "AIV"
  <2>1. PICK m \in Kind : m = "AIC"
    BY DEF Kind
  <2>2. aicGen[k] - aivSeen[k][c] = 1 /\ 0 < Len(pub[k][m])
    <3>1. aivSeen[k][c] < aicGen[k]
      BY <1>3, <1>4, <1>9 DEF FlagReady
    <3>2. aicGen[k] <= aivSeen[k][c] + 1
      BY <1>1, <1>2, <1>3, <1>4, <1>9 DEF OneSetAtATime, TakenInTurn
    <3>3. aicGen[k] \in Nat /\ aivSeen[k][c] \in Nat /\ Len(pub[k][m]) \in Nat
          /\ aicGen[k] <= Len(pub[k][m])
      BY <2>1 DEF TypeOK, Books, SetsInv
    <3> QED BY <3>1, <3>2, <3>3
  <2>3. PICK S : S = Paired(pub[k][m], 1)
    OBVIOUS
  <2>4. PICK q \in Clock : q = aicClock[k] /\ q = SetClock(k, m)
    BY <1>9, BookClocks DEF SetClock
  <2>5. Exact(Core, L, S, q, Front)
    BY <1>7, <2>1, <2>2, <2>3, <2>4
  <2>6. /\ known' = [known EXCEPT ![c] = known[c] \cup S]
        /\ clock' = [clock EXCEPT ![c] = Ticked(Join(clock[c], q), c)]
    BY <1>2, <1>3, <1>4, <1>9, <2>1, <2>2, <2>3, <2>4 DEF Acquire
  <2> QED BY <1>1, <1>5, <2>5, <2>6, LearnJoined
<1>10. CASE Mixed /\ n # "AIV"
  <2>1. PICK D \in SUBSET Core : D = Contributors(c, k)
    BY DEF Contributors
  <2>2. PICK S : S = [d \in D |-> Paired(lanePub[k][d], 1)]
    OBVIOUS
  <2>3. PICK q : q = [d \in D |-> aivClock[k][d]]
    OBVIOUS
  <2>4. \A d \in D : aivCount[k][d] = 1 /\ Len(lanePub[k][d]) \in Nat /\ 0 < Len(lanePub[k][d])
    <3>1. ASSUME NEW d \in D
          PROVE  aivCount[k][d] = 1 /\ Len(lanePub[k][d]) \in Nat /\ 0 < Len(lanePub[k][d])
      <4>1. aivCount[k][d] > 0
        BY <1>3, <1>4, <1>10, <2>1 DEF FlagReady
      <4>2. aivCount[k][d] <= 1
        BY <1>1, <1>2, <1>3, <1>4, <1>10, <2>1 DEF OneSetAtATime, TakenInTurn
      <4>3. aivCount[k][d] \in Nat /\ Len(lanePub[k][d]) \in Nat
            /\ aivCount[k][d] <= Len(lanePub[k][d])
        BY DEF TypeOK, Books, LanesInv
      <4> QED BY <4>1, <4>2, <4>3
    <3> QED BY <3>1
  <2>5. ASSUME NEW d \in D PROVE q[d] \in Clock /\ Exact(Core, L, S[d], q[d], Front)
    <3>1. PICK e \in Core : e = d
      OBVIOUS
    <3>2. PICK s : s = lanePub[k][e]
      OBVIOUS
    <3>3. Len(s) \in Nat /\ 0 < Len(s)
      BY <2>4, <3>1, <3>2
    <3>4. \A i \in 1 .. Len(s) : s[i] \subseteq s[Len(s)]
      BY <1>6, <3>2 DEF LanesInOrder, LastHasAll
    <3>5. Exact(Core, L, Union(s), aivClock[k][e], Front)
      BY <1>6, <3>2 DEF LanesExact
    <3>6. Exact(Core, L, Paired(s, 1), aivClock[k][e], Front)
      BY <3>3, <3>4, <3>5, LastIsAll
    <3>7. S[d] = Paired(s, 1) /\ q[d] = aivClock[k][e]
      BY <2>2, <2>3, <3>1, <3>2
    <3> QED BY <3>6, <3>7, BookClocks
  <2>6. PICK T, j : T = UNION All(S, D) /\ j = JoinAll(All(q, D))
    OBVIOUS
  <2>7. j \in Clock /\ Exact(Core, L, T, j, Front)
    <3>1. JoinAll(All(q, D)) \in Clock /\ Exact(Core, L, UNION All(S, D), JoinAll(All(q, D)), Front)
      BY <1>1, <1>6, <2>5, ExactJoinAll
    <3> QED BY <2>6, <3>1
  <2>8. T = UNION {Paired(lanePub[k][d], aivCount[k][d]) : d \in D}
    BY <2>2, <2>4, <2>6 DEF All
  <2>9. All(q, D) = {aivClock[k][d] : d \in D}
    BY <2>3 DEF All
  <2>10. known' = [known EXCEPT ![c] = known[c] \cup T]
    <3>1. known' = [known EXCEPT ![c] = @ \cup UNION {Paired(lanePub[k][d], aivCount[k][d]) : d \in D}]
      BY <1>2, <1>3, <1>4, <1>10, <2>1 DEF Acquire
    <3> QED BY <2>8, <3>1
  <2>11. clock' = [clock EXCEPT ![c] = Ticked(Join(clock[c], j), c)]
    <3>1. clock' = [clock EXCEPT ![c] = Ticked(Join(@, JoinAll({aivClock[k][d] : d \in D})), c)]
      BY <1>2, <1>3, <1>4, <1>10, <2>1 DEF Acquire
    <3> QED BY <2>6, <2>9, <3>1
  <2> QED BY <1>1, <1>5, <2>7, <2>10, <2>11, LearnJoined
<1> QED BY <1>8, <1>9, <1>10

(* sync_block: arriving moves nothing but the core's own clock,            *)
LEMMA ParksPrecise ==
  ASSUME Books(log, Executed), PreciseInv, NEW L, L = log, NEW h, h = Front',
         NEW c \in Core, BarrierParks(c)
  PROVE  /\ h \in Clock /\ \A d \in Core : Front[d] <= h[d]
         /\ KnownExact(L, h)' /\ Published(L, h)'
<1>1. launch' = launch
  BY DEF BarrierParks, SyncBlockParks, Turn
<1>2. /\ UNCHANGED << pub, lanePub, mergedKnown, lockKnown >> /\ UNCHANGED known
      /\ UNCHANGED << aicClock, aivClock, sameKindClock, mergedClock, lockClock >>
  BY DEF BarrierParks, history
<1>3. PICK r \in Clock : r = clock[c] /\ Leq(clock[c], r)
  <2>1. clock[c] \in Clock
    BY BookClocks
  <2> QED BY <2>1, TickFacts
<1>4. PICK T : T = known[c] /\ known[c] \subseteq T
  OBVIOUS
<1>5. Stamped(Core, L) /\ Exact(Core, L, T, r, Front)
  BY <1>3, <1>4 DEF PreciseInv, KnownExact, KnownAt
<1>6. /\ known' = [known EXCEPT ![c] = T]
      /\ clock' = [clock EXCEPT ![c] = r] \/ clock' = [clock EXCEPT ![c] = Ticked(r, c)]
  <2>1. clock' = [clock EXCEPT ![c] = r] \/ clock' = [clock EXCEPT ![c] = Ticked(r, c)]
    BY <1>3 DEF BarrierParks, AtArrival
  <2>2. known' = [known EXCEPT ![c] = T]
    BY <1>2, <1>4 DEF Books, KnownInv
  <2> QED BY <2>1, <2>2
<1>7. /\ h \in Clock /\ \A d \in Core : Front[d] <= h[d]
      /\ KnownExact(L, h)' /\ \A d \in Core : known[d] \subseteq known'[d]
  BY <1>1, <1>3, <1>4, <1>5, <1>6, LearnTicked
<1>8. Published(L, h)
  BY <1>5, <1>7, PreciseGrows
<1>9. Published(L, h)'
  BY <1>1, <1>2, <1>7, <1>8, PublishedKept
<1> QED BY <1>7, <1>9

(* the last arrival merges what those know that are here, and no more,     *)
LEMMA FiresPrecise ==
  ASSUME TypeOK, Books(log, Executed), PreciseInv, NEW L, L = log, NEW h, h = Front',
         NEW c \in Core, BarrierFires(c)
  PROVE  /\ h \in Clock /\ \A d \in Core : Front[d] <= h[d]
         /\ KnownExact(L, h)' /\ Published(L, h)'
<1>1. launch' = launch /\ SyncBlockFires(c) /\ IsLaunch(launch)
  BY DEF BarrierFires, SyncBlockFires, Turn, TypeOK
<1>2. PICK k \in BarrierKey : k = BarrierKeyOf(c)
  BY <1>1, BarrierKeyFacts DEF SyncBlockFires, TypeOK
<1>3. PICK D \in SUBSET Core : D = arrived[k] \cup {c} /\ c \in D
  <2>1. arrived[k] \cup {c} \in SUBSET Core
    BY DEF TypeOK
  <2> QED BY <2>1
<1>4. PICK p \in Clock : p = AtArrival(c) /\ Leq(clock[c], p)
                        /\ (p = clock[c] \/ p = Ticked(clock[c], c))
  <2>1. clock[c] \in Clock
    BY BookClocks
  <2> QED BY <2>1, TickFacts DEF AtArrival
<1>5. PICK S : S = [d \in D |-> known[d]]
  OBVIOUS
<1>6. PICK q : q = [d \in D |-> IF d = c THEN p ELSE clock[d]]
  OBVIOUS
<1>7. PICK T, j : T = UNION All(S, D) /\ j = JoinAll(All(q, D))
  OBVIOUS
<1>8. \A d \in D : q[d] \in Clock
  BY <1>6, BookClocks
<1>9. j \in Clock
  <2>1. PICK f \in [D -> Clock] : \A d \in D : f[d] = q[d]
    <3> DEFINE g == [d \in D |-> q[d]]
    <3>1. g \in [D -> Clock] /\ \A d \in D : g[d] = q[d]
      BY <1>8
    <3> HIDE DEF g
    <3> QED BY <3>1
  <2>2. {f[d] : d \in D} = All(q, D)
    BY <2>1 DEF All
  <2>3. JoinAll({f[d] : d \in D}) \in Clock
    BY <1>1, JoinAllFacts
  <2> QED BY <1>7, <2>2, <2>3
<1>10. PICK U : U = known[c] \cup T /\ known[c] \subseteq U
  OBVIOUS
<1>11. PICK r \in Clock : r = Join(p, j) /\ Leq(p, r)
  BY <1>9, JoinFacts
<1>12. mergedKnown' = [mergedKnown EXCEPT ![k] = T] /\ mergedClock' = [mergedClock EXCEPT ![k] = j]
  <2>1. All(S, D) = {known[d] : d \in D}
    BY <1>5 DEF All
  <2>2. All(q, D) = {IF d = c THEN AtArrival(c) ELSE clock[d] : d \in D}
    BY <1>4, <1>6 DEF All
  <2>3. mergedKnown' = [mergedKnown EXCEPT ![k] = UNION {known[d] : d \in D}]
    BY <1>2, <1>3 DEF BarrierFires
  <2>4. mergedClock' = [mergedClock EXCEPT ![k] =
                          JoinAll({IF d = c THEN AtArrival(c) ELSE clock[d] : d \in D})]
    BY <1>2, <1>3 DEF BarrierFires
  <2> QED BY <1>7, <2>1, <2>2, <2>3, <2>4
<1>13. known' = [known EXCEPT ![c] = U]
  <2>1. known' = [known EXCEPT ![c] = @ \cup mergedKnown'[k]]
    BY <1>2 DEF BarrierFires
  <2>2. mergedKnown'[k] = T
    BY <1>12 DEF Books, MergedInv
  <2> QED BY <1>10, <2>1, <2>2
<1>14. clock' = [clock EXCEPT ![c] = r]
  <2>1. All(q, D) = {IF d = c THEN AtArrival(c) ELSE clock[d] : d \in D}
    BY <1>4, <1>6 DEF All
  <2>2. clock' = [clock EXCEPT ![c] = Join(AtArrival(c),
                    JoinAll({IF d = c THEN AtArrival(c) ELSE clock[d] : d \in D}))]
    BY <1>2, <1>3 DEF BarrierFires
  <2> QED BY <1>4, <1>7, <1>11, <2>1, <2>2
<1>15. h \in Clock /\ h[c] = r[c] /\ \A d \in Core : Front[d] <= h[d]
  <2>1. clock \in [Core -> Clock] /\ Leq(clock[c], r)
    <3>1. clock \in [Core -> Clock]
      BY BookClocks
    <3> QED BY <1>4, <1>11, <3>1, LeqTransitive
  <2> QED BY <1>1, <1>14, <2>1, FrontStep
<1>16. Stamped(Core, L) /\ Published(L, h) /\ \A d \in Core : KnownAt(L, h, d)
  <2>1. Stamped(Core, L)
    BY DEF PreciseInv
  <2>2. Published(L, h) /\ \A d \in Core : Exact(Core, L, known[d], clock[d], h)
    BY <1>15, <2>1, PreciseGrows
  <2> QED BY <2>1, <2>2 DEF PreciseInv, KnownExact, KnownAt
<1>17. Exact(Core, L, known[c], p, h)
  <2>1. Exact(Core, L, known[c], clock[c], h) /\ Mine(L, c, known[c])
    BY <1>16 DEF KnownAt
  <2>2. CASE p = clock[c]
    BY <2>1, <2>2
  <2>3. CASE p = Ticked(clock[c], c)
    <3>1. Ticked(clock[c], c)[c] <= h[c] /\ clock[c] \in Clock
      BY <1>11, <1>15, <2>3, BookClocks DEF Leq
    <3>2. Exact(Core, L, known[c], Ticked(clock[c], c), h)
      BY <1>16, <2>1, <3>1, ExactTick
    <3> QED BY <2>3, <3>2
  <2> QED BY <1>4, <2>2, <2>3
<1>18. Exact(Core, L, T, j, h)
  <2>1. ASSUME NEW d \in D PROVE q[d] \in Clock /\ Exact(Core, L, S[d], q[d], h)
    <3>1. S[d] = known[d] /\ q[d] \in Clock /\ d \in Core
      BY <1>5, <1>8
    <3>2. CASE d = c
      <4>1. q[d] = p
        BY <1>6, <3>2
      <4> QED BY <1>17, <3>1, <3>2, <4>1
    <3>3. CASE d # c
      <4>1. q[d] = clock[d]
        BY <1>6, <3>3
      <4> QED BY <1>16, <3>1, <4>1 DEF KnownAt
    <3> QED BY <3>2, <3>3
  <2>2. Exact(Core, L, UNION All(S, D), JoinAll(All(q, D)), h)
    BY <1>1, <1>15, <1>16, <2>1, ExactJoinAll
  <2> QED BY <1>7, <2>2
<1>19. Exact(Core, L, U, r, h)
  <2>1. Exact(Core, L, known[c] \cup T, Join(p, j), h)
    BY <1>9, <1>16, <1>17, <1>18, ExactJoin
  <2> QED BY <1>10, <1>11, <2>1
<1>20. KnownExact(L, h)' /\ \A d \in Core : known[d] \subseteq known'[d]
  <2>1. Mine(L, c, U)
    BY <1>10, <1>16 DEF KnownAt, Mine
  <2> QED BY <1>1, <1>10, <1>13, <1>14, <1>16, <1>19, <2>1, LearnPrecise
<1>21. Published(L, h)'
  <2>1. UNCHANGED << pub, lanePub, lockKnown, aicClock, aivClock, sameKindClock, lockClock >>
        /\ Core' = Core /\ (Mixed <=> Mixed')
    BY <1>1, SameLaunch DEF BarrierFires
  <2>2. \A k1 \in FlagKey : \A n \in Kind : SetClock(k1, n)' = SetClock(k1, n)
    BY <2>1 DEF SetClock
  <2>3. SetsExact(L, h)'
    BY <1>16, <2>1, <2>2 DEF Published, SetsExact, Union
  <2>4. LanesExact(L, h)' /\ HandedExact(L, h)'
    BY <1>16, <2>1 DEF Published, LanesExact, HandedExact, Union
  <2>5. LanesInOrder'
    <3>1. \A k1 \in FlagKey : \A d \in Core : LastHasAll(lanePub[k1][d], known'[d])
      BY <1>16, <1>20 DEF Published, LanesInOrder, LastHasAll
    <3> QED BY <2>1, <3>1 DEF LanesInOrder, LastHasAll
  <2>6. MergedExact(L, h)'
    <3>1. ASSUME NEW b \in BarrierKey PROVE Exact(Core, L, mergedKnown'[b], mergedClock'[b], h)
      <4>1. /\ mergedKnown'[b] = IF b = k THEN T ELSE mergedKnown[b]
            /\ mergedClock'[b] = IF b = k THEN j ELSE mergedClock[b]
        BY <1>12 DEF Books, MergedInv
      <4> QED BY <1>16, <1>18, <4>1 DEF Published, MergedExact
    <3> QED BY <2>1, <3>1 DEF MergedExact
  <2> QED BY <2>3, <2>4, <2>5, <2>6 DEF Published
<1> QED BY <1>15, <1>20, <1>21

(* the others take the merge over.                                         *)
LEMMA ReleasedPrecise ==
  ASSUME TypeOK, Books(log, Executed), PreciseInv, NEW L, L = log, NEW h, h = Front',
         NEW c \in Core, BarrierReleased(c)
  PROVE  /\ h \in Clock /\ \A d \in Core : Front[d] <= h[d]
         /\ KnownExact(L, h)' /\ Published(L, h)'
<1>1. launch' = launch /\ SyncBlockReleased(c) /\ IsLaunch(launch)
  BY DEF BarrierReleased, SyncBlockReleased, Turn, TypeOK
<1>2. PICK k \in BarrierKey : k = BarrierKeyOf(c)
  BY <1>1, BarrierKeyFacts DEF SyncBlockReleased, TypeOK
<1>3. /\ UNCHANGED << pub, lanePub, mergedKnown, lockKnown >>
      /\ UNCHANGED << aicClock, aivClock, sameKindClock, mergedClock, lockClock >>
  BY DEF BarrierReleased
<1>4. PICK S : S = mergedKnown[k]
  OBVIOUS
<1>5. PICK q \in Clock : q = mergedClock[k]
  BY BookClocks
<1>6. Exact(Core, L, S, q, Front)
  BY <1>4, <1>5 DEF PreciseInv, Published, MergedExact
<1>7. /\ known' = [known EXCEPT ![c] = known[c] \cup S]
      /\ clock' = [clock EXCEPT ![c] = Join(clock[c], q)]
  BY <1>2, <1>4, <1>5 DEF BarrierReleased
<1> QED BY <1>1, <1>3, <1>6, <1>7, LearnJoined

(* A lock brings what its holders have left with it,                       *)
LEMMA TakePrecise ==
  ASSUME TypeOK, Books(log, Executed), PreciseInv, NEW L, L = log, NEW h, h = Front',
         NEW c \in Core, TakeLock(c)
  PROVE  /\ h \in Clock /\ \A d \in Core : Front[d] <= h[d]
         /\ KnownExact(L, h)' /\ Published(L, h)'
<1>1. launch' = launch /\ SyncBlockLock(c) /\ IsLaunch(launch)
  BY DEF TakeLock, SyncBlockLock, Turn, TypeOK
<1>2. PICK l \in Lock : l = Op(c).lock
  BY <1>1, LockFacts DEF SyncBlockLock, TypeOK
<1>3. /\ UNCHANGED << pub, lanePub, mergedKnown, lockKnown >>
      /\ UNCHANGED << aicClock, aivClock, sameKindClock, mergedClock, lockClock >>
  BY DEF TakeLock
<1>4. PICK S : S = lockKnown[l]
  OBVIOUS
<1>5. PICK q \in Clock : q = lockClock[l]
  BY BookClocks
<1>6. Exact(Core, L, S, q, Front)
  BY <1>4, <1>5 DEF PreciseInv, Published, HandedExact
<1>7. /\ known' = [known EXCEPT ![c] = known[c] \cup S]
      /\ clock' = [clock EXCEPT ![c] = Ticked(Join(clock[c], q), c)]
  BY <1>2, <1>4, <1>5 DEF TakeLock
<1> QED BY <1>1, <1>3, <1>6, <1>7, LearnJoined

(* and takes along what the one that gives it back knows.                  *)
LEMMA GivePrecise ==
  ASSUME TypeOK, Books(log, Executed), PreciseInv, NEW L, L = log, NEW h, h = Front',
         NEW c \in Core, GiveLock(c)
  PROVE  /\ h \in Clock /\ \A d \in Core : Front[d] <= h[d]
         /\ KnownExact(L, h)' /\ Published(L, h)'
<1>1. launch' = launch /\ ReleaseLock(c) /\ IsLaunch(launch)
  BY DEF GiveLock, ReleaseLock, Turn, TypeOK
<1>2. PICK l \in Lock : l = Op(c).lock
  BY <1>1, LockFacts DEF ReleaseLock, TypeOK
<1>3. /\ UNCHANGED << pub, lanePub, mergedKnown, mergedClock, aicClock, aivClock, sameKindClock >>
      /\ UNCHANGED known /\ clock' = [clock EXCEPT ![c] = Ticked(clock[c], c)]
  BY DEF GiveLock
<1>4. PICK S : S = known[c] /\ known[c] \subseteq S
  OBVIOUS
<1>5. PICK q \in Clock : q = Ticked(clock[c], c) /\ clock[c] \in Clock /\ Leq(clock[c], clock[c])
  <2>1. clock[c] \in Clock
    BY BookClocks
  <2> QED BY <2>1, TickFacts
<1>6. known' = [known EXCEPT ![c] = S] /\ clock' = [clock EXCEPT ![c] = q]
  BY <1>3, <1>4, <1>5 DEF Books, KnownInv
<1>7. /\ h \in Clock /\ \A d \in Core : Front[d] <= h[d]
      /\ KnownExact(L, h)' /\ \A d \in Core : known[d] \subseteq known'[d]
  <2>1. Exact(Core, L, S, clock[c], Front)
    BY <1>4 DEF PreciseInv, KnownExact, KnownAt
  <2> QED BY <1>1, <1>3, <1>4, <1>5, <1>6, <2>1, LearnTicked
<1>8. Stamped(Core, L) /\ Published(L, h)
  <2>1. Stamped(Core, L)
    BY DEF PreciseInv
  <2> QED BY <1>7, <2>1, PreciseGrows
<1>9. Core' = Core /\ (Mixed <=> Mixed')
  BY <1>1, SameLaunch
<1>10. Exact(Core, L, S, q, h)
  <2>1. clock'[c] = q /\ known'[c] = S
    BY <1>6 DEF Books, KnownInv
  <2>2. Exact(Core, L, known'[c], clock'[c], h)
    BY <1>7, <1>9 DEF KnownExact, KnownAt
  <2> QED BY <2>1, <2>2
<1>11. PICK p \in Clock : p = lockClock[l]
  BY BookClocks
<1>12. PICK K : K = lockKnown[l]
  OBVIOUS
<1>13. PICK r \in Clock : r = Join(p, q)
  BY JoinFacts
<1>14. Exact(Core, L, K \cup S, r, h)
  <2>1. Exact(Core, L, K, p, h)
    BY <1>8, <1>11, <1>12 DEF Published, HandedExact
  <2> QED BY <1>8, <1>10, <1>13, <2>1, ExactJoin
<1>15. HandedExact(L, h)'
  <2>1. lockKnown' = [lockKnown EXCEPT ![l] = K \cup S]
    BY <1>2, <1>4, <1>12 DEF GiveLock
  <2>2. lockClock' = [lockClock EXCEPT ![l] = r]
    <3>1. clock'[c] = q
      BY <1>6 DEF Books, KnownInv
    <3>2. lockClock' = [lockClock EXCEPT ![l] = Join(@, clock'[c])]
      BY <1>2 DEF GiveLock
    <3> QED BY <1>11, <1>13, <3>1, <3>2
  <2>3. ASSUME NEW m \in Lock PROVE Exact(Core, L, lockKnown'[m], lockClock'[m], h)
    <3>1. /\ lockKnown'[m] = IF m = l THEN K \cup S ELSE lockKnown[m]
          /\ lockClock'[m] = IF m = l THEN r ELSE lockClock[m]
      BY <2>1, <2>2 DEF Books, HandedInv
    <3> QED BY <1>8, <1>14, <3>1 DEF Published, HandedExact
  <2> QED BY <1>9, <2>3 DEF HandedExact
<1>16. Published(L, h)'
  <2>1. \A k \in FlagKey : \A n \in Kind : SetClock(k, n)' = SetClock(k, n)
    BY <1>3, <1>9 DEF SetClock
  <2>2. SetsExact(L, h)'
    BY <1>3, <1>8, <1>9, <2>1 DEF Published, SetsExact, Union
  <2>3. LanesExact(L, h)'
    BY <1>3, <1>8, <1>9 DEF Published, LanesExact, Union
  <2>4. LanesInOrder'
    BY <1>3, <1>8, <1>9 DEF Published, LanesInOrder, LastHasAll
  <2>5. MergedExact(L, h)'
    BY <1>3, <1>8, <1>9 DEF Published, MergedExact
  <2> QED BY <1>15, <2>2, <2>3, <2>4, <2>5 DEF Published
<1> QED BY <1>7, <1>16

(* What moves no clock teaches nobody.                                     *)
LEMMA QuietPrecise ==
  ASSUME Books(log, Executed), PreciseInv, NEW L, L = log, NEW h, h = Front',
         (\E c \in Core : DrainAtReturn(c)) \/ Other \/ UNCHANGED raceVars
  PROVE  /\ h \in Clock /\ \A d \in Core : Front[d] <= h[d]
         /\ KnownExact(L, h)' /\ Published(L, h)'
<1>1. launch' = launch
  BY DEF DrainAtReturn, Return, Other, raceVars, vars, SyncBlockWaitParks, SyncBlockLockParks,
         WaitFlagParks, Fail, Finish, Retry, Deadlock, Turn
<1>2. UNCHANGED << clocks, history >>
  BY DEF DrainAtReturn, Other, raceVars
<1>3. /\ UNCHANGED << pub, lanePub, mergedKnown, lockKnown >>
      /\ UNCHANGED << aicClock, aivClock, sameKindClock, mergedClock, lockClock >>
      /\ UNCHANGED << known, clock >>
  BY <1>2 DEF clocks, history
<1>4. Core' = Core
  BY <1>1, SameLaunch
<1>5. h = Front /\ h \in Clock /\ \A d \in Core : Front[d] <= h[d]
  <2>1. h = Front /\ Front \in Clock
    BY <1>3, <1>4, BookClocks DEF Front
  <2> QED BY <2>1 DEF Clock
<1>6. KnownExact(L, h)'
  BY <1>3, <1>4, <1>5 DEF PreciseInv, KnownExact, KnownAt
<1>7. Published(L, h)'
  BY <1>1, <1>3, <1>5, PublishedKept DEF PreciseInv
<1> QED BY <1>5, <1>6, <1>7

(* An issue stamps its access past all that anybody's clock has reached,   *)
(* and what is known to its core is all that the stamp is past.            *)
LEMMA IssuePrecise ==
  ASSUME TypeOK, Books(log, Executed), LogInv(log, Executed), PreciseInv,
         NEW L, L = log', NEW h, h = Front', NEW c \in Core, Issue(c)
  PROVE  /\ KnownExact(L, h)' /\ Published(L, h)' /\ LogExact(Core, L, h) /\ Stamped(Core, L)
<1>1. launch' = launch
  BY Zenon DEF Issue, Compute, Turn
<1>2. PICK q \in Clock : q = Ticked(clock[c], c) /\ clock[c] \in Clock /\ Leq(clock[c], q)
                        /\ q[c] = clock[c][c] + 1 /\ clock[c][c] \in Nat
  <2>1. clock[c] \in Clock
    BY BookClocks
  <2>2. Ticked(clock[c], c)[c] = clock[c][c] + 1 /\ clock[c][c] \in Nat
    BY <2>1 DEF Ticked, Clock
  <2> QED BY <2>1, <2>2, TickFacts
<1>3. PICK z : /\ L = log \cup {z} /\ z.record.core = c /\ z.record.clock = q
               /\ z.past = known[c] /\ Id(z) = << c, pc[c] >> /\ Own(z) = q[c]
  <2>1. PICK a : a = launch.access[c][pc[c]]
    OBVIOUS
  <2>2. PICK r : r = [core |-> c, clock |-> q, pos |-> pc[c], class |-> a.class]
    OBVIOUS
  <2>3. r.core = c /\ r.clock = q /\ r.pos = pc[c]
    BY <2>2
  <2>4. PICK z : z = [access |-> a, record |-> r, past |-> known[c]]
    BY Zenon
  <2>5. z.record = r /\ z.past = known[c]
    BY <2>4
  <2>6. L = log \cup {z}
    BY <1>2, <2>1, <2>2, <2>4, Zenon DEF Issue, Stamp
  <2> QED BY <2>3, <2>5, <2>6 DEF Id, Own
<1>4. PICK T : T = known[c] \cup {Id(z)} /\ known[c] \subseteq T /\ Id(z) \in T
  <2>1. known[c] \subseteq known[c] \cup {Id(z)} /\ Id(z) \in known[c] \cup {Id(z)}
    OBVIOUS
  <2> QED BY <2>1, Zenon
<1>5. known' = [known EXCEPT ![c] = T] /\ clock' = [clock EXCEPT ![c] = q]
  BY <1>2, <1>3, <1>4, Zenon DEF Issue
<1>6. h \in Clock /\ h[c] = q[c] /\ \A d \in Core : Front[d] <= h[d]
  BY <1>1, <1>2, <1>5, BookClocks, FrontStep
<1>7. Stamped(Core, L)
  <2>1. z.record.core \in Core /\ Own(z) \in Nat \ {0} /\ z.record.clock \in [Core -> Nat]
    BY <1>2, <1>3 DEF Clock
  <2> QED BY <1>3, <2>1 DEF PreciseInv, Stamped
<1>8. Front[c] = clock[c][c] /\ Front[c] < Own(z)
  BY <1>2, <1>3 DEF Front
<1>9. Published(L, h) /\ \A d \in Core : Exact(Core, L, known[d], clock[d], h)
  <2>1. \A x \in L : x \in log \/ Front[x.record.core] < Own(x)
    BY <1>3, <1>8
  <2> QED BY <1>6, <1>7, <2>1, PreciseGrows
<1>10. \A d \in Core : Mine(log, d, known[d])
  BY DEF PreciseInv, KnownExact, KnownAt
<1>11. Mine(L, c, T)
  BY <1>3, <1>4, <1>10 DEF Mine
<1>12. Exact(Core, L, T, q, h)
  <2>1. Exact(Core, L, T, clock[c], h)
    BY <1>4, <1>9, ExactMore
  <2>2. Ticked(clock[c], c)[c] <= h[c]
    BY <1>2, <1>6 DEF Clock
  <2>3. Exact(Core, L, T, Ticked(clock[c], c), h)
    BY <1>2, <1>7, <1>11, <2>1, <2>2, ExactTick
  <2> QED BY <1>2, <2>3
<1>13. KnownExact(L, h)' /\ \A d \in Core : known[d] \subseteq known'[d]
  <2>1. \A d \in Core : d # c => KnownAt(L, h, d)
    BY <1>3, <1>9, <1>10 DEF KnownAt, Mine
  <2> QED BY <1>1, <1>4, <1>5, <1>11, <1>12, <2>1, LearnPrecise
<1>14. Published(L, h)'
  <2>1. /\ UNCHANGED << pub, lanePub, mergedKnown, lockKnown >>
        /\ UNCHANGED << aicClock, aivClock, sameKindClock, mergedClock, lockClock >>
    BY Zenon DEF Issue
  <2> QED BY <1>1, <1>9, <1>13, <2>1, PublishedKept
<1>15. LogExact(Core, L, h)
  <2>1. Exact(Core, log, known[c], q, h)
    <3>1. Stamped(Core, log) /\ Exact(Core, log, known[c], clock[c], h)
      BY <1>3, <1>9 DEF PreciseInv, Exact
    <3>2. Mine(log, c, known[c]) /\ Ticked(clock[c], c)[c] <= h[c]
      BY <1>2, <1>6, <1>10 DEF Clock
    <3>3. Exact(Core, log, known[c], Ticked(clock[c], c), h)
      BY <1>2, <3>1, <3>2, ExactTick
    <3> QED BY <1>2, <3>3
  <2>2. ASSUME NEW d \in Core PROVE z.record.clock[d] <= h[d]
    BY <1>3, <2>1 DEF Exact
  <2>3. ASSUME NEW x \in L, x # z, Own(x) <= z.record.clock[x.record.core]
        PROVE  Id(x) \in z.past
    BY <1>3, <2>1, <2>3 DEF Exact
  <2>4. ASSUME NEW y \in log, NEW d \in Core PROVE y.record.clock[d] <= h[d]
    <3>1. y.record.clock[d] <= Front[d] /\ y.record.clock[d] \in Nat
      BY DEF PreciseInv, LogExact, Stamped
    <3>2. Front[d] \in Nat /\ h[d] \in Nat /\ Front[d] <= h[d]
      BY <1>6, BookClocks DEF Clock
    <3> QED BY <3>1, <3>2
  <2>5. ASSUME NEW y \in log, NEW x \in L, x # y, Own(x) <= y.record.clock[x.record.core]
        PROVE  Id(x) \in y.past
    <3>1. CASE x \in log
      BY <2>5, <3>1 DEF PreciseInv, LogExact
    <3>2. CASE x = z
      <4>1. y.record.clock[c] <= Front[c] /\ y.record.clock[c] \in Nat
        BY DEF PreciseInv, LogExact, Stamped
      <4>2. Own(z) <= y.record.clock[c]
        BY <1>3, <2>5, <3>2
      <4> QED BY <1>2, <1>3, <1>8, <4>1, <4>2
    <3> QED BY <1>3, <3>1, <3>2
  <2> QED BY <1>3, <2>2, <2>3, <2>4, <2>5 DEF LogExact
<1> QED BY <1>7, <1>13, <1>14, <1>15

-----------------------------------------------------------------------------
(* What has been shown of the log and the clocks after the step is what    *)
(* the invariant says after it.                                            *)
LEMMA AfterPrecise ==
  ASSUME launch' = launch, NEW L, L = log', NEW h, h = Front',
         KnownExact(L, h)', Published(L, h)', LogExact(Core, L, h), Stamped(Core, L)
  PROVE  PreciseInv'
<1>1. Core' = Core
  BY SameLaunch
<1>2. LogExact(Core, L, h)' /\ Stamped(Core, L)'
  BY <1>1 DEF LogExact, Stamped, Own, Id
<1>3. KnownExact(log, Front)'
  BY DEF KnownExact, KnownAt
<1>4. Published(log, Front)'
  BY DEF Published, SetsExact, LanesExact, MergedExact, HandedExact
<1>5. LogExact(Core, log, Front)' /\ Stamped(Core, log)'
  BY <1>2
<1> QED BY <1>3, <1>4, <1>5 DEF PreciseInv

(* The invariant is inductive, on the flags' being used one set at a time. *)
LEMMA NextPrecise ==
  RaceInv /\ PreciseInv /\ OneSetAtATime /\ [RaceNext]_raceVars => PreciseInv'
<1> SUFFICES ASSUME RaceInv, PreciseInv, OneSetAtATime, [RaceNext]_raceVars PROVE PreciseInv'
  OBVIOUS
<1>1. TypeOK /\ Books(log, Executed) /\ LogInv(log, Executed)
  BY DEF RaceInv
<1>2. launch' = launch
  BY <1>1, RaceStepGrows
<1>3. PICK L : L = log'
  OBVIOUS
<1>4. PICK h : h = Front'
  OBVIOUS
<1>5. ASSUME NEW c \in Core, Issue(c) PROVE PreciseInv'
  <2>1. KnownExact(L, h)' /\ Published(L, h)' /\ LogExact(Core, L, h) /\ Stamped(Core, L)
    BY <1>1, <1>3, <1>4, <1>5, IssuePrecise
  <2> QED BY <1>2, <1>3, <1>4, <2>1, AfterPrecise
<1>6. ASSUME \/ \E c \in Core : \/ Publish(c) \/ Acquire(c) \/ BarrierParks(c) \/ BarrierFires(c)
                                \/ BarrierReleased(c) \/ TakeLock(c) \/ GiveLock(c)
                                \/ DrainAtReturn(c)
             \/ Other \/ UNCHANGED raceVars
      PROVE  PreciseInv'
  <2>1. L = log
    BY <1>3, <1>6 DEF Publish, Acquire, BarrierParks, BarrierFires, BarrierReleased,
           TakeLock, GiveLock, DrainAtReturn, Other, raceVars, history
  <2>2. /\ h \in Clock /\ \A d \in Core : Front[d] <= h[d]
        /\ KnownExact(L, h)' /\ Published(L, h)'
    BY <1>1, <1>4, <1>6, <2>1, PublishPrecise, AcquirePrecise, ParksPrecise, FiresPrecise,
       ReleasedPrecise, TakePrecise, GivePrecise, QuietPrecise
  <2>3. LogExact(Core, L, h) /\ Stamped(Core, L)
    <3>1. Stamped(Core, L) /\ LogExact(Core, L, Front)
      BY <2>1 DEF PreciseInv
    <3>2. ASSUME NEW y \in L, NEW d \in Core PROVE y.record.clock[d] <= h[d]
      <4>1. y.record.clock[d] <= Front[d] /\ y.record.clock[d] \in Nat
        BY <3>1 DEF LogExact, Stamped
      <4>2. Front[d] \in Nat /\ h[d] \in Nat /\ Front[d] <= h[d]
        BY <1>1, <2>2, BookClocks DEF Clock
      <4> QED BY <4>1, <4>2
    <3> QED BY <3>1, <3>2 DEF LogExact
  <2> QED BY <1>2, <1>3, <1>4, <2>2, <2>3, AfterPrecise
<1> QED BY <1>5, <1>6 DEF RaceNext

(* At the start no clock has moved.                                        *)
LEMMA InitPrecise == RaceInit => PreciseInv
<1> SUFFICES ASSUME RaceInit PROVE PreciseInv
  OBVIOUS
<1>1. PICK z \in Clock : z = Zero /\ \A d \in Core : z[d] = 0
  <2>1. Zero \in Clock /\ \A d \in Core : Zero[d] = 0
    BY DEF Zero, Clock
  <2> QED BY <2>1, Zenon
<1>2. log = {} /\ clock = [d \in Core |-> z]
  BY <1>1 DEF RaceInit
<1>3. PICK h \in Clock : h = Front /\ \A d \in Core : h[d] = 0
  BY <1>1, <1>2 DEF Front, Clock
<1>4. \A S : Exact(Core, log, S, z, h)
  BY <1>1, <1>2, <1>3 DEF Exact
<1>5. KnownExact(log, h)
  BY <1>2, <1>4 DEF KnownExact, KnownAt, Mine
<1>6. SetsExact(log, h)
  <2>1. \A k \in FlagKey : \A n \in Kind : SetClock(k, n) = z
    BY <1>1 DEF RaceInit, SetClock
  <2> QED BY <1>4, <2>1 DEF SetsExact
<1>7. LanesExact(log, h)
  BY <1>1, <1>4 DEF LanesExact, RaceInit
<1>8. LanesInOrder
  <2>1. \A k \in FlagKey : \A d \in Core : lanePub[k][d] = << >>
    BY DEF RaceInit
  <2>2. Len(<< >>) = 0 /\ 1 .. 0 = {}
    OBVIOUS
  <2> QED BY <2>1, <2>2 DEF LanesInOrder, LastHasAll
<1>9. MergedExact(log, h) /\ HandedExact(log, h)
  BY <1>1, <1>4 DEF MergedExact, HandedExact, RaceInit
<1>10. LogExact(Core, log, h) /\ Stamped(Core, log)
  BY <1>2 DEF LogExact, Stamped
<1> QED BY <1>3, <1>5, <1>6, <1>7, <1>8, <1>9, <1>10 DEF PreciseInv, Published

(* Where every flag is used one set at a time, two accesses whose clocks   *)
(* are ordered are ordered by the program: by program order, by a set and  *)
(* the wait that takes it, by a barrier or by the hand-over of a lock, as  *)
(* docs/Architecture.md has it of the clocks effects are stamped with.     *)
THEOREM ClocksArePrecise == RaceSpec /\ []OneSetAtATime => []ClocksOrderNothingElse
<1>1. RaceInit => PreciseInv
  BY InitPrecise
<1>2. RaceInv /\ PreciseInv /\ OneSetAtATime /\ [RaceNext]_raceVars => PreciseInv'
  BY NextPrecise
<1>3. PreciseInv => ClocksOrderNothingElse
  <2> SUFFICES ASSUME PreciseInv, NEW x \in log, NEW y \in log, x # y,
                      HappensBefore(x.record.clock, y.record.clock)
               PROVE  Before(x, y)
    BY DEF ClocksOrderNothingElse
  <2>1. PICK c \in Core : c = x.record.core
    BY DEF PreciseInv, Stamped
  <2>2. x.record.clock \in Clock /\ y.record.clock \in Clock
    BY DEF PreciseInv, Stamped, Clock
  <2>3. Own(x) <= y.record.clock[x.record.core]
    BY <2>1, <2>2, HappensBeforeIsLeq DEF Leq, Own
  <2> QED BY <2>3 DEF PreciseInv, LogExact, Before
<1> QED BY <1>1, <1>2, <1>3, RaceInductive, PTL DEF RaceSpec

-----------------------------------------------------------------------------
(* No race is missed.  D is what has been committed.  An access commits in *)
(* line with another if it is the later one of their core, or if the other,*)
(* of another core, does not know it.                                      *)
InLine(q, r) ==
  IF q.core = r.core THEN Leq(q.clock, r.clock) ELSE ~ Leq(r.clock, q.clock)

OnByte(D, b) == {x \in D : x.access.byte = b}

(* An entry stands for the committed accesses to its byte: what it has is  *)
(* of them, and each of them is before what it has.                        *)
Covers(entry, x) ==
  \/ entry.lastWrite # None /\ Leq(x.record.clock, entry.lastWrite.clock)
  \/ ~ x.access.isWrite /\ \E i \in DOMAIN entry.reads : Leq(x.record.clock, entry.reads[i].clock)

StandsFor(entry, B) ==
  /\ entry.lastWrite # None => \E x \in B : x.record = entry.lastWrite
  /\ \A i \in DOMAIN entry.reads : \E x \in B : x.record = entry.reads[i]
  /\ \A x \in B : Covers(entry, x)

ClashesOrdered(B) ==
  \A x, y \in B : Clash(x, y) =>
    Leq(x.record.clock, y.record.clock) \/ Leq(y.record.clock, x.record.clock)

(* A byte of plain accesses without a report.                              *)
Quiet(R, b, B) == (\A r \in R : r.byte # b) /\ \A x \in B : x.access.class = "plain"

Clear(D, m) ==
  \A b \in Byte : Quiet(m.races, b, OnByte(D, b)) =>
    StandsFor(m.hist[b], OnByte(D, b)) /\ ClashesOrdered(OnByte(D, b))

-----------------------------------------------------------------------------
(* The invariant.  L is the log and Q the queues: an access is committed   *)
(* once no queue holds its effect.                                         *)
Waits(Q, r) ==
  \E c \in DOMAIN Q : \E p \in 1 .. NumPipes : \E i \in 1 .. Len(Q[c][p]) : Q[c][p][i].record = r

Committed(L, Q) == {x \in L : ~ Waits(Q, x.record)}

Empty(Q, c) == \A p \in 1 .. NumPipes : Q[c][p] = << >>

IdsDiffer(L) == \A x, y \in L : Id(x) = Id(y) => x = y

(* On a byte the effects of a core wait in one queue, in order.            *)
QueueOrder(q) ==
  \A p, t \in 1 .. NumPipes : \A i \in 1 .. Len(q[p]) : \A j \in 1 .. Len(q[t]) :
    q[p][i].byte = q[t][j].byte =>
      p = t /\ (i < j => Leq(q[p][i].record.clock, q[t][j].record.clock))

CommittedFirst(L, Q, c) ==
  \A p \in 1 .. NumPipes : \A i \in 1 .. Len(Q[c][p]) : \A x \in Committed(L, Q) :
    x.record.core = c /\ x.access.byte = Q[c][p][i].byte =>
      Leq(x.record.clock, Q[c][p][i].record.clock)

QueuesOf(L, Q, c) ==
  /\ \A p \in 1 .. NumPipes : \A i \in 1 .. Len(Q[c][p]) : Q[c][p][i].record.core = c
  /\ QueueOrder(Q[c]) /\ CommittedFirst(L, Q, c)
  /\ launch.inOrder => Empty(Q, c)

QueueInv(L, Q) == \A c \in Core : QueuesOf(L, Q, c)

(* The histories stand for what the queues no longer hold.                 *)
Store(L, Q, h, t) ==
  IdsDiffer(L) /\ QueueInv(L, Q) /\ Clear(Committed(L, Q), [hist |-> h, races |-> t])

(* Nobody but core c knows of position s of c.                             *)
Unshared(s) ==
  /\ \A k \in FlagKey : \A n \in Kind : \A i \in 1 .. Len(pub[k][n]) : s \notin pub[k][n][i]
  /\ \A k \in FlagKey : \A d \in Core : \A i \in 1 .. Len(lanePub[k][d]) : s \notin lanePub[k][d][i]
  /\ \A k \in BarrierKey : s \notin mergedKnown[k]
  /\ \A l \in Lock : s \notin lockKnown[l]

Secret(L, c, s) ==
  /\ \A d \in Core \ {c} : s \notin known[d]
  /\ Unshared(s)
  /\ \A y \in L : y.record.core # c => s \notin y.past

SecretInv(L, Q) ==
  \A c \in Core : \A p \in 1 .. NumPipes : \A i \in 1 .. Len(Q[c][p]) :
    Secret(L, c, << c, Q[c][p][i].record.pos >>)

(* Who has arrived at a barrier has nothing queued.                        *)
Idle(Q) == \A c \in Core : \A k \in BarrierKey : c \in arrived[k] => Empty(Q, c)

(* Who has returned has nothing queued either.                             *)
Over(Q) == \A c \in Core : status[c] = "Done" => Empty(Q, c)

ReturnInv ==
  /\ outcome = "running" => \A c \in Core : status[c] # "Failed"
  /\ outcome = "finished" => \A c \in Core : status[c] = "Done"

FoundInv ==
  Store(log, queue, hist, races) /\ SecretInv(log, queue)
  /\ ThereInv /\ Idle(queue) /\ Over(queue) /\ ReturnInv

-----------------------------------------------------------------------------
RecordsTyped(L) == \A x \in L : x.record \in AccessRecord

(* A new access that commits in line with those on its byte, and meets no  *)
(* conflict, is later than all of them that matter to it.                  *)
LEMMA NoConflictIsLater ==
  ASSUME NEW D, RecordsTyped(D), NEW b, NEW entry \in Entry, StandsFor(entry, OnByte(D, b)),
         NEW r \in AccessRecord, \A x \in OnByte(D, b) : InLine(x.record, r),
         NEW w \in BOOLEAN, ~ Conflict(entry, w, r)
  PROVE  /\ entry.lastWrite # None => Leq(entry.lastWrite.clock, r.clock)
         /\ w => \A i \in DOMAIN entry.reads : Leq(entry.reads[i].clock, r.clock)
         /\ \A x \in OnByte(D, b) : w \/ x.access.isWrite => Leq(x.record.clock, r.clock)
<1>1. PICK B : B = OnByte(D, b)
  OBVIOUS
<1>2. \A x \in B : x.record \in AccessRecord /\ x.record.clock \in Clock
  BY <1>1 DEF OnByte, RecordsTyped, AccessRecord, Clock
<1>3. r.clock \in Clock
  BY DEF AccessRecord, Clock
<1>4. ASSUME NEW x \in B, ~ Races(x.record, r) PROVE Leq(x.record.clock, r.clock)
  <2>1. InLine(x.record, r)
    BY <1>1
  <2>2. CASE x.record.core = r.core
    BY <2>1, <2>2 DEF InLine
  <2>3. CASE x.record.core # r.core
    <3>1. HappensBefore(x.record.clock, r.clock) \/ HappensBefore(r.clock, x.record.clock)
      BY <1>4, <2>3 DEF Races, Concurrent
    <3>2. ~ Leq(r.clock, x.record.clock)
      BY <2>1, <2>3 DEF InLine
    <3> QED BY <1>2, <1>3, <3>1, <3>2, HappensBeforeIsLeq
  <2> QED BY <2>2, <2>3
<1>5. entry.lastWrite # None => Leq(entry.lastWrite.clock, r.clock) /\ entry.lastWrite.clock \in Clock
  <2> SUFFICES ASSUME entry.lastWrite # None
               PROVE  Leq(entry.lastWrite.clock, r.clock) /\ entry.lastWrite.clock \in Clock
    OBVIOUS
  <2>1. PICK x \in B : x.record = entry.lastWrite
    BY <1>1 DEF StandsFor
  <2>2. ~ Races(x.record, r)
    BY <2>1 DEF Conflict, WriteRaces
  <2>3. Leq(x.record.clock, r.clock) /\ x.record.clock \in Clock
    BY <1>2, <1>4, <2>2
  <2> QED BY <2>1, <2>3
<1>6. w => \A i \in DOMAIN entry.reads : Leq(entry.reads[i].clock, r.clock) /\ entry.reads[i].clock \in Clock
  <2> SUFFICES ASSUME w, NEW i \in DOMAIN entry.reads
               PROVE  Leq(entry.reads[i].clock, r.clock) /\ entry.reads[i].clock \in Clock
    OBVIOUS
  <2>1. PICK x \in B : x.record = entry.reads[i]
    BY <1>1 DEF StandsFor
  <2>2. ~ Races(x.record, r)
    BY <2>1 DEF Conflict, RacingReads
  <2>3. Leq(x.record.clock, r.clock) /\ x.record.clock \in Clock
    BY <1>2, <1>4, <2>2
  <2> QED BY <2>1, <2>3
<1>7. ASSUME NEW x \in B, w \/ x.access.isWrite PROVE Leq(x.record.clock, r.clock)
  <2>1. Covers(entry, x)
    BY <1>1 DEF StandsFor
  <2>2. CASE entry.lastWrite # None /\ Leq(x.record.clock, entry.lastWrite.clock)
    BY <1>2, <1>3, <1>5, <2>2, LeqTransitive
  <2>3. CASE ~ x.access.isWrite /\ \E i \in DOMAIN entry.reads : Leq(x.record.clock, entry.reads[i].clock)
    <3>1. PICK i \in DOMAIN entry.reads : Leq(x.record.clock, entry.reads[i].clock)
      BY <2>3
    <3>2. Leq(entry.reads[i].clock, r.clock) /\ entry.reads[i].clock \in Clock
      BY <1>6, <1>7, <2>3
    <3> QED BY <1>2, <1>3, <3>1, <3>2, LeqTransitive
  <2> QED BY <2>1, <2>2, <2>3 DEF Covers
<1> QED BY <1>1, <1>5, <1>6, <1>7

(* The entry after it stands for it as well.                               *)
LEMMA TouchedStands ==
  ASSUME launch \in Launches, NEW D, RecordsTyped(D), NEW b, NEW entry \in Entry, StandsFor(entry, OnByte(D, b)),
         NEW y, y.record \in AccessRecord, y.access.byte = b,
         NEW w \in BOOLEAN, w = y.access.isWrite, NEW r \in AccessRecord, r = y.record,
         \A x \in OnByte(D, b) : InLine(x.record, r),
         w => \A x \in OnByte(D, b) : Leq(x.record.clock, r.clock)
  PROVE  StandsFor(Touched(entry, w, r), OnByte(D, b) \cup {y})
<1>1. PICK B : B = OnByte(D, b) /\ \A x \in B : x.record \in AccessRecord /\ x.record.clock \in Clock
  <2>1. \A x \in OnByte(D, b) : x.record \in AccessRecord /\ x.record.clock \in Clock
    BY DEF OnByte, RecordsTyped, AccessRecord, Clock
  <2> QED BY <2>1
<1>2. r.clock \in Clock /\ Leq(r.clock, r.clock) /\ r # None
  <2>1. r.clock \in Clock
    BY DEF AccessRecord, Clock
  <2>2. r # None
    BY NoneAssumption DEF AccessRecord, Core
  <2> QED BY <2>1, <2>2 DEF Leq, Clock
<1>3. CASE w
  <2>1. PICK t : t = Touched(entry, w, r) /\ t.lastWrite = r /\ t.reads = << >>
    <3>1. Touched(entry, w, r).lastWrite = r /\ Touched(entry, w, r).reads = << >>
      BY <1>3 DEF Touched
    <3> QED BY <3>1
  <2>2. DOMAIN t.reads = {}
    BY <2>1
  <2>3. \A x \in B \cup {y} : Leq(x.record.clock, r.clock)
    BY <1>1, <1>2, <1>3
  <2>4. StandsFor(t, B \cup {y})
    BY <1>2, <2>1, <2>2, <2>3 DEF StandsFor, Covers
  <2> QED BY <1>1, <2>1, <2>4
<1>4. CASE ~ w
  <2>1. PICK old \in Seq(AccessRecord) : old = entry.reads
    BY DEF Entry
  <2>2. PICK new \in Seq(AccessRecord) :
          /\ Touched(entry, w, r) = [entry EXCEPT !.reads = new]
          /\ \A i \in DOMAIN new : new[i] = r \/ \E j \in DOMAIN old : new[i] = old[j]
          /\ \E i \in DOMAIN new : new[i] = r
          /\ \A i \in DOMAIN old : i \in DOMAIN new /\ (new[i] = old[i] \/ (new[i] = r /\ old[i].core = r.core))
    <3> DEFINE over == [i \in DOMAIN old |-> IF old[i].core = r.core THEN r ELSE old[i]]
               more == Append(old, r)
    <3>1. CASE \E i \in DOMAIN old : old[i].core = r.core
      <4>1. over \in Seq(AccessRecord) /\ DOMAIN over = DOMAIN old
        OBVIOUS
      <4>2. \A i \in DOMAIN old : over[i] = IF old[i].core = r.core THEN r ELSE old[i]
        OBVIOUS
      <4>3. Touched(entry, w, r) = [entry EXCEPT !.reads = over]
        BY <1>4, <2>1, <3>1 DEF Touched
      <4> HIDE DEF over
      <4> QED BY <3>1, <4>1, <4>2, <4>3
    <3>2. CASE ~ \E i \in DOMAIN old : old[i].core = r.core
      <4>1. /\ more \in Seq(AccessRecord) /\ DOMAIN more = 1 .. (Len(old) + 1)
            /\ DOMAIN old = 1 .. Len(old) /\ Len(old) \in Nat
        OBVIOUS
      <4>2. more[Len(old) + 1] = r /\ \A i \in DOMAIN old : more[i] = old[i]
        OBVIOUS
      <4>3. Touched(entry, w, r) = [entry EXCEPT !.reads = more]
        BY <1>4, <2>1, <3>2 DEF Touched
      <4> HIDE DEF more
      <4>4. \A i \in DOMAIN more : i = Len(old) + 1 \/ i \in DOMAIN old
        BY <4>1
      <4>5. Len(old) + 1 \in DOMAIN more /\ \A i \in DOMAIN old : i \in DOMAIN more
        BY <4>1
      <4> QED BY <4>1, <4>2, <4>3, <4>4, <4>5
    <3> QED BY <3>1, <3>2
  <2>3. PICK t : t = Touched(entry, w, r) /\ t.reads = new /\ t.lastWrite = entry.lastWrite
    <3>1. [entry EXCEPT !.reads = new].reads = new /\ [entry EXCEPT !.reads = new].lastWrite = entry.lastWrite
      BY DEF Entry
    <3> QED BY <2>2, <3>1
  <2>4. \A i \in DOMAIN new : \E x \in B \cup {y} : x.record = new[i]
    <3> SUFFICES ASSUME NEW i \in DOMAIN new PROVE \E x \in B \cup {y} : x.record = new[i]
      OBVIOUS
    <3>1. CASE new[i] = r
      BY <3>1
    <3>2. CASE \E j \in DOMAIN old : new[i] = old[j]
      <4>1. PICK j \in DOMAIN old : new[i] = old[j]
        BY <3>2
      <4>2. \E x \in B : x.record = old[j]
        BY <1>1, <2>1 DEF StandsFor
      <4> QED BY <4>1, <4>2
    <3> QED BY <2>2, <3>1, <3>2
  <2>5. ASSUME NEW x \in B PROVE Covers(t, x)
    <3>1. Covers(entry, x)
      BY <1>1 DEF StandsFor
    <3>2. CASE entry.lastWrite # None /\ Leq(x.record.clock, entry.lastWrite.clock)
      BY <2>3, <3>2 DEF Covers
    <3>3. CASE ~ x.access.isWrite /\ \E i \in DOMAIN entry.reads : Leq(x.record.clock, entry.reads[i].clock)
      <4>1. PICK i \in DOMAIN old : Leq(x.record.clock, old[i].clock)
        BY <2>1, <3>3
      <4>2. CASE new[i] = old[i]
        BY <2>2, <2>3, <3>3, <4>1, <4>2 DEF Covers
      <4>3. CASE new[i] = r /\ old[i].core = r.core
        <5>1. PICK v \in B : v.record = old[i]
          BY <1>1, <2>1 DEF StandsFor
        <5>2. InLine(v.record, r)
          BY <1>1
        <5>3. Leq(old[i].clock, r.clock) /\ old[i].clock \in Clock
          BY <1>1, <4>3, <5>1, <5>2 DEF InLine
        <5>4. Leq(x.record.clock, r.clock)
          BY <1>1, <1>2, <4>1, <5>3, LeqTransitive
        <5>5. Leq(x.record.clock, new[i].clock)
          BY <4>3, <5>4
        <5> QED BY <2>2, <2>3, <3>3, <5>5 DEF Covers
      <4> QED BY <2>2, <4>2, <4>3
    <3> QED BY <3>1, <3>2, <3>3 DEF Covers
  <2>6. Covers(t, y)
    <3>1. PICK i \in DOMAIN new : new[i] = r
      BY <2>2
    <3>2. Leq(y.record.clock, new[i].clock)
      BY <1>2, <3>1
    <3> QED BY <1>4, <2>3, <3>2 DEF Covers
  <2>7. entry.lastWrite # None => \E x \in B : x.record = entry.lastWrite
    BY <1>1 DEF StandsFor
  <2>8. StandsFor(t, B \cup {y})
    BY <2>3, <2>4, <2>5, <2>6, <2>7 DEF StandsFor
  <2> QED BY <1>1, <2>3, <2>8
<1> QED BY <1>3, <1>4

(* One commit: on its byte a race is reported, or the accesses stay        *)
(* ordered; the other bytes keep their entries.                            *)
LEMMA CommitClears ==
  ASSUME launch \in Launches, NEW L, NEW m, Good(L, m), NEW D, RecordsTyped(D), Clear(D, m),
         NEW e \in Effect, NEW y, y.record = e.record, y.access.byte = e.byte,
         y.access.isWrite = e.isWrite, y.access.class = e.record.class,
         \A x \in OnByte(D, e.byte) : InLine(x.record, e.record)
  PROVE  Clear(D \cup {y}, Commit(m, e))
<1>1. PICK bb, w, r : /\ bb = e.byte /\ w = e.isWrite /\ r = e.record
                      /\ bb \in Byte /\ w \in BOOLEAN /\ r \in AccessRecord
  BY DEF Effect
<1>2. PICK entry \in Entry : entry = m.hist[bb]
  BY <1>1 DEF Good
<1>3. PICK new : new = Touched(entry, w, r)
  OBVIOUS
<1>4. PICK pair : pair = [byte |-> bb, first |-> Culprit(entry, r).first, second |-> r] /\ pair.byte = bb
  <2>1. [byte |-> bb, first |-> Culprit(entry, r).first, second |-> r].byte = bb
    OBVIOUS
  <2> QED BY <2>1
<1>5. PICK n : n = Commit(m, e) /\ n.hist = [m.hist EXCEPT ![bb] = new]
               /\ n.races = IF Conflict(entry, w, r) /\ ~ Exempt(Culprit(entry, r).first, r)
                            THEN m.races \cup {pair} ELSE m.races
  <2>1. Commit(m, e).hist = [m.hist EXCEPT ![bb] = new]
    BY <1>1, <1>2, <1>3 DEF Commit
  <2>2. Commit(m, e).races = IF Conflict(entry, w, r) /\ ~ Exempt(Culprit(entry, r).first, r)
                             THEN m.races \cup {pair} ELSE m.races
    BY <1>1, <1>2, <1>4 DEF Commit
  <2> QED BY <2>1, <2>2
<1>6. /\ n.hist[bb] = new /\ \A b \in Byte : b # bb => n.hist[b] = m.hist[b]
      /\ \A q \in m.races : q \in n.races
  BY <1>1, <1>5 DEF Good
<1> SUFFICES ASSUME NEW b \in Byte, Quiet(n.races, b, OnByte(D \cup {y}, b))
             PROVE  StandsFor(n.hist[b], OnByte(D \cup {y}, b)) /\ ClashesOrdered(OnByte(D \cup {y}, b))
  BY <1>5 DEF Clear
<1>7. Quiet(m.races, b, OnByte(D, b))
  BY <1>6 DEF Quiet, OnByte
<1>8. StandsFor(m.hist[b], OnByte(D, b)) /\ ClashesOrdered(OnByte(D, b))
  BY <1>7 DEF Clear
<1>9. CASE b # bb
  <2>1. OnByte(D \cup {y}, b) = OnByte(D, b)
    BY <1>1, <1>9 DEF OnByte
  <2> QED BY <1>6, <1>8, <1>9, <2>1
<1>10. CASE b = bb
  <2>1. OnByte(D \cup {y}, b) = OnByte(D, b) \cup {y}
    BY <1>1, <1>10 DEF OnByte
  <2>2. ~ Conflict(entry, w, r)
    <3>1. r.class = "plain"
      BY <1>1, <2>1 DEF Quiet
    <3>2. pair \notin n.races
      BY <1>4, <1>10 DEF Quiet
    <3> QED BY <1>5, <3>1, <3>2 DEF Exempt
  <2>3. \A x \in OnByte(D, b) : InLine(x.record, r)
    BY <1>1, <1>10
  <2>4. StandsFor(entry, OnByte(D, b))
    BY <1>2, <1>8, <1>10
  <2>5. /\ w => \A x \in OnByte(D, b) : Leq(x.record.clock, r.clock)
        /\ \A x \in OnByte(D, b) : w \/ x.access.isWrite => Leq(x.record.clock, r.clock)
    BY <1>1, <2>2, <2>3, <2>4, NoConflictIsLater
  <2>6. StandsFor(new, OnByte(D, b) \cup {y})
    BY <1>1, <1>3, <1>10, <2>3, <2>4, <2>5, TouchedStands
  <2>7. ClashesOrdered(OnByte(D, b) \cup {y})
    <3> SUFFICES ASSUME NEW u \in OnByte(D, b) \cup {y}, NEW v \in OnByte(D, b) \cup {y}, Clash(u, v)
                 PROVE  Leq(u.record.clock, v.record.clock) \/ Leq(v.record.clock, u.record.clock)
      BY DEF ClashesOrdered
    <3>1. ASSUME NEW x \in OnByte(D, b), Clash(x, y) \/ Clash(y, x)
          PROVE  Leq(x.record.clock, y.record.clock)
      <4>1. x.access.isWrite \/ w
        BY <1>1, <3>1 DEF Clash
      <4> QED BY <1>1, <2>5, <4>1
    <3>2. ~ Clash(y, y)
      BY DEF Clash
    <3>3. CASE u \in OnByte(D, b) /\ v \in OnByte(D, b)
      BY <1>8, <3>3 DEF ClashesOrdered
    <3> QED BY <3>1, <3>2, <3>3
  <2> QED BY <1>6, <1>10, <2>1, <2>6, <2>7
<1> QED BY <1>9, <1>10

(* A drain commits each of its effects in line with all that is before it. *)
InTurn(D, s) ==
  \A i \in 1 .. Len(s) :
    /\ \A x \in OnByte(D, s[i].byte) : InLine(x.record, s[i].record)
    /\ \A j \in 1 .. Len(s) : j < i /\ s[j].byte = s[i].byte => InLine(s[j].record, s[i].record)

Of(L, s, n) == {x \in L : \E i \in 1 .. n : x.record = s[i].record}

(* The entries stand for what was committed before the drain and for what  *)
(* it has committed.                                                       *)
LEMMA DrainClears ==
  ASSUME launch \in Launches, NEW L, Ordered(L), RecordsTyped(L), IdsDiffer(L),
         Good(L, [hist |-> hist, races |-> races]), NEW s \in Seq(EffectsOf(L)),
         NEW D \in SUBSET L, Clear(D, [hist |-> hist, races |-> races]), InTurn(D, s)
  PROVE  Clear(D \cup Of(L, s, Len(s)), Drained(s))
<1>1. PICK m : m = [hist |-> hist, races |-> races]
  OBVIOUS
<1>2. PICK f : CommitsOf(m, f, s) /\ Drained(s) = f[Len(s)]
  <2> DEFINE g == CHOOSE h : CommitsOf(m, h, s)
  <2>1. CommitsOf(m, g, s)
    BY CommitsExist
  <2>2. Drained(s) = g[Len(s)]
    BY <1>1 DEF Drained, CommitsOf
  <2> HIDE DEF g
  <2> QED BY <2>1, <2>2
<1>3. Len(s) \in Nat /\ \A n \in 1 .. Len(s) : s[n] \in EffectsOf(L)
  OBVIOUS
<1>4. /\ f[0] = m
      /\ \A n \in 1 .. Len(s) : f[n] = Commit(f[n - 1], s[n])
  BY <1>2, <1>3 DEF CommitsOf
<1> DEFINE Fine(n) == Good(L, f[n]) /\ Clear(D \cup Of(L, s, n), f[n])
           Bad == {n \in 0 .. Len(s) : ~ Fine(n)}
<1>5. Fine(0)
  <2>1. Of(L, s, 0) = {}
    BY DEF Of
  <2> QED BY <1>1, <1>4, <2>1
<1>6. ASSUME NEW n \in 1 .. Len(s), Fine(n - 1) PROVE Fine(n)
  <2>1. PICK e \in EffectsOf(L) : e = s[n]
    BY <1>3
  <2>2. PICK y \in L : /\ y.record = e.record /\ y.access.byte = e.byte
                       /\ y.access.isWrite = e.isWrite /\ y.access.class = e.record.class
    BY DEF EffectsOf, Logged
  <2>3. e \in Effect
    BY DEF EffectsOf
  <2>4. PICK B : B = D \cup Of(L, s, n - 1) /\ B \subseteq L /\ Clear(B, f[n - 1]) /\ RecordsTyped(B)
    <3>1. D \cup Of(L, s, n - 1) \subseteq L
      BY DEF Of
    <3>2. Clear(D \cup Of(L, s, n - 1), f[n - 1])
      BY <1>6
    <3> QED BY <3>1, <3>2 DEF RecordsTyped
  <2>5. Of(L, s, n) = Of(L, s, n - 1) \cup {y}
    <3>1. \A x \in L : x.record = e.record => x = y
      <4>1. \A x \in L : x.record = e.record => Id(x) = Id(y)
        BY <2>2 DEF Id
      <4> QED BY <4>1 DEF IdsDiffer
    <3>2. \A i \in Nat : i \in 1 .. n <=> i \in 1 .. (n - 1) \/ i = n
      BY <1>3
    <3> QED BY <2>1, <2>2, <3>1, <3>2 DEF Of
  <2>6. \A x \in OnByte(B, e.byte) : InLine(x.record, e.record)
    <3> SUFFICES ASSUME NEW x \in B, x.access.byte = e.byte PROVE InLine(x.record, e.record)
      BY DEF OnByte
    <3>1. CASE x \in D
      BY <2>1, <3>1 DEF InTurn, OnByte
    <3>2. CASE x \in Of(L, s, n - 1)
      <4>1. PICK j \in 1 .. (n - 1) : x.record = s[j].record
        BY <3>2 DEF Of
      <4>2. j \in 1 .. Len(s) /\ j < n
        BY <1>3
      <4>3. PICK z \in L : z.record = s[j].record /\ z.access.byte = s[j].byte
        BY <1>3, <4>2 DEF EffectsOf, Logged
      <4>4. Id(x) = Id(z) /\ x \in L
        BY <2>4, <4>1, <4>3 DEF Id
      <4>5. x = z
        BY <4>4 DEF IdsDiffer
      <4>6. s[j].byte = s[n].byte
        BY <2>1, <4>3, <4>5
      <4> QED BY <2>1, <4>1, <4>2, <4>6 DEF InTurn
    <3> QED BY <2>4, <3>1, <3>2
  <2>7. Good(L, f[n - 1]) /\ f[n] = Commit(f[n - 1], e)
    BY <1>4, <1>6, <2>1
  <2>8. Clear(B \cup {y}, f[n])
    BY <2>2, <2>3, <2>4, <2>6, <2>7, CommitClears
  <2>9. Good(L, f[n])
    BY <2>7, CommitKeepsGood
  <2>10. B \cup {y} = D \cup Of(L, s, n)
    BY <2>4, <2>5
  <2> QED BY <2>8, <2>9, <2>10
<1>7. ASSUME NEW n \in Bad, \A j \in Bad : n <= j PROVE FALSE
  <2>1. n # 0
    BY <1>5
  <2>2. n \in 1 .. Len(s) /\ n - 1 \in 0 .. Len(s) /\ ~ (n <= n - 1)
    BY <1>3, <2>1
  <2>3. Fine(n - 1)
    BY <1>7, <2>2
  <2>4. Fine(n)
    BY <1>6, <2>2, <2>3
  <2> QED BY <2>4
<1>8. Bad = {}
  <2>1. Bad \in SUBSET Nat
    BY <1>3
  <2> HIDE DEF Bad, Fine
  <2> QED BY <1>7, <2>1, LeastNumber
<1>9. Fine(Len(s))
  <2>1. Len(s) \in 0 .. Len(s)
    BY <1>3
  <2> HIDE DEF Fine
  <2> QED BY <1>8, <2>1
<1> QED BY <1>2, <1>9

-----------------------------------------------------------------------------
(* The effects of the first k queues, in the order of the bytes' queues.   *)
Lists(q, k, s) ==
  /\ \A i \in 1 .. Len(s) : \E p \in 1 .. k : \E j \in 1 .. Len(q[p]) : s[i] = q[p][j]
  /\ \A p \in 1 .. k : \A j \in 1 .. Len(q[p]) : \E i \in 1 .. Len(s) : s[i] = q[p][j]
  /\ \A i, j \in 1 .. Len(s) :
       j < i /\ s[j].byte = s[i].byte => Leq(s[j].record.clock, s[i].record.clock)

(* With the next queue appended, the effects of one queue more.            *)
LEMMA ListsMore ==
  ASSUME NEW T, NEW q \in [1 .. NumPipes -> Seq(T)], QueueOrder(q), NEW k \in 1 .. NumPipes,
         NEW s \in Seq(T), Lists(q, k - 1, s)
  PROVE  s \o q[k] \in Seq(T) /\ Lists(q, k, s \o q[k])
<1>1. NumPipes \in Nat /\ k \in Nat /\ k - 1 \in Nat
  BY AccessAssumption
<1>2. PICK t \in Seq(T) : t = q[k]
  OBVIOUS
<1>3. PICK u \in Seq(T) :
        /\ u = s \o t /\ Len(u) = Len(s) + Len(t) /\ Len(s) \in Nat /\ Len(t) \in Nat
        /\ \A i \in 1 .. Len(s) : u[i] = s[i]
        /\ \A i \in 1 .. Len(t) : u[Len(s) + i] = t[i]
  <2>1. /\ s \o t \in Seq(T) /\ Len(s \o t) = Len(s) + Len(t) /\ Len(s) \in Nat /\ Len(t) \in Nat
        /\ \A i \in 1 .. Len(s) : (s \o t)[i] = s[i]
    OBVIOUS
  <2>2. ASSUME NEW i \in 1 .. Len(t) PROVE (s \o t)[Len(s) + i] = t[i]
    BY <2>1
  <2> QED BY <2>1, <2>2
<1>4. \A i \in 1 .. Len(u) : i \in 1 .. Len(s) \/ (i - Len(s) \in 1 .. Len(t) /\ i = Len(s) + (i - Len(s)))
  BY <1>3
<1>5. \A p \in 1 .. k : p = k \/ p \in 1 .. (k - 1)
  BY <1>1
<1>6. \A p \in 1 .. (k - 1) : p \in 1 .. k /\ p # k /\ p \in 1 .. NumPipes
  BY <1>1
<1>7. k \in 1 .. k
  BY <1>1
<1>8. ASSUME NEW i \in 1 .. Len(u)
      PROVE  \E p \in 1 .. k : \E j \in 1 .. Len(q[p]) : u[i] = q[p][j]
  <2>1. CASE i \in 1 .. Len(s)
    <3>1. PICK p \in 1 .. (k - 1) : \E j \in 1 .. Len(q[p]) : s[i] = q[p][j]
      BY <2>1 DEF Lists
    <3>2. u[i] = s[i] /\ p \in 1 .. k
      BY <1>3, <1>6, <2>1
    <3> QED BY <3>1, <3>2
  <2>2. CASE i - Len(s) \in 1 .. Len(t) /\ i = Len(s) + (i - Len(s))
    <3>1. PICK j \in 1 .. Len(t) : i = Len(s) + j
      BY <2>2
    <3>2. u[i] = q[k][j] /\ j \in 1 .. Len(q[k])
      BY <1>2, <1>3, <3>1
    <3> QED BY <1>7, <3>2
  <2> QED BY <1>4, <2>1, <2>2
<1>9. ASSUME NEW p \in 1 .. k, NEW j \in 1 .. Len(q[p])
      PROVE  \E i \in 1 .. Len(u) : u[i] = q[p][j]
  <2>1. CASE p = k
    <3>1. Len(s) + j \in 1 .. Len(u) /\ j \in 1 .. Len(t)
      BY <1>2, <1>3, <2>1
    <3> QED BY <1>2, <1>3, <2>1, <3>1
  <2>2. CASE p \in 1 .. (k - 1)
    <3>1. PICK i \in 1 .. Len(s) : s[i] = q[p][j]
      BY <2>2 DEF Lists
    <3>2. i \in 1 .. Len(u)
      BY <1>3
    <3> QED BY <1>3, <3>1, <3>2
  <2> QED BY <1>5, <2>1, <2>2
<1>10. ASSUME NEW i \in 1 .. Len(u), NEW j \in 1 .. Len(u), j < i, u[j].byte = u[i].byte
       PROVE  Leq(u[j].record.clock, u[i].record.clock)
  <2>1. CASE i \in 1 .. Len(s)
    <3>1. j \in 1 .. Len(s)
      BY <1>3, <1>10, <2>1
    <3>2. u[i] = s[i] /\ u[j] = s[j]
      BY <1>3, <2>1, <3>1
    <3> QED BY <1>10, <2>1, <3>1, <3>2 DEF Lists
  <2>2. CASE i - Len(s) \in 1 .. Len(t) /\ i = Len(s) + (i - Len(s))
    <3>1. PICK a \in 1 .. Len(t) : i = Len(s) + a
      BY <2>2
    <3>2. u[i] = q[k][a] /\ a \in 1 .. Len(q[k])
      BY <1>2, <1>3, <3>1
    <3>3. CASE j \in 1 .. Len(s)
      <4>1. PICK p \in 1 .. (k - 1) : \E b \in 1 .. Len(q[p]) : s[j] = q[p][b]
        BY <3>3 DEF Lists
      <4>2. PICK b \in 1 .. Len(q[p]) : s[j] = q[p][b]
        BY <4>1
      <4>3. u[j] = q[p][b] /\ p # k /\ p \in 1 .. NumPipes
        BY <1>3, <1>6, <3>3, <4>2
      <4>4. q[p][b].byte = q[k][a].byte
        BY <1>10, <3>2, <4>3
      <4> QED BY <3>2, <4>3, <4>4 DEF QueueOrder
    <3>4. CASE j - Len(s) \in 1 .. Len(t) /\ j = Len(s) + (j - Len(s))
      <4>1. PICK b \in 1 .. Len(t) : j = Len(s) + b
        BY <3>4
      <4>2. u[j] = q[k][b] /\ b \in 1 .. Len(q[k])
        BY <1>2, <1>3, <4>1
      <4>3. b < a
        BY <1>3, <1>10, <3>1, <4>1
      <4>4. q[k][b].byte = q[k][a].byte /\ a \in 1 .. Len(q[k])
        BY <1>10, <3>2, <4>2
      <4>5. Leq(q[k][b].record.clock, q[k][a].record.clock)
        BY <4>2, <4>3, <4>4 DEF QueueOrder
      <4> QED BY <3>2, <4>2, <4>5
    <3> QED BY <1>4, <3>3, <3>4
  <2> QED BY <1>4, <2>1, <2>2
<1>11. Lists(q, k, u)
  BY <1>8, <1>9, <1>10 DEF Lists
<1> QED BY <1>2, <1>3, <1>11

(* What flushAllPipes commits lists all the queues.                        *)
LEMMA PendingLists ==
  ASSUME NEW T, NEW c \in Core, queue[c] \in [1 .. NumPipes -> Seq(T)], QueueOrder(queue[c])
  PROVE  Lists(queue[c], NumPipes, Pending(c))
<1>1. NumPipes \in Nat
  BY AccessAssumption
<1>2. PICK q \in [1 .. NumPipes -> Seq(T)] : q = queue[c]
  OBVIOUS
<1>3. PICK g : UptoPipe(q, g) /\ Pending(c) = g[NumPipes]
  BY <1>2, PendingFacts
<1>4. g[0] = << >> /\ \A n \in 1 .. NumPipes : g[n] = g[n - 1] \o q[n]
  <2>1. ASSUME NEW n \in 0 .. NumPipes
        PROVE  g[n] = IF n = 0 THEN << >> ELSE g[n - 1] \o q[n]
    <3>1. PICK h : h = [i \in 0 .. NumPipes |-> IF i = 0 THEN << >> ELSE g[i - 1] \o q[i]]
      OBVIOUS
    <3>2. h[n] = IF n = 0 THEN << >> ELSE g[n - 1] \o q[n]
      BY <3>1, Zenon
    <3>3. h = g
      BY <1>3, <3>1, Zenon DEF UptoPipe
    <3> QED BY <3>2, <3>3, Zenon
  <2>2. 0 \in 0 .. NumPipes /\ \A n \in 1 .. NumPipes : n \in 0 .. NumPipes /\ n # 0
    BY <1>1
  <2>3. g[0] = << >>
    BY <2>1, <2>2, Zenon
  <2>4. ASSUME NEW n \in 1 .. NumPipes PROVE g[n] = g[n - 1] \o q[n]
    BY <2>1, <2>2, Zenon
  <2> QED BY <2>3, <2>4
<1> DEFINE Fine(n) == g[n] \in Seq(T) /\ Lists(q, n, g[n])
           Bad == {n \in 0 .. NumPipes : ~ Fine(n)}
<1>5. Fine(0)
  <2>1. g[0] = << >>
    BY <1>4
  <2>2. << >> \in Seq(T) /\ Len(<< >>) = 0 /\ 1 .. 0 = {}
    OBVIOUS
  <2> QED BY <2>1, <2>2 DEF Lists
<1>6. ASSUME NEW n \in 1 .. NumPipes, Fine(n - 1) PROVE Fine(n)
  <2>1. g[n] = g[n - 1] \o q[n]
    BY <1>4
  <2>2. PICK s \in Seq(T) : s = g[n - 1] /\ Lists(q, n - 1, s)
    BY <1>6
  <2>3. s \o q[n] \in Seq(T) /\ Lists(q, n, s \o q[n])
    BY <1>2, <2>2, ListsMore
  <2> QED BY <2>1, <2>2, <2>3
<1>7. ASSUME NEW n \in Bad, \A j \in Bad : n <= j PROVE FALSE
  <2>1. n # 0
    BY <1>5
  <2>2. n \in 1 .. NumPipes /\ n - 1 \in 0 .. NumPipes /\ ~ (n <= n - 1)
    BY <1>1, <2>1
  <2>3. Fine(n - 1)
    BY <1>7, <2>2
  <2>4. Fine(n)
    BY <1>6, <2>2, <2>3
  <2> QED BY <2>4
<1>8. Bad = {}
  <2>1. Bad \in SUBSET Nat
    BY <1>1
  <2> HIDE DEF Bad, Fine
  <2> QED BY <1>7, <2>1, LeastNumber
<1>9. Fine(NumPipes)
  <2>1. NumPipes \in 0 .. NumPipes
    BY <1>1
  <2> HIDE DEF Fine
  <2> QED BY <1>8, <2>1
<1> QED BY <1>2, <1>3, <1>9

-----------------------------------------------------------------------------
(* Each pipe of each core has a queue of effects of logged accesses.       *)
Queued(L, Q) == Q \in [Core -> [1 .. NumPipes -> Seq(EffectsOf(L))]]

(* What waits is in the log, with the byte it is about, ...                *)
LEMMA WaitingIsLogged ==
  ASSUME NEW L, NEW Q, Queued(L, Q)
  PROVE  \A c \in Core : \A p \in 1 .. NumPipes : \A i \in 1 .. Len(Q[c][p]) :
           \E z \in L : z.record = Q[c][p][i].record /\ z.access.byte = Q[c][p][i].byte
<1> SUFFICES ASSUME NEW c \in Core, NEW p \in 1 .. NumPipes, NEW i \in 1 .. Len(Q[c][p])
             PROVE  \E z \in L : z.record = Q[c][p][i].record /\ z.access.byte = Q[c][p][i].byte
  OBVIOUS
<1>1. PICK T : T = EffectsOf(L)
  OBVIOUS
<1>2. PICK t \in Seq(T) : t = Q[c][p]
  BY <1>1 DEF Queued
<1>3. t[i] \in T
  BY <1>2
<1> QED BY <1>1, <1>2, <1>3 DEF EffectsOf, Logged

(* ... so nothing waits that has not been issued.                          *)
LEMMA WaitingHasRecord ==
  ASSUME NEW L, NEW Q, Queued(L, Q), NEW r, Waits(Q, r)
  PROVE  \E z \in L : z.record = r
<1>1. PICK d \in Core : \E p \in 1 .. NumPipes : \E i \in 1 .. Len(Q[d][p]) : Q[d][p][i].record = r
  <2>1. DOMAIN Q = Core
    BY DEF Queued
  <2> QED BY <2>1 DEF Waits
<1>2. PICK p \in 1 .. NumPipes : \E i \in 1 .. Len(Q[d][p]) : Q[d][p][i].record = r
  BY <1>1
<1>3. PICK i \in 1 .. Len(Q[d][p]) : Q[d][p][i].record = r
  BY <1>2
<1> QED BY <1>3, WaitingIsLogged

(* and who commits what waits commits it in line: what was committed       *)
(* before is older if it is of the same core, and knows nothing of it if   *)
(* it is not.                                                              *)
LEMMA WaitingIsInLine ==
  ASSUME MemoryInv(log), LogInv(log, Executed), PreciseInv, QueueInv(log, queue), SecretInv(log, queue),
         NEW c \in Core, NEW p \in 1 .. NumPipes, NEW i \in 1 .. Len(queue[c][p]),
         NEW x \in Committed(log, queue), x.access.byte = queue[c][p][i].byte
  PROVE  InLine(x.record, queue[c][p][i].record)
<1>1. PICK e : e = queue[c][p][i] /\ e.record.core = c
  BY DEF QueueInv, QueuesOf
<1>2. PICK z \in log : z.record = e.record
  <2>1. PICK L, Q : L = log /\ Q = queue /\ Queued(L, Q)
    BY DEF MemoryInv, Queued
  <2>2. i \in 1 .. Len(Q[c][p])
    BY <2>1
  <2>3. \A d \in Core : \A t \in 1 .. NumPipes : \A j \in 1 .. Len(Q[d][t]) :
          \E z \in L : z.record = Q[d][t][j].record /\ z.access.byte = Q[d][t][j].byte
    BY <2>1, WaitingIsLogged
  <2> QED BY <1>1, <2>1, <2>2, <2>3
<1>3. x \in log
  BY DEF Committed
<1>4. CASE x.record.core = c
  <2>1. Leq(x.record.clock, e.record.clock)
    BY <1>1, <1>4 DEF QueueInv, QueuesOf, CommittedFirst
  <2> QED BY <1>1, <1>4, <2>1 DEF InLine
<1>5. CASE x.record.core # c
  <2>1. Id(z) \notin x.past
    <3>1. Secret(log, c, << c, e.record.pos >>)
      BY <1>1 DEF SecretInv
    <3>2. Id(z) = << c, e.record.pos >>
      BY <1>1, <1>2 DEF Id
    <3> QED BY <1>3, <1>5, <3>1, <3>2 DEF Secret
  <2>2. ~ (Own(z) <= x.record.clock[c])
    BY <1>1, <1>2, <1>3, <1>5, <2>1 DEF PreciseInv, LogExact
  <2>3. ~ Leq(z.record.clock, x.record.clock)
    BY <1>1, <1>2, <2>2 DEF Leq, Own
  <2> QED BY <1>1, <1>2, <1>5, <2>3 DEF InLine
<1> QED BY <1>4, <1>5

(* So draining a core keeps what is to be kept, of the histories           *)
LEMMA FlushClears ==
  ASSUME launch \in Launches, MemoryInv(log), LogInv(log, Executed), PreciseInv,
         IdsDiffer(log), QueueInv(log, queue), SecretInv(log, queue),
         Clear(Committed(log, queue), [hist |-> hist, races |-> races]),
         NEW c \in Core, NEW s \in Seq(EffectsOf(log)), Lists(queue[c], NumPipes, s)
  PROVE  Clear(Committed(log, queue) \cup Of(log, s, Len(s)), Drained(s))
<1>1. Ordered(log)
  BY LogFacts
<1>2. RecordsTyped(log)
  BY DEF LogInv, RecordsTyped
<1>3. PICK D : D = Committed(log, queue) /\ D \subseteq log
  BY DEF Committed
<1>4. InTurn(D, s)
  <2>1. ASSUME NEW i \in 1 .. Len(s), NEW x \in OnByte(D, s[i].byte)
        PROVE  InLine(x.record, s[i].record)
    <3>1. PICK p \in 1 .. NumPipes : \E j \in 1 .. Len(queue[c][p]) : s[i] = queue[c][p][j]
      BY DEF Lists
    <3>2. PICK j \in 1 .. Len(queue[c][p]) : s[i] = queue[c][p][j]
      BY <3>1
    <3>3. x \in Committed(log, queue) /\ x.access.byte = queue[c][p][j].byte
      BY <1>3, <2>1, <3>2 DEF OnByte
    <3> QED BY <3>2, <3>3, WaitingIsInLine
  <2>2. ASSUME NEW i \in 1 .. Len(s) PROVE s[i].record.core = c
    <3>1. PICK p \in 1 .. NumPipes : \E j \in 1 .. Len(queue[c][p]) : s[i] = queue[c][p][j]
      BY DEF Lists
    <3>2. PICK j \in 1 .. Len(queue[c][p]) : s[i] = queue[c][p][j]
      BY <3>1
    <3>3. queue[c][p][j].record.core = c
      BY DEF QueueInv, QueuesOf
    <3> QED BY <3>2, <3>3
  <2>3. ASSUME NEW i \in 1 .. Len(s), NEW j \in 1 .. Len(s), j < i, s[j].byte = s[i].byte
        PROVE  InLine(s[j].record, s[i].record)
    <3>1. Leq(s[j].record.clock, s[i].record.clock)
      BY <2>3 DEF Lists
    <3> QED BY <2>2, <3>1 DEF InLine
  <2> QED BY <2>1, <2>3 DEF InTurn
<1>5. Good(log, [hist |-> hist, races |-> races])
  BY DEF MemoryInv
<1>6. Clear(D, [hist |-> hist, races |-> races])
  BY <1>3
<1>7. Clear(D \cup Of(log, s, Len(s)), Drained(s))
  BY <1>1, <1>2, <1>3, <1>4, <1>5, <1>6, DrainClears
<1> QED BY <1>3, <1>7

(* and of the queues.                                                      *)
LEMMA FlushQueues ==
  ASSUME NEW L, NEW Q, NEW R, Q \in [Core -> [1 .. NumPipes -> Seq(EffectsOf(L))]],
         NEW c \in Core, R = [Q EXCEPT ![c] = [p \in 1 .. NumPipes |-> << >>]],
         NEW s \in Seq(EffectsOf(L)), Lists(Q[c], NumPipes, s),
         QueueInv(L, Q)
  PROVE  /\ Committed(L, R) = Committed(L, Q) \cup Of(L, s, Len(s))
         /\ QueueInv(L, R) /\ Empty(R, c)
         /\ \A d \in Core : d # c => R[d] = Q[d]
<1>1. /\ DOMAIN Q = Core /\ DOMAIN R = Core
      /\ \A p \in 1 .. NumPipes : R[c][p] = << >>
      /\ \A d \in Core : d # c => R[d] = Q[d]
  BY DEF Empty
<1>2. \A p \in 1 .. NumPipes : Len(R[c][p]) = 0 /\ 1 .. Len(R[c][p]) = {}
  BY <1>1
<1>3. ASSUME NEW x, Waits(R, x.record) PROVE Waits(Q, x.record) /\ x.record.core # c
  <2>1. PICK d \in Core : \E p \in 1 .. NumPipes : \E i \in 1 .. Len(R[d][p]) : R[d][p][i].record = x.record
    BY <1>1, <1>3 DEF Waits
  <2>2. d # c
    BY <1>2, <2>1
  <2>3. PICK p \in 1 .. NumPipes : \E i \in 1 .. Len(Q[d][p]) : Q[d][p][i].record = x.record
    BY <1>1, <2>1, <2>2
  <2>4. PICK i \in 1 .. Len(Q[d][p]) : Q[d][p][i].record = x.record
    BY <2>3
  <2>5. x.record.core = d
    BY <2>4 DEF QueueInv, QueuesOf
  <2> QED BY <1>1, <2>2, <2>4, <2>5 DEF Waits
<1>4. ASSUME NEW x \in L, Waits(Q, x.record), ~ Waits(R, x.record) PROVE x \in Of(L, s, Len(s))
  <2>1. PICK d \in Core : \E p \in 1 .. NumPipes : \E i \in 1 .. Len(Q[d][p]) : Q[d][p][i].record = x.record
    BY <1>1, <1>4 DEF Waits
  <2>2. d = c
    BY <1>1, <1>4, <2>1 DEF Waits
  <2>3. PICK p \in 1 .. NumPipes : \E i \in 1 .. Len(Q[c][p]) : Q[c][p][i].record = x.record
    BY <2>1, <2>2
  <2>4. PICK i \in 1 .. Len(Q[c][p]) : Q[c][p][i].record = x.record
    BY <2>3
  <2>5. \E j \in 1 .. Len(s) : s[j] = Q[c][p][i]
    BY DEF Lists
  <2> QED BY <2>4, <2>5 DEF Of
<1>5. ASSUME NEW x \in Of(L, s, Len(s)) PROVE x \in L /\ x.record.core = c
  <2>1. PICK j \in 1 .. Len(s) : x.record = s[j].record
    BY <1>5 DEF Of
  <2>2. PICK p \in 1 .. NumPipes : \E i \in 1 .. Len(Q[c][p]) : s[j] = Q[c][p][i]
    BY DEF Lists
  <2>3. PICK i \in 1 .. Len(Q[c][p]) : s[j] = Q[c][p][i]
    BY <2>2
  <2>4. Q[c][p][i].record.core = c
    BY DEF QueueInv, QueuesOf
  <2> QED BY <1>5, <2>1, <2>3, <2>4 DEF Of
<1>6. Committed(L, R) = Committed(L, Q) \cup Of(L, s, Len(s))
  <2>1. ASSUME NEW x \in L PROVE ~ Waits(R, x.record) <=> ~ Waits(Q, x.record) \/ x \in Of(L, s, Len(s))
    BY <1>3, <1>4, <1>5
  <2> QED BY <1>5, <2>1 DEF Committed
<1>7. ASSUME NEW d \in Core PROVE QueuesOf(L, R, d)
  <2>1. CASE d = c
    <3>1. \A p \in 1 .. NumPipes : \A i \in 1 .. Len(R[d][p]) : FALSE
      BY <1>2, <2>1
    <3>2. Empty(R, d)
      BY <1>1, <2>1 DEF Empty
    <3> QED BY <3>1, <3>2 DEF QueuesOf, QueueOrder, CommittedFirst
  <2>2. CASE d # c
    <3>1. R[d] = Q[d] /\ QueuesOf(L, Q, d)
      BY <1>1, <2>2 DEF QueueInv
    <3>2. CommittedFirst(L, R, d)
      <4> SUFFICES ASSUME NEW p \in 1 .. NumPipes, NEW i \in 1 .. Len(R[d][p]), NEW x \in Committed(L, R),
                          x.record.core = d /\ x.access.byte = R[d][p][i].byte
                   PROVE  Leq(x.record.clock, R[d][p][i].record.clock)
        BY DEF CommittedFirst
      <4>1. x \in Committed(L, Q)
        BY <1>5, <1>6, <2>2
      <4> QED BY <3>1, <4>1 DEF QueuesOf, CommittedFirst
    <3>3. Empty(Q, d) => Empty(R, d)
      BY <3>1 DEF Empty
    <3>4. QueueOrder(R[d])
      BY <3>1 DEF QueuesOf
    <3>5. \A p \in 1 .. NumPipes : \A i \in 1 .. Len(R[d][p]) : R[d][p][i].record.core = d
      BY <3>1 DEF QueuesOf
    <3> QED BY <3>1, <3>2, <3>3, <3>4, <3>5 DEF QueuesOf
  <2> QED BY <2>1, <2>2
<1> QED BY <1>1, <1>6, <1>7 DEF QueueInv, Empty

(* It is the entries and the reports that count.                           *)
LEMMA ClearFields ==
  ASSUME NEW D, NEW m, NEW n, m.hist = n.hist, m.races = n.races, Clear(D, m)
  PROVE  Clear(D, n)
BY DEF Clear

(* A core that drains keeps the store in order, and has nothing left to    *)
(* commit.                                                                 *)
LEMMA DrainStep ==
  ASSUME launch \in Launches, MemoryInv(log), LogInv(log, Executed), PreciseInv,
         Store(log, queue, hist, races), SecretInv(log, queue),
         NEW c \in Core, NEW s \in Seq(EffectsOf(log)), Lists(queue[c], NumPipes, s), CommitAll(s),
         NEW R, R = queue', R = [queue EXCEPT ![c] = [p \in 1 .. NumPipes |-> << >>]],
         NEW h, h = hist', NEW t, t = races'
  PROVE  Store(log, R, h, t) /\ Empty(R, c) /\ \A d \in Core : d # c => R[d] = queue[d]
<1>1. PICK m : m = Drained(s) /\ m.hist = h /\ m.races = t
  BY DEF CommitAll
<1>2. Clear(Committed(log, queue) \cup Of(log, s, Len(s)), m)
  BY <1>1, FlushClears DEF Store
<1>3. /\ Committed(log, R) = Committed(log, queue) \cup Of(log, s, Len(s))
      /\ QueueInv(log, R) /\ Empty(R, c)
      /\ \A d \in Core : d # c => R[d] = queue[d]
  <2>1. PICK L, Q : L = log /\ Q = queue
    OBVIOUS
  <2>2. Q \in [Core -> [1 .. NumPipes -> Seq(EffectsOf(L))]]
    BY <2>1 DEF MemoryInv
  <2>3. s \in Seq(EffectsOf(L)) /\ Lists(Q[c], NumPipes, s) /\ QueueInv(L, Q)
        /\ R = [Q EXCEPT ![c] = [p \in 1 .. NumPipes |-> << >>]]
    BY <2>1 DEF Store
  <2>4. /\ Committed(L, R) = Committed(L, Q) \cup Of(L, s, Len(s))
        /\ QueueInv(L, R) /\ Empty(R, c)
        /\ \A d \in Core : d # c => R[d] = Q[d]
    BY <2>2, <2>3, FlushQueues
  <2> QED BY <2>1, <2>4
<1>4. PICK n : n = [hist |-> h, races |-> t] /\ n.hist = h /\ n.races = t
  <2>1. [hist |-> h, races |-> t].hist = h /\ [hist |-> h, races |-> t].races = t
    OBVIOUS
  <2> QED BY <2>1
<1>5. Clear(Committed(log, R), n)
  BY <1>1, <1>2, <1>3, <1>4, ClearFields
<1> QED BY <1>3, <1>4, <1>5 DEF Store

(* flushAllPipes.                                                          *)
LEMMA FlushAllStep ==
  ASSUME launch \in Launches, MemoryInv(log), LogInv(log, Executed), PreciseInv,
         Store(log, queue, hist, races), SecretInv(log, queue),
         NEW c \in Core, FlushAllPipes(c),
         NEW R, R = queue', NEW h, h = hist', NEW t, t = races'
  PROVE  Store(log, R, h, t) /\ Empty(R, c) /\ \A d \in Core : d # c => R[d] = queue[d]
<1>1. queue[c] \in [1 .. NumPipes -> Seq(EffectsOf(log))]
  BY DEF MemoryInv
<1>2. QueueOrder(queue[c])
  BY DEF Store, QueueInv, QueuesOf
<1>3. PICK T : T = EffectsOf(log)
  OBVIOUS
<1>4. PICK s \in Seq(T) : s = Pending(c)
  BY <1>1, <1>3, PendingFacts
<1>5. Lists(queue[c], NumPipes, s)
  BY <1>1, <1>2, <1>3, <1>4, PendingLists
<1>6. CommitAll(s)
  BY <1>4 DEF FlushAllPipes
<1>7. R = [queue EXCEPT ![c] = [p \in 1 .. NumPipes |-> << >>]]
  BY <1>1 DEF FlushAllPipes
<1> QED BY <1>3, <1>5, <1>6, <1>7, DrainStep

(* flushPipe, where the other pipes of the core are empty.                 *)
LEMMA FlushPipeStep ==
  ASSUME launch \in Launches, MemoryInv(log), LogInv(log, Executed), PreciseInv,
         Store(log, queue, hist, races), SecretInv(log, queue),
         NEW c \in Core, NEW p \in 1 .. NumPipes, FlushPipe(c, p),
         \A g \in 1 .. NumPipes \ {p} : queue[c][g] = << >>,
         NEW R, R = queue', NEW h, h = hist', NEW t, t = races'
  PROVE  Store(log, R, h, t) /\ Empty(R, c) /\ \A d \in Core : d # c => R[d] = queue[d]
<1>1. queue \in [Core -> [1 .. NumPipes -> Seq(EffectsOf(log))]]
  BY DEF MemoryInv
<1>2. QueueOrder(queue[c])
  BY DEF Store, QueueInv, QueuesOf
<1>3. PICK T : T = EffectsOf(log)
  OBVIOUS
<1>4. PICK s \in Seq(T) : s = queue[c][p]
  BY <1>1, <1>3
<1>5. Lists(queue[c], NumPipes, s)
  <2>1. \A g \in 1 .. NumPipes : g # p => Len(queue[c][g]) = 0 /\ 1 .. Len(queue[c][g]) = {}
    OBVIOUS
  <2>2. \A i \in 1 .. Len(s) : \E j \in 1 .. Len(queue[c][p]) : s[i] = queue[c][p][j]
    BY <1>4
  <2>3. \A g \in 1 .. NumPipes : \A j \in 1 .. Len(queue[c][g]) : \E i \in 1 .. Len(s) : s[i] = queue[c][g][j]
    BY <1>4, <2>1
  <2>4. \A i, j \in 1 .. Len(s) :
          j < i /\ s[j].byte = s[i].byte => Leq(s[j].record.clock, s[i].record.clock)
    BY <1>2, <1>4 DEF QueueOrder
  <2> QED BY <2>2, <2>3, <2>4 DEF Lists
<1>6. CommitAll(s)
  BY <1>4 DEF FlushPipe
<1>7. R = [queue EXCEPT ![c] = [g \in 1 .. NumPipes |-> << >>]]
  <2>1. R = [queue EXCEPT ![c] = [@ EXCEPT ![p] = << >>]]
    BY DEF FlushPipe
  <2>2. PICK q \in [1 .. NumPipes -> Seq(T)] : q = queue[c] /\ \A g \in 1 .. NumPipes : g # p => q[g] = << >>
    BY <1>1, <1>3
  <2>3. [q EXCEPT ![p] = << >>] = [g \in 1 .. NumPipes |-> << >>]
    BY <2>2
  <2> QED BY <2>1, <2>2, <2>3
<1> QED BY <1>3, <1>5, <1>6, <1>7, DrainStep

-----------------------------------------------------------------------------
(* A new access is later than all of its core, and known to nobody.        *)
LEMMA NewIsLast ==
  ASSUME KnownInv(log, Executed), LogInv(log, Executed), PreciseInv,
         NEW c \in Core, NEW r, r.core = c, r.clock = Ticked(clock[c], c), NEW x \in log
  PROVE  InLine(x.record, r)
<1>1. PICK q \in Clock : q = clock[c]
  BY DEF KnownInv
<1>2. PICK t \in Clock : t = r.clock /\ t[c] = q[c] + 1 /\ Leq(q, t)
  <2>1. Ticked(q, c)[c] = q[c] + 1
    BY DEF Ticked, Clock
  <2> QED BY <1>1, <2>1, TickFacts
<1>3. x.record.clock \in Clock
  BY DEF PreciseInv, Stamped, Clock
<1>4. CASE x.record.core = c
  <2>1. Id(x) \in known[c]
    BY <1>4 DEF PreciseInv, KnownExact, KnownAt, Mine
  <2>2. Leq(x.record.clock, q)
    BY <1>1, <2>1 DEF KnownInv, Sound, Leq
  <2>3. Leq(x.record.clock, t)
    BY <1>2, <1>3, <2>2, LeqTransitive
  <2> QED BY <1>2, <1>4, <2>3 DEF InLine
<1>5. CASE x.record.core # c
  <2>1. x.record.clock[c] <= Front[c]
    BY DEF PreciseInv, LogExact
  <2>2. Front[c] = q[c] /\ q[c] \in Nat /\ x.record.clock[c] \in Nat
    BY <1>1, <1>3 DEF Front, Clock
  <2>3. ~ (t[c] <= x.record.clock[c])
    BY <1>2, <2>1, <2>2
  <2>4. ~ Leq(t, x.record.clock)
    BY <2>3 DEF Leq
  <2> QED BY <1>2, <1>5, <2>4 DEF InLine
<1> QED BY <1>4, <1>5

(* The log with it; nothing that waited before is it.                      *)
LEMMA IssueAdds ==
  ASSUME TypeOK, launch \in Launches, LogInv(log, Executed), IdsDiffer(log), MemoryInv(log),
         NEW c \in Core, Issue(c), NEW L, L = log',
         NEW a, a = launch.access[c][pc[c]],
         NEW r, r = [core |-> c, clock |-> Stamp(c), pos |-> pc[c], class |-> a.class]
  PROVE  /\ r.core = c /\ r.clock = Ticked(clock[c], c) /\ r.pos = pc[c] /\ r.class = a.class
         /\ << c, pc[c] >> \notin Executed
         /\ IdsDiffer(L) /\ ~ Waits(queue, r)
         /\ \E y \in L : /\ L = log \cup {y} /\ y.access = a /\ y.record = r
                         /\ y.past = known[c] /\ y \notin log
                         /\ \A x \in log : x.record # r
<1>1. Advance(c) /\ launch' = launch
  BY Zenon DEF Issue, Compute, Turn
<1>2. << c, pc[c] >> \notin Executed
  BY <1>1, AdvanceExecutes
<1>3. r.core = c /\ r.clock = Ticked(clock[c], c) /\ r.pos = pc[c] /\ r.class = a.class
  BY DEF Stamp
<1>4. PICK y : /\ y = [access |-> a, record |-> r, past |-> known[c]]
               /\ y.access = a /\ y.record = r /\ y.past = known[c]
  <2>1. PICK z : z = [access |-> a, record |-> r, past |-> known[c]]
    BY Zenon
  <2>2. z.access = a /\ z.record = r /\ z.past = known[c]
    BY <2>1
  <2> QED BY <2>1, <2>2
<1>5. L = log \cup {y}
  BY <1>4, Zenon DEF Issue
<1>6. Id(y) = << c, pc[c] >>
  BY <1>3, <1>4 DEF Id
<1>7. \A x \in log : Id(x) \in Executed
  BY DEF LogInv
<1>8. \A x \in log : x.record # r /\ Id(x) # Id(y)
  BY <1>2, <1>3, <1>6, <1>7 DEF Id
<1>9. IdsDiffer(L)
  BY <1>5, <1>8 DEF IdsDiffer
<1>10. ~ Waits(queue, r)
  <2> SUFFICES ASSUME Waits(queue, r) PROVE FALSE
    OBVIOUS
  <2>1. PICK M, Q : M = log /\ Q = queue /\ Queued(M, Q)
    BY DEF MemoryInv, Queued
  <2>2. \E z \in M : z.record = r
    BY <2>1, WaitingHasRecord
  <2> QED BY <1>8, <2>1, <2>2
<1> QED BY <1>2, <1>3, <1>4, <1>5, <1>8, <1>9, <1>10, Zenon

(* An access that commits at once, with none on its byte waiting.          *)
LEMMA IssueCommits ==
  ASSUME launch \in Launches, KnownInv(log, Executed), LogInv(log, Executed), PreciseInv,
         MemoryInv(log), Store(log, queue, hist, races),
         NEW c \in Core, NEW L, IdsDiffer(L), Ordered(L), RecordsTyped(L),
         NEW y \in L, L = log \cup {y}, y \notin log,
         NEW r, r = y.record, r.core = c, r.clock = Ticked(clock[c], c), ~ Waits(queue, r),
         NEW e \in EffectsOf(L), e.record = r, e.byte = y.access.byte, CommitAll(<< e >>),
         \A p \in 1 .. NumPipes : \A i \in 1 .. Len(queue[c][p]) : queue[c][p][i].byte # e.byte,
         NEW h, h = hist', NEW t, t = races'
  PROVE  Store(L, queue, h, t)
<1>1. PICK Q : Q = queue
  OBVIOUS
<1>2. PICK D : D = Committed(log, Q) /\ D \subseteq log
  BY DEF Committed
<1>3. Committed(L, Q) = D \cup {y}
  BY <1>1, <1>2 DEF Committed
<1>4. PICK s \in Seq(EffectsOf(L)) : s = << e >> /\ Len(s) = 1 /\ s[1] = e
  <2>1. PICK T : T = EffectsOf(L) /\ e \in T
    OBVIOUS
  <2>2. << e >> \in Seq(T) /\ Len(<< e >>) = 1 /\ << e >>[1] = e
    BY <2>1
  <2> QED BY <2>1, <2>2
<1>5. InTurn(D, s)
  <2>1. \A x \in OnByte(D, e.byte) : InLine(x.record, r)
    BY <1>2, NewIsLast DEF OnByte
  <2>2. \A i \in 1 .. Len(s) : i = 1
    BY <1>4
  <2> QED BY <1>4, <2>1, <2>2 DEF InTurn
<1>6. Good(L, [hist |-> hist, races |-> races])
  <2>1. Good(log, [hist |-> hist, races |-> races]) /\ log \subseteq L
    BY DEF MemoryInv
  <2> QED BY <2>1, GoodGrows
<1>7. Clear(D, [hist |-> hist, races |-> races])
  BY <1>1, <1>2 DEF Store
<1>8. Clear(D \cup Of(L, s, Len(s)), Drained(s))
  BY <1>2, <1>4, <1>5, <1>6, <1>7, DrainClears
<1>9. Of(L, s, Len(s)) = {y}
  <2>1. \A x \in L : x.record = r => x = y
    BY DEF IdsDiffer, Id
  <2>2. \A i \in 1 .. Len(s) : s[i] = e
    BY <1>4
  <2>3. 1 \in 1 .. Len(s)
    BY <1>4
  <2> QED BY <1>4, <2>1, <2>2, <2>3 DEF Of
<1>10. PICK m : m = Drained(s) /\ m.hist = h /\ m.races = t
  BY <1>4 DEF CommitAll
<1>11. PICK n : n = [hist |-> h, races |-> t] /\ n.hist = h /\ n.races = t
  <2>1. [hist |-> h, races |-> t].hist = h /\ [hist |-> h, races |-> t].races = t
    OBVIOUS
  <2> QED BY <2>1
<1>12. Clear(Committed(L, Q), n)
  <2>1. Clear(Committed(L, Q), m)
    BY <1>3, <1>8, <1>9, <1>10
  <2> QED BY <1>10, <1>11, <2>1, ClearFields
<1>13. ASSUME NEW d \in Core PROVE QueuesOf(L, Q, d)
  <2>1. QueuesOf(log, Q, d)
    BY <1>1 DEF Store, QueueInv
  <2>2. CommittedFirst(L, Q, d)
    <3> SUFFICES ASSUME NEW p \in 1 .. NumPipes, NEW i \in 1 .. Len(Q[d][p]), NEW x \in Committed(L, Q),
                        x.record.core = d /\ x.access.byte = Q[d][p][i].byte
                 PROVE  Leq(x.record.clock, Q[d][p][i].record.clock)
      BY DEF CommittedFirst
    <3>1. CASE x = y
      BY <1>1, <3>1
    <3>2. CASE x \in Committed(log, Q)
      BY <2>1, <3>2 DEF QueuesOf, CommittedFirst
    <3> QED BY <1>2, <1>3, <3>1, <3>2
  <2> QED BY <2>1, <2>2 DEF QueuesOf
<1> QED BY <1>1, <1>11, <1>12, <1>13 DEF Store, QueueInv

(* The queues with an effect more.                                         *)
Appended(P, Q, c, p, e) ==
  /\ DOMAIN P = Core /\ DOMAIN Q = Core
  /\ \A d \in Core : \A t \in 1 .. NumPipes : d # c \/ t # p => Q[d][t] = P[d][t]
  /\ Len(P[c][p]) \in Nat /\ Len(Q[c][p]) = Len(P[c][p]) + 1
  /\ Q[c][p][Len(P[c][p]) + 1] = e
  /\ \A i \in 1 .. Len(P[c][p]) : Q[c][p][i] = P[c][p][i]

(* What waits in them waited before or is that effect.                     *)
OneMore(P, Q, c, p, e) ==
  /\ \A r : Waits(Q, r) <=> Waits(P, r) \/ r = e.record
  /\ \A d \in Core : \A t \in 1 .. NumPipes : \A i \in 1 .. Len(Q[d][t]) :
       \/ i \in 1 .. Len(P[d][t]) /\ Q[d][t][i] = P[d][t][i]
       \/ d = c /\ t = p /\ i = Len(P[c][p]) + 1 /\ Q[d][t][i] = e

(* One effect more in a queue is one more that waits.                      *)
LEMMA AppendedWaits ==
  ASSUME NEW P, NEW Q, NEW c \in Core, NEW p \in 1 .. NumPipes, NEW e, Appended(P, Q, c, p, e)
  PROVE  OneMore(P, Q, c, p, e)
<1>1. ASSUME NEW d \in Core, NEW t \in 1 .. NumPipes, NEW i \in 1 .. Len(Q[d][t])
      PROVE  \/ i \in 1 .. Len(P[d][t]) /\ Q[d][t][i] = P[d][t][i]
             \/ d = c /\ t = p /\ i = Len(P[c][p]) + 1 /\ Q[d][t][i] = e
  <2>1. CASE d # c \/ t # p
    BY <2>1 DEF Appended
  <2>2. CASE d = c /\ t = p
    <3>1. i \in 1 .. Len(P[c][p]) \/ i = Len(P[c][p]) + 1
      BY <2>2 DEF Appended
    <3> QED BY <2>2, <3>1 DEF Appended
  <2> QED BY <2>1, <2>2
<1>2. ASSUME NEW d \in Core, NEW t \in 1 .. NumPipes, NEW i \in 1 .. Len(P[d][t])
      PROVE  i \in 1 .. Len(Q[d][t]) /\ Q[d][t][i] = P[d][t][i]
  <2>1. CASE d # c \/ t # p
    BY <2>1 DEF Appended
  <2>2. CASE d = c /\ t = p
    BY <2>2 DEF Appended
  <2> QED BY <2>1, <2>2
<1>3. DOMAIN P = Core /\ DOMAIN Q = Core
  BY DEF Appended
<1>4. ASSUME NEW r, Waits(Q, r) PROVE Waits(P, r) \/ r = e.record
  <2>1. PICK d \in Core : \E t \in 1 .. NumPipes : \E i \in 1 .. Len(Q[d][t]) : Q[d][t][i].record = r
    BY <1>3, <1>4 DEF Waits
  <2>2. PICK t \in 1 .. NumPipes : \E i \in 1 .. Len(Q[d][t]) : Q[d][t][i].record = r
    BY <2>1
  <2>3. PICK i \in 1 .. Len(Q[d][t]) : Q[d][t][i].record = r
    BY <2>2
  <2> QED BY <1>1, <1>3, <2>3 DEF Waits
<1>5. ASSUME NEW r, Waits(P, r) PROVE Waits(Q, r)
  <2>1. PICK d \in Core : \E t \in 1 .. NumPipes : \E i \in 1 .. Len(P[d][t]) : P[d][t][i].record = r
    BY <1>3, <1>5 DEF Waits
  <2>2. PICK t \in 1 .. NumPipes : \E i \in 1 .. Len(P[d][t]) : P[d][t][i].record = r
    BY <2>1
  <2>3. PICK i \in 1 .. Len(P[d][t]) : P[d][t][i].record = r
    BY <2>2
  <2>4. i \in 1 .. Len(Q[d][t]) /\ Q[d][t][i].record = r
    BY <1>2, <2>3
  <2> QED BY <1>3, <2>4 DEF Waits
<1>6. Waits(Q, e.record)
  <2>1. PICK n : n = Len(P[c][p]) + 1 /\ n \in 1 .. Len(Q[c][p]) /\ Q[c][p][n].record = e.record
    BY DEF Appended
  <2> QED BY <1>3, <2>1 DEF Waits
<1> QED BY <1>1, <1>4, <1>5, <1>6 DEF OneMore

(* An access that waits: the last of its queue, and nothing else on its    *)
(* byte waits in the others.                                               *)
LEMMA IssueQueues ==
  ASSUME KnownInv(log, Executed), LogInv(log, Executed), PreciseInv, Queued(log, queue),
         Store(log, queue, hist, races), ~ launch.inOrder,
         NEW c \in Core, NEW p \in 1 .. NumPipes, NEW L, IdsDiffer(L),
         NEW y \in L, L = log \cup {y}, \A x \in log : x.record # y.record,
         NEW r, r = y.record, r.core = c, r.clock = Ticked(clock[c], c),
         NEW e, e.record = r, e.byte = y.access.byte,
         \A t \in 1 .. NumPipes : \A i \in 1 .. Len(queue[c][t]) :
           t # p => queue[c][t][i].byte # e.byte,
         NEW Q, Appended(queue, Q, c, p, e)
  PROVE  Store(L, Q, hist, races)
<1>1. PICK P : P = queue
  OBVIOUS
<1>2. PICK n : n = Len(P[c][p]) + 1
  OBVIOUS
<1>3. /\ \A s : Waits(Q, s) <=> Waits(P, s) \/ s = r
      /\ \A d \in Core : \A t \in 1 .. NumPipes : \A i \in 1 .. Len(Q[d][t]) :
           \/ i \in 1 .. Len(P[d][t]) /\ Q[d][t][i] = P[d][t][i]
           \/ d = c /\ t = p /\ i = n /\ Q[d][t][i] = e
  <2>1. OneMore(P, Q, c, p, e)
    BY <1>1, AppendedWaits
  <2> QED BY <1>2, <2>1 DEF OneMore
<1>4. Committed(L, Q) = Committed(log, P)
  BY <1>3 DEF Committed
<1>5. \A x \in log : x.record.core = c => Leq(x.record.clock, r.clock)
  <2>1. \A x \in log : InLine(x.record, r)
    BY NewIsLast
  <2> QED BY <2>1 DEF InLine
<1>6. \A d \in Core : QueuesOf(log, P, d)
  BY <1>1 DEF Store, QueueInv
<1>7. \A t \in 1 .. NumPipes : \A i \in 1 .. Len(P[c][t]) : Leq(P[c][t][i].record.clock, r.clock)
  <2> SUFFICES ASSUME NEW t \in 1 .. NumPipes, NEW i \in 1 .. Len(P[c][t])
               PROVE  Leq(P[c][t][i].record.clock, r.clock)
    OBVIOUS
  <2>1. PICK M : M = log /\ Queued(M, P)
    BY <1>1
  <2>2. PICK z \in M : z.record = P[c][t][i].record
    BY <2>1, WaitingIsLogged
  <2>3. z.record.core = c
    BY <1>6, <2>2 DEF QueuesOf
  <2> QED BY <1>5, <2>1, <2>2, <2>3
<1>8. ASSUME NEW d \in Core, NEW t \in 1 .. NumPipes, NEW i \in 1 .. Len(Q[d][t])
      PROVE  Q[d][t][i].record.core = d
  <2>1. CASE i \in 1 .. Len(P[d][t]) /\ Q[d][t][i] = P[d][t][i]
    BY <1>6, <2>1 DEF QueuesOf
  <2>2. CASE d = c /\ Q[d][t][i] = e
    BY <2>2
  <2> QED BY <1>3, <2>1, <2>2
<1>9. ASSUME NEW d \in Core, NEW t \in 1 .. NumPipes, NEW i \in 1 .. Len(Q[d][t]),
             NEW x \in Committed(log, P), x.record.core = d, x.access.byte = Q[d][t][i].byte
      PROVE  Leq(x.record.clock, Q[d][t][i].record.clock)
  <2>1. CASE i \in 1 .. Len(P[d][t]) /\ Q[d][t][i] = P[d][t][i]
    BY <1>6, <1>9, <2>1 DEF QueuesOf, CommittedFirst
  <2>2. CASE d = c /\ Q[d][t][i] = e
    <3>1. x \in log
      BY DEF Committed
    <3> QED BY <1>5, <1>9, <2>2, <3>1
  <2> QED BY <1>3, <2>1, <2>2
<1>10. ASSUME NEW d \in Core, NEW t \in 1 .. NumPipes, NEW u \in 1 .. NumPipes,
              NEW i \in 1 .. Len(Q[d][t]), NEW j \in 1 .. Len(Q[d][u]),
              Q[d][t][i].byte = Q[d][u][j].byte
       PROVE  t = u /\ (i < j => Leq(Q[d][t][i].record.clock, Q[d][u][j].record.clock))
  <2>1. CASE i \in 1 .. Len(P[d][t]) /\ Q[d][t][i] = P[d][t][i]
    <3>1. CASE j \in 1 .. Len(P[d][u]) /\ Q[d][u][j] = P[d][u][j]
      <4>1. QueueOrder(P[d])
        BY <1>6 DEF QueuesOf
      <4>2. P[d][t][i].byte = P[d][u][j].byte
        BY <1>10, <2>1, <3>1
      <4> QED BY <2>1, <3>1, <4>1, <4>2 DEF QueueOrder
    <3>2. CASE d = c /\ u = p /\ j = n /\ Q[d][u][j] = e
      <4>1. t = p
        BY <1>1, <1>10, <2>1, <3>2
      <4> QED BY <1>7, <2>1, <3>2, <4>1
    <3> QED BY <1>3, <3>1, <3>2
  <2>2. CASE d = c /\ t = p /\ i = n /\ Q[d][t][i] = e
    <3>1. u = p
      <4>1. CASE j \in 1 .. Len(P[d][u]) /\ Q[d][u][j] = P[d][u][j]
        BY <1>1, <1>10, <2>2, <4>1
      <4> QED BY <1>3, <4>1
    <3>2. ~ (i < j)
      BY <1>1, <1>2, <2>2, <3>1 DEF Appended
    <3> QED BY <2>2, <3>1, <3>2
  <2> QED BY <1>3, <2>1, <2>2
<1>11. QueueInv(L, Q)
  <2> SUFFICES ASSUME NEW d \in Core PROVE QueuesOf(L, Q, d)
    BY DEF QueueInv
  <2>1. QueueOrder(Q[d])
    BY <1>10 DEF QueueOrder
  <2>2. CommittedFirst(L, Q, d)
    BY <1>4, <1>9 DEF CommittedFirst
  <2> QED BY <1>8, <2>1, <2>2 DEF QueuesOf
<1> QED BY <1>1, <1>4, <1>11 DEF Store

(* An issue: the log has an access more, which the queues hold or the      *)
(* histories stand for.                                                    *)
Added(L, R, c) ==
  /\ << c, pc[c] >> \notin Executed
  /\ \E y \in L : L = log \cup {y} /\ y.record.core = c /\ y.past = known[c]
  /\ \A d \in Core : d # c => R[d] = queue[d]
  /\ \A d \in Core : \A t \in 1 .. NumPipes : \A i \in 1 .. Len(R[d][t]) :
       \/ i \in 1 .. Len(queue[d][t]) /\ R[d][t][i] = queue[d][t][i]
       \/ d = c /\ R[d][t][i].record.pos = pc[c]

(* An access is issued in line with the others of its byte, wherever its   *)
(* effect goes.                                                            *)
LEMMA IssueStep ==
  ASSUME RaceInv, PreciseInv, CommitsInTurn, Store(log, queue, hist, races),
         NEW c \in Core, Issue(c),
         NEW L, L = log', NEW R, R = queue', NEW h, h = hist', NEW t, t = races'
  PROVE  Store(L, R, h, t) /\ Added(L, R, c)
<1>1. /\ TypeOK /\ launch \in Launches /\ KnownInv(log, Executed) /\ LogInv(log, Executed)
      /\ MemoryInv(log) /\ IdsDiffer(log) /\ QueueInv(log, queue) /\ Queued(log, queue)
  BY DEF RaceInv, Books, Store, MemoryInv, Queued
<1>2. PICK a : a = launch.access[c][pc[c]]
  OBVIOUS
<1>3. PICK r : r = [core |-> c, clock |-> Stamp(c), pos |-> pc[c], class |-> a.class]
  OBVIOUS
<1>4. PICK E : E = Executed'
  OBVIOUS
<1>5. /\ r.core = c /\ r.clock = Ticked(clock[c], c) /\ r.pos = pc[c]
      /\ << c, pc[c] >> \notin Executed
      /\ IdsDiffer(L) /\ ~ Waits(queue, r)
      /\ \E y \in L : /\ L = log \cup {y} /\ y.access = a /\ y.record = r
                      /\ y.past = known[c] /\ y \notin log
                      /\ \A x \in log : x.record # r
  BY <1>1, <1>2, <1>3, IssueAdds
<1>6. PICK y \in L : /\ L = log \cup {y} /\ y.access = a /\ y.record = r /\ y \notin log
                     /\ y.past = known[c] /\ \A x \in log : x.record # r
  BY <1>5
<1>7. PICK e : /\ e = [byte |-> a.byte, isWrite |-> a.isWrite, record |-> r]
               /\ e.byte = a.byte /\ e.record = r
  <2>1. PICK z : z = [byte |-> a.byte, isWrite |-> a.isWrite, record |-> r]
    OBVIOUS
  <2>2. z.byte = a.byte /\ z.record = r
    BY <2>1
  <2> QED BY <2>1, <2>2
<1>8. /\ LogInv(L, E) /\ e \in EffectsOf(L) /\ (a.pipe = Scalar \/ a.pipe \in 1 .. NumPipes)
  BY <1>1, <1>2, <1>3, <1>4, <1>7, IssueLogs
<1>9. Ordered(L) /\ RecordsTyped(L)
  BY <1>8, LogFacts DEF LogInv, RecordsTyped
<1>10. \A p \in 1 .. NumPipes : \A i \in 1 .. Len(queue[c][p]) :
         p # a.pipe => queue[c][p][i].byte # e.byte
  <2>1. \A p \in 1 .. NumPipes : DOMAIN queue[c][p] = 1 .. Len(queue[c][p])
    <3>1. PICK T : T = EffectsOf(log)
      OBVIOUS
    <3>2. queue \in [Core -> [1 .. NumPipes -> Seq(T)]]
      BY <1>1, <3>1 DEF MemoryInv
    <3> QED BY <3>2
  <2>2. At(c, "compute")
    BY Zenon DEF Issue, Compute
  <2> QED BY <1>2, <1>7, <2>1, <2>2 DEF CommitsInTurn
<1>11. CASE launch.inOrder \/ a.pipe = Scalar
  <2>1. CommitAll(<< e >>) /\ R = queue
    BY <1>2, <1>3, <1>7, <1>11, Zenon DEF Issue
  <2>2. \A p \in 1 .. NumPipes : \A i \in 1 .. Len(queue[c][p]) : queue[c][p][i].byte # e.byte
    <3>1. CASE a.pipe = Scalar
      <4>1. \A p \in 1 .. NumPipes : p # a.pipe
        BY <3>1, AccessAssumption DEF Scalar
      <4> QED BY <1>10, <4>1
    <3>2. CASE launch.inOrder
      <4>1. \A p \in 1 .. NumPipes : queue[c][p] = << >>
        BY <1>1, <3>2 DEF QueueInv, QueuesOf, Empty
      <4>2. Len(<< >>) = 0 /\ 1 .. 0 = {}
        OBVIOUS
      <4> QED BY <4>1, <4>2
    <3> QED BY <1>11, <3>1, <3>2
  <2>3. Store(L, queue, h, t)
    BY <1>1, <1>5, <1>6, <1>7, <1>8, <1>9, <2>1, <2>2, IssueCommits
  <2>4. Added(L, R, c)
    BY <1>5, <1>6, <2>1 DEF Added
  <2> QED BY <2>1, <2>3, <2>4
<1>12. CASE ~ (launch.inOrder \/ a.pipe = Scalar)
  <2>1. PICK p \in 1 .. NumPipes : p = a.pipe
    BY <1>8, <1>12
  <2>2. h = hist /\ t = races /\ queue' = [queue EXCEPT ![c][a.pipe] = Append(@, e)]
    BY <1>2, <1>3, <1>7, <1>12, Zenon DEF Issue
  <2>3. Appended(queue, R, c, p, e)
    <3>1. PICK T : T = EffectsOf(L) /\ e \in T
      BY <1>8
    <3>2. queue \in [Core -> [1 .. NumPipes -> Seq(T)]]
      <4>1. PICK S : S = EffectsOf(log) /\ S \subseteq T
        <5>1. log \subseteq L
          BY <1>6
        <5> QED BY <1>1, <3>1, <5>1, GoodGrows DEF MemoryInv
      <4>2. queue \in [Core -> [1 .. NumPipes -> Seq(S)]]
        BY <1>1, <4>1 DEF MemoryInv
      <4>3. \A s \in Seq(S) : s \in Seq(T)
        BY <4>1
      <4> QED BY <4>2, <4>3
    <3>3. PICK s \in Seq(T) : s = queue[c][p]
      BY <3>2
    <3>4. PICK u \in Seq(T) : /\ u = Append(s, e) /\ Len(s) \in Nat /\ Len(u) = Len(s) + 1
                              /\ u[Len(s) + 1] = e /\ \A i \in 1 .. Len(s) : u[i] = s[i]
      <4>1. /\ Append(s, e) \in Seq(T) /\ Len(s) \in Nat /\ Len(Append(s, e)) = Len(s) + 1
            /\ Append(s, e)[Len(s) + 1] = e /\ \A i \in 1 .. Len(s) : Append(s, e)[i] = s[i]
        BY <3>1, AppendFacts
      <4> QED BY <4>1
    <3>5. R = [queue EXCEPT ![c][p] = u]
      BY <2>1, <2>2, <3>3, <3>4
    <3>6. /\ R[c][p] = u /\ DOMAIN R = Core /\ DOMAIN queue = Core
          /\ \A d \in Core : \A g \in 1 .. NumPipes : d # c \/ g # p => R[d][g] = queue[d][g]
      BY <3>2, <3>5
    <3> QED BY <3>3, <3>4, <3>6 DEF Appended
  <2>4. \A g \in 1 .. NumPipes : \A i \in 1 .. Len(queue[c][g]) : g # p => queue[c][g][i].byte # e.byte
    BY <1>10, <2>1
  <2>5. Store(L, R, hist, races)
    BY <1>1, <1>5, <1>6, <1>7, <1>12, <2>3, <2>4, IssueQueues
  <2>6. OneMore(queue, R, c, p, e)
    BY <2>3, AppendedWaits
  <2>7. \A d \in Core : d # c => R[d] = queue[d]
    BY <1>1, <2>2 DEF MemoryInv
  <2>8. Added(L, R, c)
    BY <1>5, <1>6, <1>7, <2>6, <2>7 DEF Added, OneMore
  <2> QED BY <2>2, <2>5, <2>8
<1> QED BY <1>11, <1>12

-----------------------------------------------------------------------------
(* A position nobody has executed is a secret.                             *)
LEMMA FreshSecret ==
  ASSUME RaceInv, NEW c \in Core, NEW s, s \notin Executed
  PROVE  Secret(log, c, s)
<1>1. \A d \in Core : s \notin known[d]
  BY DEF RaceInv, Books, KnownInv, Sound
<1>2. \A k \in FlagKey : \A n \in Kind : \A i \in 1 .. Len(pub[k][n]) : s \notin pub[k][n][i]
  BY DEF RaceInv, Books, SetsInv, Sound
<1>3. \A k \in FlagKey : \A d \in Core : \A i \in 1 .. Len(lanePub[k][d]) : s \notin lanePub[k][d][i]
  BY DEF RaceInv, Books, LanesInv, Sound
<1>4. \A k \in BarrierKey : s \notin mergedKnown[k]
  BY DEF RaceInv, Books, MergedInv, Sound
<1>5. \A l \in Lock : s \notin lockKnown[l]
  BY DEF RaceInv, Books, HandedInv, Sound
<1>6. \A y \in log : s \notin y.past
  BY DEF RaceInv, LogInv, Sound
<1> QED BY <1>1, <1>2, <1>3, <1>4, <1>5, <1>6 DEF Secret, Unshared

(* It stays one when a core learns of other positions, or of its own,      *)
LEMMA LearningKeepsSecret ==
  ASSUME launch' = launch, NEW L, NEW c, NEW s, Secret(L, c, s),
         UNCHANGED << pub, lanePub, mergedKnown, lockKnown >>,
         known \in [Core -> SUBSET Sites],
         NEW d \in Core, NEW S, d = c \/ s \notin S, known' = [known EXCEPT ![d] = @ \cup S]
  PROVE  Secret(L, c, s)'
<1>1. Core' = Core
  BY SameLaunch
<1>2. Unshared(s)'
  BY <1>1 DEF Secret, Unshared
<1>3. \A e \in Core \ {c} : s \notin known'[e]
  BY DEF Secret
<1> QED BY <1>1, <1>2, <1>3 DEF Secret

(* and when nothing is learnt.                                             *)
LEMMA NothingLearnt ==
  ASSUME launch' = launch, NEW L, NEW c, NEW s, Secret(L, c, s),
         UNCHANGED << known, pub, lanePub, mergedKnown, lockKnown >>
  PROVE  Secret(L, c, s)'
<1>1. Core' = Core
  BY SameLaunch
<1> QED BY <1>1 DEF Secret, Unshared

(* What a wait learns has been published.                                  *)
LEMMA AcquireLearns ==
  ASSUME RaceInv, NEW c \in Core, Acquire(c)
  PROVE  \E S : known' = [known EXCEPT ![c] = @ \cup S] /\ \A s : Unshared(s) => s \notin S
<1>1. SyncBlockWait(c) /\ IsLaunch(launch) /\ TypeOK /\ SetsInv(log, Executed) /\ LanesInv(log, Executed)
  BY DEF Acquire, RaceInv, Books, TypeOK
<1>2. PICK k \in FlagKey : k = FlagKeyOf(c)
  BY <1>1, FlagKeyFacts DEF SyncBlockWait, TypeOK
<1>3. PICK n \in Kind : n = KindOf(c)
  BY <1>1, CoreFacts
<1>4. (HasOpposite(c) <=> Mixed) /\ FlagReady(c, k)
  BY <1>1, <1>2, KindFacts DEF SyncBlockWait
<1>5. CASE ~ Mixed
  <2>1. PICK S : S = Paired(pub[k][n], sameKind[k][n])
    OBVIOUS
  <2>2. known' = [known EXCEPT ![c] = @ \cup S]
    BY <1>2, <1>3, <1>4, <1>5, <2>1 DEF Acquire
  <2>3. /\ sameKind[k][n] \in Nat /\ 0 < sameKind[k][n] /\ sameKind[k][n] <= Len(pub[k][n])
        /\ Len(pub[k][n]) \in Nat
    <3>1. sameKind[k][n] > 0
      BY <1>3, <1>4, <1>5 DEF FlagReady
    <3> QED BY <1>1, <3>1 DEF SetsInv, TypeOK
  <2>4. PICK i \in 1 .. Len(pub[k][n]) : S = pub[k][n][i]
    BY <2>1, <2>3, PairedIsSet
  <2> QED BY <2>2, <2>4 DEF Unshared
<1>6. CASE Mixed /\ n = "AIV"
  <2>1. PICK S : S = Paired(pub[k]["AIC"], aicGen[k] - aivSeen[k][c])
    OBVIOUS
  <2>2. known' = [known EXCEPT ![c] = @ \cup S]
    BY <1>2, <1>3, <1>4, <1>6, <2>1 DEF Acquire
  <2>3. PICK u \in Nat : /\ u = aicGen[k] - aivSeen[k][c] /\ 0 < u /\ u <= Len(pub[k]["AIC"])
                         /\ Len(pub[k]["AIC"]) \in Nat
    <3>1. aivSeen[k][c] < aicGen[k]
      BY <1>3, <1>4, <1>6 DEF FlagReady
    <3>2. aivSeen[k][c] \in Nat /\ aicGen[k] \in Nat
      BY <1>1 DEF TypeOK
    <3>3. aicGen[k] <= Len(pub[k]["AIC"]) /\ Len(pub[k]["AIC"]) \in Nat
      BY <1>1 DEF SetsInv, Kind
    <3> QED BY <3>1, <3>2, <3>3
  <2>4. PICK i \in 1 .. Len(pub[k]["AIC"]) : S = pub[k]["AIC"][i]
    BY <2>1, <2>3, PairedIsSet
  <2>5. "AIC" \in Kind
    BY DEF Kind
  <2> QED BY <2>2, <2>4, <2>5 DEF Unshared
<1>7. CASE Mixed /\ n # "AIV"
  <2>1. PICK D \in SUBSET Core : D = Contributors(c, k)
    BY DEF Contributors
  <2>2. PICK S : S = UNION {Paired(lanePub[k][d], aivCount[k][d]) : d \in D}
    OBVIOUS
  <2>3. known' = [known EXCEPT ![c] = @ \cup S]
    BY <1>2, <1>3, <1>4, <1>7, <2>1, <2>2 DEF Acquire
  <2>4. ASSUME NEW s, Unshared(s), NEW d \in D PROVE s \notin Paired(lanePub[k][d], aivCount[k][d])
    <3>1. aivCount[k][d] > 0
      BY <1>3, <1>4, <1>7, <2>1 DEF FlagReady
    <3>2. /\ aivCount[k][d] \in Nat /\ aivCount[k][d] <= Len(lanePub[k][d])
          /\ Len(lanePub[k][d]) \in Nat
      BY <1>1 DEF TypeOK, LanesInv
    <3>3. PICK u \in Nat : u = aivCount[k][d] /\ 0 < u /\ u <= Len(lanePub[k][d])
      BY <3>1, <3>2
    <3>4. PICK i \in 1 .. Len(lanePub[k][d]) : Paired(lanePub[k][d], u) = lanePub[k][d][i]
      BY <3>2, <3>3, PairedIsSet
    <3>5. d \in Core
      OBVIOUS
    <3> QED BY <2>4, <3>3, <3>4, <3>5 DEF Unshared
  <2>5. \A s : Unshared(s) => s \notin S
    BY <2>2, <2>4
  <2> QED BY <2>3, <2>5
<1> QED BY <1>5, <1>6, <1>7

(* Where an element of a table is extended, each is as it was or extended. *)
LEMMA AppendedEntry ==
  ASSUME NEW A, NEW B, NEW T, NEW f \in [A -> [B -> T]], NEW k, NEW m, NEW v,
         NEW g, g = [f EXCEPT ![k][m] = Append(@, v)], NEW a \in A, NEW b \in B
  PROVE  g[a][b] = f[a][b] \/ g[a][b] = Append(f[a][b], v)
<1>1. g[a] = IF a = k THEN [f[a] EXCEPT ![m] = Append(@, v)] ELSE f[a]
  OBVIOUS
<1>2. f[a] \in [B -> T]
  OBVIOUS
<1>3. [f[a] EXCEPT ![m] = Append(@, v)][b] = IF b = m THEN Append(f[a][b], v) ELSE f[a][b]
  BY <1>2
<1> QED BY <1>1, <1>3

(* A set, a barrier and an unlock share what those know that do not keep   *)
(* the secret.                                                             *)
LEMMA PublishKeepsSecret ==
  ASSUME RaceInv, launch' = launch, NEW L, NEW c, NEW s, Secret(L, c, s),
         NEW d \in Core, d # c, Publish(d)
  PROVE  Secret(L, c, s)'
<1>1. Core' = Core
  BY SameLaunch
<1>2. PICK S : S = known[d] /\ s \notin S /\ S \in SUBSET Sites
  BY DEF Secret, RaceInv, Books, KnownInv
<1>3. PICK D : D = SUBSET Sites
  OBVIOUS
<1>4. /\ pub \in [FlagKey -> [Kind -> Seq(D)]] /\ lanePub \in [FlagKey -> [Core -> Seq(D)]]
  BY <1>3 DEF RaceInv, Books, SetsInv, LanesInv
<1>5. PICK k \in FlagKey : k = FlagKeyOf(d)
  BY FlagKeyFacts DEF Publish, SyncBlockSet, RaceInv, TypeOK
<1>6. UNCHANGED << known, mergedKnown, lockKnown >>
  BY DEF Publish
<1>7. \/ pub' = [pub EXCEPT ![k][KindOf(d)] = Append(@, S)] /\ UNCHANGED lanePub
      \/ lanePub' = [lanePub EXCEPT ![k][d] = Append(@, S)] /\ UNCHANGED pub
  BY <1>2, <1>5 DEF Publish
<1>8. ASSUME NEW q \in Seq(D), \A i \in 1 .. Len(q) : s \notin q[i]
      PROVE  \A i \in 1 .. Len(Append(q, S)) : s \notin Append(q, S)[i]
  <2>1. /\ Len(q) \in Nat /\ Len(Append(q, S)) = Len(q) + 1 /\ Append(q, S)[Len(q) + 1] = S
        /\ \A i \in 1 .. Len(q) : Append(q, S)[i] = q[i]
    BY <1>2, <1>3, AppendFacts
  <2>2. \A i \in 1 .. Len(Append(q, S)) : i \in 1 .. Len(q) \/ i = Len(q) + 1
    BY <2>1
  <2> QED BY <1>2, <1>8, <2>1, <2>2
<1>9. ASSUME NEW e \in FlagKey, NEW n \in Kind
      PROVE  \A i \in 1 .. Len(pub'[e][n]) : s \notin pub'[e][n][i]
  <2>1. PICK q \in Seq(D) : q = pub[e][n] /\ \A i \in 1 .. Len(q) : s \notin q[i]
    BY <1>4 DEF Secret, Unshared
  <2>2. ASSUME pub' = [pub EXCEPT ![k][KindOf(d)] = Append(@, S)]
        PROVE  pub'[e][n] = q \/ pub'[e][n] = Append(q, S)
    <3>1. PICK Q : pub \in [FlagKey -> [Kind -> Q]]
      BY <1>4
    <3>2. PICK g, m : g = pub' /\ m = KindOf(d)
      OBVIOUS
    <3>3. g = [pub EXCEPT ![k][m] = Append(@, S)]
      BY <2>2, <3>2
    <3>4. g[e][n] = pub[e][n] \/ g[e][n] = Append(pub[e][n], S)
      BY <3>1, <3>3, AppendedEntry
    <3> QED BY <2>1, <3>2, <3>4
  <2> QED BY <1>7, <1>8, <2>1, <2>2
<1>10. ASSUME NEW e \in FlagKey, NEW b \in Core
       PROVE  \A i \in 1 .. Len(lanePub'[e][b]) : s \notin lanePub'[e][b][i]
  <2>1. PICK q \in Seq(D) : q = lanePub[e][b] /\ \A i \in 1 .. Len(q) : s \notin q[i]
    BY <1>4 DEF Secret, Unshared
  <2>2. ASSUME lanePub' = [lanePub EXCEPT ![k][d] = Append(@, S)]
        PROVE  lanePub'[e][b] = q \/ lanePub'[e][b] = Append(q, S)
    <3>1. PICK Q : lanePub \in [FlagKey -> [Core -> Q]]
      BY <1>4
    <3>2. PICK g, m : g = lanePub' /\ m = d
      OBVIOUS
    <3>3. g = [lanePub EXCEPT ![k][m] = Append(@, S)]
      BY <2>2, <3>2
    <3>4. g[e][b] = lanePub[e][b] \/ g[e][b] = Append(lanePub[e][b], S)
      BY <3>1, <3>3, AppendedEntry
    <3> QED BY <2>1, <3>2, <3>4
  <2> QED BY <1>7, <1>8, <2>1, <2>2
<1>11. Unshared(s)'
  BY <1>1, <1>6, <1>9, <1>10 DEF Secret, Unshared
<1> QED BY <1>1, <1>6, <1>11 DEF Secret

(* ... a barrier fires at which the core has not arrived, ...              *)
LEMMA FiresKeepsSecret ==
  ASSUME RaceInv, launch' = launch, NEW L, NEW c \in Core, NEW s, Secret(L, c, s),
         NEW d \in Core, d # c, BarrierFires(d), c \notin arrived[BarrierKeyOf(d)]
  PROVE  Secret(L, c, s)'
<1>1. Core' = Core
  BY SameLaunch
<1>2. PICK k \in BarrierKey : k = BarrierKeyOf(d)
  BY BarrierKeyFacts DEF BarrierFires, SyncBlockFires, RaceInv, TypeOK
<1>3. PICK S : S = UNION {known[e] : e \in arrived[k] \cup {d}}
  OBVIOUS
<1>4. s \notin S
  <2>1. arrived[k] \cup {d} \subseteq Core \ {c}
    BY <1>2 DEF RaceInv, TypeOK
  <2> QED BY <1>3, <2>1 DEF Secret
<1>5. /\ mergedKnown \in [BarrierKey -> SUBSET Sites] /\ known \in [Core -> SUBSET Sites]
  BY DEF RaceInv, Books, MergedInv, KnownInv
<1>6. /\ UNCHANGED << pub, lanePub, lockKnown >>
      /\ mergedKnown' = [mergedKnown EXCEPT ![k] = S]
      /\ known' = [known EXCEPT ![d] = @ \cup mergedKnown'[k]]
  BY <1>2, <1>3 DEF BarrierFires
<1>7. \A e \in BarrierKey : s \notin mergedKnown'[e]
  BY <1>4, <1>5, <1>6 DEF Secret, Unshared
<1>8. \A e \in Core \ {c} : s \notin known'[e]
  BY <1>5, <1>6, <1>7 DEF Secret
<1>9. Unshared(s)'
  BY <1>1, <1>6, <1>7 DEF Secret, Unshared
<1> QED BY <1>1, <1>8, <1>9 DEF Secret

(* ... and another core gives a lock back.                                 *)
LEMMA GiveKeepsSecret ==
  ASSUME RaceInv, launch' = launch, NEW L, NEW c \in Core, NEW s, Secret(L, c, s),
         NEW d \in Core, d # c, GiveLock(d)
  PROVE  Secret(L, c, s)'
<1>1. Core' = Core
  BY SameLaunch
<1>2. lockKnown \in [Lock -> SUBSET Sites] /\ s \notin known[d]
  BY DEF RaceInv, Books, HandedInv, Secret
<1>3. /\ UNCHANGED << known, pub, lanePub, mergedKnown >>
      /\ lockKnown' = [lockKnown EXCEPT ![Op(d).lock] = @ \cup known[d]]
  BY DEF GiveLock
<1>4. \A l \in Lock : s \notin lockKnown'[l]
  BY <1>2, <1>3 DEF Secret, Unshared
<1>5. Unshared(s)'
  BY <1>1, <1>3, <1>4 DEF Secret, Unshared
<1> QED BY <1>1, <1>3, <1>5 DEF Secret

-----------------------------------------------------------------------------
(* A run that is not aborted has no core that failed, and one that has     *)
(* finished has them all done.                                             *)
LEMMA NextReturn ==
  ASSUME TypeOK, ReturnInv, [Next]_vars
  PROVE  ReturnInv'
<1>1. Core' = Core
  BY NextKeepsLaunch
<1>2. ASSUME NEW d \in Core, Step(d) PROVE ReturnInv'
  <2>1. outcome = "running" /\ \A c \in Core : status[c] # "Failed"
    BY <1>2 DEF ReturnInv, Step, SyncBlockSet, SyncBlockWait, SyncBlockWaitParks, SyncBlockReleased,
           SyncBlockParks, SyncBlockFires, SyncBlockLock, SyncBlockLockParks, ReleaseLock,
           Compute, WaitFlagParks, Fail, Return, Turn
  <2>2. CASE Fail(d)
    <3>1. outcome' = "aborted"
      BY <2>2 DEF Fail
    <3> QED BY <3>1 DEF ReturnInv
  <2>3. CASE ~ Fail(d)
    <3>1. outcome' = outcome
      BY <1>2, <2>3 DEF Step, SyncBlockSet, SyncBlockWait, SyncBlockWaitParks, SyncBlockReleased,
             SyncBlockParks, SyncBlockFires, SyncBlockLock, SyncBlockLockParks, ReleaseLock,
             Compute, WaitFlagParks, Return, Turn
    <3>2. \A c \in Core : status'[c] # "Failed"
      BY <1>2, <2>1, <2>3 DEF Step, SyncBlockSet, SyncBlockWait, SyncBlockWaitParks, SyncBlockReleased,
             SyncBlockParks, SyncBlockFires, SyncBlockLock, SyncBlockLockParks, ReleaseLock,
             Compute, WaitFlagParks, Return, Park, Wake, Stay, TypeOK
    <3> QED BY <1>1, <2>1, <3>1, <3>2 DEF ReturnInv
  <2> QED BY <2>2, <2>3
<1>3. CASE Finish
  <2>1. /\ outcome' = "finished" /\ status' = status
        /\ \A c \in Core : status[c] # "Runnable" /\ status[c] # "Failed" /\ ~ IsBlocked(c)
    BY <1>3 DEF Finish, Stuck, ReturnInv
  <2>2. \A c \in Core : status[c] = "Done"
    BY <2>1 DEF TypeOK, Statuses, IsBlocked
  <2> QED BY <1>1, <2>1, <2>2 DEF ReturnInv
<1>4. CASE Retry
  <2>1. /\ outcome' = "running" /\ \A c \in Core : status[c] # "Failed"
        /\ \A c \in Core : status'[c] = "Runnable" \/ status'[c] = status[c]
    BY <1>4 DEF Retry, Stuck, ReturnInv, Wake
  <2> QED BY <1>1, <2>1 DEF ReturnInv
<1>5. CASE Deadlock
  <2>1. outcome' = "deadlock"
    BY <1>5 DEF Deadlock
  <2> QED BY <2>1 DEF ReturnInv
<1>6. CASE UNCHANGED vars
  BY <1>1, <1>6 DEF ReturnInv, vars
<1> QED BY <1>2, <1>3, <1>4, <1>5, <1>6 DEF Next

-----------------------------------------------------------------------------
(* Who has nothing queued keeps it so when another core takes its turn.    *)
LEMMA TurnLeavesOthers ==
  ASSUME TypeOK, NEW d \in Core, Step(d)
  PROVE  /\ status[d] = "Runnable"
         /\ \A c \in Core : c # d /\ status'[c] = "Done" => status[c] = "Done"
         /\ \A c \in Core : \A k \in BarrierKey : c # d /\ c \in arrived'[k] => c \in arrived[k]
<1>1. status[d] = "Runnable"
  BY DEF Step, SyncBlockSet, SyncBlockWait, SyncBlockWaitParks, SyncBlockReleased,
         SyncBlockParks, SyncBlockFires, SyncBlockLock, SyncBlockLockParks, ReleaseLock,
         Compute, WaitFlagParks, Fail, Return, Turn, CanPick
<1>2. ASSUME NEW c \in Core, c # d, status'[c] = "Done" PROVE status[c] = "Done"
  BY <1>2 DEF Step, SyncBlockSet, SyncBlockWait, SyncBlockWaitParks, SyncBlockReleased,
         SyncBlockParks, SyncBlockFires, SyncBlockLock, SyncBlockLockParks, ReleaseLock,
         Compute, WaitFlagParks, Fail, Return, Park, Wake, Stay, TypeOK
<1>3. ASSUME NEW c \in Core, NEW k \in BarrierKey, c # d, c \in arrived'[k] PROVE c \in arrived[k]
  <2>1. CASE SyncBlockReleased(d) \/ SyncBlockParks(d) \/ SyncBlockFires(d)
    <3>1. PICK j : j = BarrierKeyOf(d)
      OBVIOUS
    <3>2. \/ UNCHANGED arrived
          \/ arrived' = [arrived EXCEPT ![j] = arrived[j] \cup {d}]
          \/ arrived' = [arrived EXCEPT ![j] = {}]
      BY <2>1, <3>1 DEF SyncBlockReleased, SyncBlockParks, SyncBlockFires
    <3>3. arrived \in [BarrierKey -> SUBSET Core]
      BY DEF TypeOK
    <3> QED BY <1>3, <3>2, <3>3
  <2>2. CASE ~ (SyncBlockReleased(d) \/ SyncBlockParks(d) \/ SyncBlockFires(d))
    BY <1>3, <2>2, SitesApart DEF barrierVars
  <2> QED BY <2>1, <2>2
<1> QED BY <1>1, <1>2, <1>3

(* A core that has drained its queues may arrive or return.                *)
LEMMA DrainedIsIdle ==
  ASSUME TypeOK, launch' = launch, Idle(queue), Over(queue), NEW d \in Core, Step(d),
         NEW R, Empty(R, d), \A c \in Core : c # d => R[c] = queue[c]
  PROVE  Idle(R)' /\ Over(R)'
<1>1. Core' = Core
  BY SameLaunch
<1>2. \A c \in Core : c # d /\ Empty(queue, c) => Empty(R, c)
  BY DEF Empty
<1>3. \A c \in Core : \A k \in BarrierKey : c \in arrived'[k] => Empty(R, c)
  BY <1>2, TurnLeavesOthers DEF Idle
<1>4. \A c \in Core : status'[c] = "Done" => Empty(R, c)
  BY <1>2, TurnLeavesOthers DEF Over
<1> QED BY <1>1, <1>3, <1>4 DEF Idle, Over, Empty

(* One that has not does neither.                                          *)
LEMMA OthersAreIdle ==
  ASSUME TypeOK, launch' = launch, Idle(queue), Over(queue), UNCHANGED arrived,
         \A c \in Core : status'[c] = "Done" => status[c] = "Done",
         NEW R, \A c \in Core : \/ R[c] = queue[c]
                                \/ status[c] # "Done" /\ \A k \in BarrierKey : c \notin arrived[k]
  PROVE  Idle(R)' /\ Over(R)'
<1>1. Core' = Core
  BY SameLaunch
<1>2. \A c \in Core : R[c] = queue[c] /\ Empty(queue, c) => Empty(R, c)
  BY DEF Empty
<1>3. \A c \in Core : \A k \in BarrierKey : c \in arrived'[k] => Empty(R, c)
  BY <1>2 DEF Idle
<1>4. \A c \in Core : status'[c] = "Done" => Empty(R, c)
  BY <1>2 DEF Over
<1> QED BY <1>1, <1>3, <1>4 DEF Idle, Over, Empty

(* What waits stays secret in a step that keeps secrets.                   *)
LEMMA SecretsStay ==
  ASSUME launch' = launch, NEW L, NEW R, SecretInv(L, queue),
         \A c \in Core : R[c] = queue[c] \/ Empty(R, c),
         \A c \in Core : \A s : ~ Empty(R, c) /\ Secret(L, c, s) => Secret(L, c, s)'
  PROVE  SecretInv(L, R)'
<1>1. Core' = Core
  BY SameLaunch
<1>2. ASSUME NEW c \in Core, NEW p \in 1 .. NumPipes, NEW i \in 1 .. Len(R[c][p])
      PROVE  Secret(L, c, << c, R[c][p][i].record.pos >>)'
  <2>1. ~ Empty(R, c)
    <3>1. Len(<< >>) = 0 /\ 1 .. 0 = {}
      OBVIOUS
    <3> QED BY <3>1 DEF Empty
  <2>2. Secret(L, c, << c, R[c][p][i].record.pos >>)
    BY <2>1 DEF SecretInv
  <2> QED BY <2>1, <2>2
<1> QED BY <1>1, <1>2 DEF SecretInv

-----------------------------------------------------------------------------
(* The actions that drain the core, ...                                    *)
Draining(d) ==
  \/ Publish(d) \/ BarrierParks(d) \/ BarrierFires(d) \/ TakeLock(d) \/ GiveLock(d)
  \/ DrainAtReturn(d)

(* Whichever it is, it commits all the core has queued, and no more.       *)
LEMMA DrainingDrains ==
  ASSUME RaceInv, PreciseInv, FoundInv, CommitsInTurn, NEW d \in Core, Draining(d),
         NEW R, R = queue', NEW h, h = hist', NEW t, t = races'
  PROVE  Store(log, R, h, t) /\ Empty(R, d) /\ \A c \in Core : c # d => R[c] = queue[c]
<1>1. /\ TypeOK /\ launch \in Launches /\ LogInv(log, Executed) /\ MemoryInv(log)
      /\ Store(log, queue, hist, races) /\ SecretInv(log, queue) /\ Idle(queue)
  BY DEF RaceInv, FoundInv
<1>2. CASE Publish(d)
  <2>1. SyncBlockSet(d) /\ At(d, "set")
    BY <1>2 DEF Publish, SyncBlockSet
  <2>2. FlagKeyOf(d) \in FlagKey
    BY <1>1, <2>1, FlagKeyFacts DEF TypeOK
  <2>3. PICK p \in 1 .. NumPipes : p = launch.tpipe[Op(d).flag] /\ FlushPipe(d, p)
    <3>1. FlagKeyOf(d).flag = Op(d).flag
      BY DEF FlagKeyOf
    <3>2. launch.tpipe[Op(d).flag] \in 1 .. NumPipes
      BY <1>1, <2>2, <3>1, AccessAssumption DEF FlagKey
    <3> QED BY <1>2, <3>1, <3>2 DEF Publish
  <2>4. \A g \in 1 .. NumPipes \ {p} : queue[d][g] = << >>
    BY <2>1, <2>3 DEF CommitsInTurn
  <2> QED BY <1>1, <2>3, <2>4, FlushPipeStep
<1>3. CASE FlushAllPipes(d)
  BY <1>1, <1>3, FlushAllStep
<1>4. CASE UNCHANGED memory /\ ~ Arriving(d) /\ At(d, "barrier")
  <2>1. R = queue /\ h = hist /\ t = races
    BY <1>4 DEF memory
  <2>2. BarrierKeyOf(d) \in BarrierKey
    BY <1>1, <1>4, BarrierKeyFacts DEF TypeOK
  <2>3. Empty(queue, d)
    BY <1>1, <1>4, <2>2 DEF Idle, Arriving
  <2> QED BY <1>1, <2>1, <2>3
<1> QED BY <1>2, <1>3, <1>4 DEF Draining, BarrierParks, BarrierFires, SyncBlockParks, SyncBlockFires,
           DrainOnArrival, TakeLock, GiveLock, DrainAtReturn

(* which share none of the secrets of the others, ...                      *)
LEMMA DrainingKeepsSecrets ==
  ASSUME RaceInv, launch' = launch, Idle(queue), NEW d \in Core, Draining(d), NEW L,
         NEW c \in Core, c # d, ~ Empty(queue, c), NEW s, Secret(L, c, s)
  PROVE  Secret(L, c, s)'
<1>1. CASE Publish(d)
  BY <1>1, PublishKeepsSecret
<1>2. CASE BarrierFires(d)
  <2>1. BarrierKeyOf(d) \in BarrierKey
    BY <1>2, BarrierKeyFacts DEF BarrierFires, SyncBlockFires, RaceInv, TypeOK
  <2>2. c \notin arrived[BarrierKeyOf(d)]
    BY <2>1 DEF Idle
  <2> QED BY <1>2, <2>2, FiresKeepsSecret
<1>3. CASE GiveLock(d)
  BY <1>3, GiveKeepsSecret
<1>4. CASE TakeLock(d)
  <2>1. Op(d).lock \in Lock
    <3>1. At(d, "lock") /\ IsLaunch(launch) /\ pc[d] \in Nat \ {0}
      BY <1>4 DEF TakeLock, SyncBlockLock, RaceInv, TypeOK
    <3> QED BY <3>1, LockFacts
  <2>2. PICK S : S = lockKnown[Op(d).lock] /\ s \notin S
    BY <2>1 DEF Secret, Unshared
  <2>3. /\ known' = [known EXCEPT ![d] = @ \cup S]
        /\ UNCHANGED << pub, lanePub, mergedKnown, lockKnown >>
    BY <1>4, <2>2 DEF TakeLock
  <2>4. known \in [Core -> SUBSET Sites]
    BY DEF RaceInv, Books, KnownInv
  <2> QED BY <2>2, <2>3, <2>4, LearningKeepsSecret
<1>5. CASE BarrierParks(d) \/ DrainAtReturn(d)
  <2>1. UNCHANGED << known, pub, lanePub, mergedKnown, lockKnown >>
    BY <1>5 DEF BarrierParks, DrainAtReturn, history
  <2> QED BY <2>1, NothingLearnt
<1> QED BY <1>1, <1>2, <1>3, <1>4, <1>5 DEF Draining

(* and those that leave the queues and the log alone.                      *)
Quietly == (\E d \in Core : Acquire(d) \/ BarrierReleased(d)) \/ Other \/ UNCHANGED raceVars

(* None of these tells what is a secret, ...                               *)
LEMMA QuietlyKeepsSecrets ==
  ASSUME RaceInv, launch' = launch, Quietly, NEW L, NEW c \in Core, NEW s, Secret(L, c, s)
  PROVE  Secret(L, c, s)'
<1>1. known \in [Core -> SUBSET Sites]
  BY DEF RaceInv, Books, KnownInv
<1>2. ASSUME NEW d \in Core, Acquire(d) PROVE Secret(L, c, s)'
  <2>1. PICK S : known' = [known EXCEPT ![d] = @ \cup S] /\ \A u : Unshared(u) => u \notin S
    BY <1>2, AcquireLearns
  <2>2. s \notin S
    BY <2>1 DEF Secret
  <2>3. UNCHANGED << pub, lanePub, mergedKnown, lockKnown >>
    BY <1>2 DEF Acquire
  <2> QED BY <1>1, <2>1, <2>2, <2>3, LearningKeepsSecret
<1>3. ASSUME NEW d \in Core, BarrierReleased(d) PROVE Secret(L, c, s)'
  <2>1. BarrierKeyOf(d) \in BarrierKey
    BY <1>3, BarrierKeyFacts DEF BarrierReleased, SyncBlockReleased, RaceInv, TypeOK
  <2>2. PICK S : S = mergedKnown[BarrierKeyOf(d)] /\ s \notin S
    BY <2>1 DEF Secret, Unshared
  <2>3. /\ known' = [known EXCEPT ![d] = @ \cup S]
        /\ UNCHANGED << pub, lanePub, mergedKnown, lockKnown >>
    BY <1>3, <2>2 DEF BarrierReleased
  <2> QED BY <1>1, <2>2, <2>3, LearningKeepsSecret
<1>4. CASE Other \/ UNCHANGED raceVars
  <2>1. UNCHANGED << known, pub, lanePub, mergedKnown, lockKnown >>
    BY <1>4 DEF Other, raceVars, history
  <2> QED BY <2>1, NothingLearnt
<1> QED BY <1>2, <1>3, <1>4 DEF Quietly

(* ... and none brings work to a core that has arrived or returned.        *)
LEMMA QuietlyIsIdle ==
  ASSUME TypeOK, launch' = launch, ThereInv, Idle(queue), Over(queue), Quietly
  PROVE  Idle(queue)' /\ Over(queue)' /\ UNCHANGED memory
<1>1. UNCHANGED memory
  BY DEF Quietly, Acquire, BarrierReleased, Other, raceVars, memory
<1>2. PICK R : R = queue /\ R = queue'
  BY <1>1 DEF memory
<1>3. ASSUME NEW d \in Core,
             \/ SyncBlockWait(d) \/ SyncBlockReleased(d) \/ SyncBlockWaitParks(d)
             \/ SyncBlockLockParks(d) \/ WaitFlagParks(d) \/ Fail(d)
      PROVE  UNCHANGED arrived /\ \A c \in Core : status'[c] = "Done" => status[c] = "Done"
  BY <1>3 DEF SyncBlockWait, SyncBlockReleased, SyncBlockWaitParks, SyncBlockLockParks,
         WaitFlagParks, Fail, Park, Stay, barrierVars, TypeOK
<1>4. UNCHANGED arrived /\ \A c \in Core : status'[c] = "Done" => status[c] = "Done"
  <2>1. CASE Finish \/ Retry \/ Deadlock \/ UNCHANGED vars
    BY <2>1 DEF Finish, Retry, Deadlock, vars, barrierVars, Wake
  <2>2. CASE \E d \in Core : \/ SyncBlockWait(d) \/ SyncBlockReleased(d) \/ SyncBlockWaitParks(d)
                             \/ SyncBlockLockParks(d) \/ WaitFlagParks(d) \/ Fail(d)
    BY <1>3, <2>2
  <2> QED BY <2>1, <2>2 DEF Quietly, Acquire, BarrierReleased, Other, raceVars
<1>5. Idle(R)' /\ Over(R)'
  BY <1>2, <1>4, OthersAreIdle
<1>6. Core' = Core
  BY SameLaunch
<1> QED BY <1>1, <1>2, <1>5, <1>6 DEF Idle, Over, Empty

-----------------------------------------------------------------------------
(* An issue tells nobody, and who issues has not arrived and not returned. *)
LEMMA IssueKeepsSecrets ==
  ASSUME RaceInv, launch' = launch, SecretInv(log, queue), NEW d \in Core, Issue(d),
         NEW L, NEW R, Added(L, R, d)
  PROVE  SecretInv(L, R)'
<1>1. Core' = Core
  BY SameLaunch
<1>2. PICK y \in L : L = log \cup {y} /\ y.record.core = d /\ y.past = known[d]
  BY DEF Added
<1>3. /\ known \in [Core -> SUBSET Sites] /\ known' = [known EXCEPT ![d] = @ \cup {<< d, pc[d] >>}]
      /\ UNCHANGED << pub, lanePub, mergedKnown, lockKnown >>
  BY Zenon DEF RaceInv, Books, KnownInv, Issue
<1>4. ASSUME NEW c \in Core, NEW n, Secret(log, c, << c, n >>) PROVE Secret(L, c, << c, n >>)'
  <2>1. PICK s : s = << c, n >> /\ Secret(log, c, s) /\ (d = c \/ s \notin {<< d, pc[d] >>})
    BY <1>4
  <2>2. Secret(L, c, s)
    BY <1>2, <2>1 DEF Secret
  <2> QED BY <1>3, <2>1, <2>2, LearningKeepsSecret
<1>5. ASSUME NEW c \in Core, NEW p \in 1 .. NumPipes, NEW i \in 1 .. Len(R[c][p])
      PROVE  Secret(log, c, << c, R[c][p][i].record.pos >>)
  <2>1. CASE i \in 1 .. Len(queue[c][p]) /\ R[c][p][i] = queue[c][p][i]
    BY <2>1 DEF SecretInv
  <2>2. CASE c = d /\ R[c][p][i].record.pos = pc[d]
    <3>1. << d, pc[d] >> \notin Executed
      BY DEF Added
    <3> QED BY <2>2, <3>1, FreshSecret
  <2> QED BY <2>1, <2>2 DEF Added
<1> QED BY <1>1, <1>4, <1>5 DEF SecretInv

(* The issuer is no core that has arrived or returned.                     *)
LEMMA IssuerIsBusy ==
  ASSUME TypeOK, launch' = launch, ThereInv, Idle(queue), Over(queue), NEW d \in Core, Issue(d),
         NEW L, NEW R, Added(L, R, d)
  PROVE  Idle(R)' /\ Over(R)'
<1>1. /\ At(d, "compute") /\ status[d] = "Runnable" /\ UNCHANGED << arrived, status >>
  BY Zenon DEF Issue, Compute, Turn, CanPick, barrierVars, Stay
<1>2. \A k \in BarrierKey : d \notin arrived[k]
  BY <1>1 DEF ThereInv, At
<1>3. \A c \in Core : \/ R[c] = queue[c]
                      \/ status[c] # "Done" /\ \A k \in BarrierKey : c \notin arrived[k]
  BY <1>1, <1>2 DEF Added
<1> QED BY <1>1, <1>3, OthersAreIdle

(* What is said of given queues, histories and reports holds after a step  *)
(* if it holds before.                                                     *)
LEMMA StorePrimed ==
  ASSUME launch' = launch, NEW L, NEW Q, NEW h, NEW t, Store(L, Q, h, t)
  PROVE  Store(L, Q, h, t)'
<1>1. Core' = Core
  BY SameLaunch
<1>2. PICK m : m = [hist |-> h, races |-> t]
  OBVIOUS
<1>3. PICK D : D = Committed(L, Q)
  OBVIOUS
<1>4. Clear(D, m)'
  <2>1. Clear(D, m)
    BY <1>2, <1>3 DEF Store
  <2> QED BY <1>1, <2>1 DEF Clear, StandsFor, Covers, ClashesOrdered, Leq
<1>5. QueueInv(L, Q)'
  <2>1. QueueInv(L, Q)
    BY DEF Store
  <2> QED BY <1>1, <2>1 DEF QueueInv, QueuesOf, QueueOrder, CommittedFirst, Empty, Leq
<1>6. IdsDiffer(L)'
  BY DEF Store
<1> QED BY <1>2, <1>3, <1>4, <1>5, <1>6 DEF Store

(* Hence what has been shown of the state after a step is the invariant.   *)
LEMMA AfterFound ==
  ASSUME launch' = launch, NEW L, L = log', NEW R, R = queue', NEW h, h = hist', NEW t, t = races',
         Store(L, R, h, t), SecretInv(L, R)', Idle(R)', Over(R)', ThereInv', ReturnInv'
  PROVE  FoundInv'
<1>1. Store(L, R, h, t)'
  BY StorePrimed
<1>2. Store(log, queue, hist, races)'
  BY <1>1 DEF Store, IdsDiffer, QueueInv, Clear, Committed
<1>3. SecretInv(log, queue)' /\ Idle(queue)' /\ Over(queue)'
  BY DEF SecretInv, Idle, Over, Empty, Secret
<1> QED BY <1>2, <1>3 DEF FoundInv

(* The invariant is inductive, where accesses commit in turn.              *)
LEMMA NextFound ==
  RaceInv /\ PreciseInv /\ FoundInv /\ CommitsInTurn /\ [RaceNext]_raceVars => FoundInv'
<1> SUFFICES ASSUME RaceInv, PreciseInv, FoundInv, CommitsInTurn, [RaceNext]_raceVars
             PROVE  FoundInv'
  OBVIOUS
<1>1. /\ TypeOK /\ Store(log, queue, hist, races) /\ SecretInv(log, queue)
      /\ ThereInv /\ Idle(queue) /\ Over(queue) /\ ReturnInv
  BY DEF RaceInv, FoundInv
<1>2. launch' = launch
  BY <1>1, RaceStepGrows
<1>3. ThereInv' /\ ReturnInv'
  BY <1>1, RaceStepIsStep, NextThere, NextReturn
<1>4. PICK L : L = log'
  OBVIOUS
<1>5. PICK R : R = queue'
  OBVIOUS
<1>6. PICK h : h = hist'
  OBVIOUS
<1>7. PICK t : t = races'
  OBVIOUS
<1>8. ASSUME NEW d \in Core, Issue(d) PROVE FoundInv'
  <2>1. Store(L, R, h, t) /\ Added(L, R, d)
    BY <1>1, <1>4, <1>5, <1>6, <1>7, <1>8, IssueStep
  <2>2. SecretInv(L, R)'
    BY <1>1, <1>2, <1>8, <2>1, IssueKeepsSecrets
  <2>3. Idle(R)' /\ Over(R)'
    BY <1>1, <1>2, <1>8, <2>1, IssuerIsBusy
  <2> QED BY <1>2, <1>3, <1>4, <1>5, <1>6, <1>7, <2>1, <2>2, <2>3, AfterFound
<1>9. ASSUME NEW d \in Core, Draining(d) PROVE FoundInv'
  <2>1. L = log
    BY <1>4, <1>9 DEF Draining, Publish, BarrierParks, BarrierFires, TakeLock, GiveLock,
           DrainAtReturn, history
  <2>2. Store(L, R, h, t) /\ Empty(R, d) /\ \A c \in Core : c # d => R[c] = queue[c]
    BY <1>5, <1>6, <1>7, <1>9, <2>1, DrainingDrains
  <2>3. Step(d)
    BY <1>9 DEF Draining, Step, Publish, BarrierParks, BarrierFires, TakeLock, GiveLock, DrainAtReturn
  <2>4. Idle(R)' /\ Over(R)'
    BY <1>1, <1>2, <2>2, <2>3, DrainedIsIdle
  <2>5. \A c \in Core : \A s : ~ Empty(R, c) /\ Secret(L, c, s) => Secret(L, c, s)'
    <3> SUFFICES ASSUME NEW c \in Core, NEW s, ~ Empty(R, c), Secret(L, c, s) PROVE Secret(L, c, s)'
      OBVIOUS
    <3>1. c # d /\ ~ Empty(queue, c)
      BY <2>2 DEF Empty
    <3> QED BY <1>1, <1>2, <1>9, <3>1, DrainingKeepsSecrets
  <2>6. SecretInv(L, R)'
    BY <1>1, <1>2, <2>1, <2>2, <2>5, SecretsStay
  <2> QED BY <1>2, <1>3, <1>4, <1>5, <1>6, <1>7, <2>2, <2>4, <2>6, AfterFound
<1>10. CASE Quietly
  <2>1. Idle(queue)' /\ Over(queue)' /\ UNCHANGED memory
    BY <1>1, <1>2, <1>10, QuietlyIsIdle
  <2>2. L = log /\ R = queue /\ h = hist /\ t = races
    BY <1>4, <1>5, <1>6, <1>7, <1>10, <2>1 DEF Quietly, Acquire, BarrierReleased, Other, raceVars,
           history, memory
  <2>3. \A c \in Core : \A s : Secret(L, c, s) => Secret(L, c, s)'
    <3> SUFFICES ASSUME NEW c \in Core, NEW s, Secret(L, c, s) PROVE Secret(L, c, s)'
      OBVIOUS
    <3> QED BY <1>2, <1>10, QuietlyKeepsSecrets
  <2>4. SecretInv(L, R)'
    BY <1>1, <1>2, <2>2, <2>3, SecretsStay
  <2>5. Idle(R)' /\ Over(R)'
    BY <1>5, <2>1 DEF Idle, Over, Empty
  <2> QED BY <1>1, <1>2, <1>3, <1>4, <1>5, <1>6, <1>7, <2>2, <2>4, <2>5, AfterFound
<1> QED BY <1>8, <1>9, <1>10 DEF RaceNext, Draining, Quietly

(* At the start there is nothing to stand for.                             *)
LEMMA InitFound == RaceInit => FoundInv
<1> SUFFICES ASSUME RaceInit PROVE FoundInv
  OBVIOUS
<1>1. /\ log = {} /\ races = {} /\ queue = [c \in Core |-> [p \in 1 .. NumPipes |-> << >>]]
      /\ hist = [b \in Byte |-> Fresh]
  BY DEF RaceInit
<1>2. /\ status = [c \in Core |-> "Runnable"] /\ arrived = [k \in BarrierKey |-> {}]
      /\ outcome = "running"
  BY DEF RaceInit, Init
<1>3. \A c \in Core : Empty(queue, c)
  BY <1>1 DEF Empty
<1>4. \A c \in Core : \A p \in 1 .. NumPipes : \A i \in 1 .. Len(queue[c][p]) : FALSE
  <2>1. Len(<< >>) = 0 /\ 1 .. 0 = {}
    OBVIOUS
  <2> QED BY <1>1, <2>1
<1>5. QueueInv(log, queue)
  BY <1>3, <1>4 DEF QueueInv, QueuesOf, QueueOrder, CommittedFirst
<1>6. PICK m : m = [hist |-> hist, races |-> races] /\ m.hist = hist /\ m.races = races
  BY MemoryFields, Zenon
<1>7. Clear(Committed(log, queue), m)
  <2>1. Committed(log, queue) = {}
    BY <1>1 DEF Committed
  <2>2. Fresh.lastWrite = None /\ DOMAIN Fresh.reads = {}
    <3>1. DOMAIN << >> = {}
      OBVIOUS
    <3> QED BY <3>1 DEF Fresh
  <2>3. \A b \in Byte : m.hist[b] = Fresh /\ OnByte({}, b) = {}
    BY <1>1, <1>6 DEF OnByte
  <2>4. StandsFor(Fresh, {}) /\ ClashesOrdered({})
    BY <2>2 DEF StandsFor, ClashesOrdered
  <2> QED BY <2>1, <2>3, <2>4 DEF Clear
<1>8. Store(log, queue, hist, races)
  BY <1>1, <1>5, <1>6, <1>7 DEF Store, IdsDiffer
<1>9. SecretInv(log, queue)
  BY <1>4 DEF SecretInv
<1>10. ThereInv /\ Idle(queue) /\ Over(queue) /\ ReturnInv
  BY <1>2 DEF ThereInv, Idle, Over, ReturnInv
<1> QED BY <1>8, <1>9, <1>10 DEF FoundInv

(* Where every flag is used one set at a time, the accesses of a core to a *)
(* byte commit in the order of the program and before a set publishes      *)
(* them, and a byte is accessed in one way only, a run that ends has       *)
(* reported a race on every byte that two accesses nothing orders clash    *)
(* on: the one record per core that ShadowMemory::access keeps, and the    *)
(* one report per access, lose nothing.                                    *)
THEOREM RacesAreFound ==
  RaceSpec /\ []OneSetAtATime /\ []CommitsInTurn /\ []OneClassEach => []RacesAreReported
<1>1. RaceInit => PreciseInv /\ FoundInv
  BY InitPrecise, InitFound
<1>2. RaceInv /\ PreciseInv /\ OneSetAtATime /\ [RaceNext]_raceVars => PreciseInv'
  BY NextPrecise
<1>3. RaceInv /\ PreciseInv /\ FoundInv /\ CommitsInTurn /\ [RaceNext]_raceVars => FoundInv'
  BY NextFound
<1>4. RaceInv /\ PreciseInv /\ FoundInv /\ OneClassEach => RacesAreReported
  <2> SUFFICES ASSUME RaceInv, PreciseInv, FoundInv, OneClassEach, outcome = "finished",
                      NEW x \in log, NEW y \in log, Clash(x, y), ~ Before(x, y), ~ Before(y, x),
                      \A r \in races : r.byte # x.access.byte
               PROVE  FALSE
    BY DEF RacesAreReported
  <2>1. PICK b \in Byte : b = x.access.byte /\ b = y.access.byte
    BY DEF RaceInv, LogInv, Access, Clash
  <2>2. Committed(log, queue) = log
    <3>1. \A c \in Core : \A p \in 1 .. NumPipes : queue[c][p] = << >>
      BY DEF FoundInv, ReturnInv, Over, Empty
    <3>2. Len(<< >>) = 0 /\ 1 .. 0 = {}
      OBVIOUS
    <3>3. DOMAIN queue = Core
      BY DEF RaceInv, MemoryInv
    <3>4. \A r : ~ Waits(queue, r)
      BY <3>1, <3>2, <3>3 DEF Waits
    <3> QED BY <3>4 DEF Committed
  <2>3. \A z \in OnByte(log, b) : z.access.class = "plain"
    <3>1. x.access.class = "plain"
      BY <2>1 DEF OneClassEach, Clash
    <3> QED BY <2>1, <3>1 DEF OneClassEach, OnByte
  <2>4. PICK m : m = [hist |-> hist, races |-> races] /\ m.hist = hist /\ m.races = races
    <3>1. /\ [hist |-> hist, races |-> races].hist = hist
          /\ [hist |-> hist, races |-> races].races = races
      OBVIOUS
    <3> QED BY <3>1, Zenon
  <2>5. Quiet(m.races, b, OnByte(log, b))
    BY <2>1, <2>3, <2>4 DEF Quiet
  <2>6. ClashesOrdered(OnByte(log, b))
    <3>1. Clear(Committed(log, queue), m)
      BY <2>4 DEF FoundInv, Store
    <3>2. Clear(log, m)
      BY <2>2, <3>1
    <3> QED BY <2>5, <3>2 DEF Clear
  <2>7. Leq(x.record.clock, y.record.clock) \/ Leq(y.record.clock, x.record.clock)
    BY <2>1, <2>6 DEF ClashesOrdered, OnByte
  <2>8. x.record.core \in Core /\ y.record.core \in Core /\ x # y
    BY DEF PreciseInv, Stamped, Clash
  <2>9. CASE Leq(x.record.clock, y.record.clock)
    <3>1. Own(x) <= y.record.clock[x.record.core]
      BY <2>8, <2>9 DEF Leq, Own
    <3> QED BY <2>8, <3>1 DEF PreciseInv, LogExact, Before
  <2>10. CASE Leq(y.record.clock, x.record.clock)
    <3>1. Own(y) <= x.record.clock[y.record.core]
      BY <2>8, <2>10 DEF Leq, Own
    <3> QED BY <2>8, <3>1 DEF PreciseInv, LogExact, Before
  <2> QED BY <2>7, <2>9, <2>10
<1> QED BY <1>1, <1>2, <1>3, <1>4, RaceInductive, PTL DEF RaceSpec
=============================================================================
