--------------------------- MODULE RecorderProofs ---------------------------
(***************************************************************************)
(* Replaying the patches of a debug session shows memory as it was         *)
(* recorded (ReplayShowsMemory), whatever the arenas, the turns and the    *)
(* order in which the viewer visits the states.                            *)
(*                                                                         *)
(* The argument follows one byte.  Every patch of a state holds what the   *)
(* arena held then, so what is shown of a byte is what it held at the last *)
(* state, up to the one visited, whose patches cover it.  When a state is  *)
(* recorded, the recorder's copy of the byte is the arena's, or the byte   *)
(* is in a range reported since, or it was changed behind the recorder's   *)
(* back; in the first case there is nothing to patch, in the second the    *)
(* comparison finds the difference.                                        *)
(***************************************************************************)
EXTENDS DebugRecorder, TLAPS, SequenceTheorems, WellFoundedInduction

-----------------------------------------------------------------------------
(* Numbers and sequences.  A set of numbers has a least one, ...           *)
LEMMA LeastIs ==
  ASSUME NEW S \in SUBSET Nat, S # {}
  PROVE  Min(S) \in S /\ \A y \in S : Min(S) <= y
<1> DEFINE Below == OpToRel(<, Nat)
<1>1. \E x \in S : \A y \in S : ~(<<y, x>> \in Below)
  <2>1. IsWellFoundedOn(Below, Nat)
    BY NatLessThanWellFounded
  <2> HIDE DEF Below
  <2> QED BY <2>1, WFMin
<1>2. \A x, y \in S : y < x => <<y, x>> \in Below
  BY DEF OpToRel
<1> HIDE DEF Below
<1>3. PICK x \in S : \A y \in S : ~(<<y, x>> \in Below)
  BY <1>1
<1>4. \A y \in S : ~(y < x)
  BY <1>2, <1>3, Zenon
<1>5. \A y \in S : x <= y
  BY <1>4
<1> QED BY <1>5 DEF Min

(* ... and a bounded one a greatest.                                       *)
LEMMA GreatestIs ==
  ASSUME NEW n \in Nat, NEW S \in SUBSET (0 .. n), S # {}
  PROVE  Max(S) \in S /\ \A y \in S : y <= Max(S)
<1> DEFINE T == {x \in 0 .. n : n - x \in S}
<1>1. T \in SUBSET Nat /\ T # {}
  <2>1. PICK x \in S : TRUE
    OBVIOUS
  <2>2. n - x \in 0 .. n /\ n - (n - x) = x
    BY <2>1
  <2>3. n - x \in T
    BY <2>1, <2>2
  <2>4. T \in SUBSET Nat
    OBVIOUS
  <2> QED BY <2>3, <2>4
<1>2. PICK m : m = Min(T) /\ m \in T /\ \A t \in T : m <= t
  BY <1>1, LeastIs
<1>3. \A y \in S : n - y \in T
  <2> TAKE y \in S
  <2>1. n - y \in 0 .. n /\ n - (n - y) = y
    OBVIOUS
  <2> QED BY <2>1
<1>4. n - m \in S /\ m \in 0 .. n
  BY <1>2
<1> HIDE DEF T
<1>5. \A y \in S : y <= n - m
  <2> TAKE y \in S
  <2>1. m <= n - y /\ y \in 0 .. n
    BY <1>2, <1>3
  <2> QED BY <1>4, <2>1
<1> QED BY <1>4, <1>5 DEF Max

(* A function on 1 .. n is a sequence of n elements.                       *)
LEMMA FunctionIsSequence ==
  ASSUME NEW n \in Nat, NEW S, NEW f \in [1 .. n -> S]
  PROVE  f \in Seq(S) /\ Len(f) = n
<1>1. f \in Seq(S)
  BY SeqDef
<1>2. Len(f) \in Nat /\ 1 .. Len(f) = 1 .. n
  BY <1>1, LenProperties
<1> QED BY <1>1, <1>2

(* Division, with what the multiple of the divisor leaves.                 *)
LEMMA Division ==
  ASSUME NEW n \in Nat \ {0}, NEW x \in Nat
  PROVE  \E y \in 0 .. x : y % n = 0 /\ x < y + n
<1>1. x = n * (x \div n) + (x % n) /\ x \div n \in Nat /\ x % n \in 0 .. (n - 1)
  OBVIOUS
<1>2. PICK q \in Nat, r \in 0 .. (n - 1) : x = n * q + r
  BY <1>1
<1>3. n * q \in Nat /\ (n * q) % n = 0
  OBVIOUS
<1>4. PICK y \in Nat : y = n * q /\ y % n = 0
  BY <1>3
<1>5. y <= x /\ x < y + n
  BY <1>2, <1>4
<1> QED BY <1>4, <1>5

-----------------------------------------------------------------------------
(* The patches of a set of changed bytes cover these and no others, and    *)
(* hold what the arena holds.                                              *)
RunStart(changed, x) == Min({s \in changed : s .. x \subseteq changed})

EndOf(changed, x) == Max({y \in x .. x + PatchBytes - 1 : x .. y \subseteq changed})

PatchAt(bytes, changed, a, x) ==
  [arena |-> a, offset |-> x,
   bytes |-> [i \in 1 .. EndOf(changed, x) - x + 1 |-> bytes[a][x + i - 1]]]

Heads(changed) == {y \in changed : (y - RunStart(changed, y)) % PatchBytes = 0}

Patch == [arena : Arena, offset : Nat, bytes : Seq(Nat)]

(* The bytes a patch gives, counted from 0                                 *)
Span(p) == p.offset .. p.offset + Len(p.bytes) - 1

(* PatchesOf, with its local definitions spelt out                         *)
LEMMA PatchesAre ==
  ASSUME NEW bytes, NEW changed, NEW a
  PROVE  PatchesOf(bytes, changed, a) = {PatchAt(bytes, changed, a, x) : x \in Heads(changed)}
BY DEF PatchesOf, PatchAt, Heads, RunStart, EndOf

(* A patch ends inside the run it starts in.                               *)
LEMMA EndFacts ==
  ASSUME NEW n \in Nat, NEW changed \in SUBSET (0 .. n), NEW x \in changed
  PROVE  /\ EndOf(changed, x) \in x .. x + PatchBytes - 1
         /\ x .. EndOf(changed, x) \subseteq changed
         /\ \A y \in x .. x + PatchBytes - 1 :
              x .. y \subseteq changed => y <= EndOf(changed, x)
<1> DEFINE T == {y \in x .. x + PatchBytes - 1 : x .. y \subseteq changed}
<1>1. x \in Nat /\ PatchBytes \in Nat \ {0} /\ x + PatchBytes \in Nat
  BY RecorderAssumption
<1>2. x \in T
  BY <1>1
<1>3. T \in SUBSET (0 .. x + PatchBytes)
  BY <1>1
<1>4. Max(T) \in T /\ \A y \in T : y <= Max(T)
  BY <1>1, <1>2, <1>3, GreatestIs
<1>5. EndOf(changed, x) = Max(T)
  BY DEF EndOf
<1> QED BY <1>4, <1>5

(* A run starts at its first byte.                                         *)
LEMMA StartFacts ==
  ASSUME NEW n \in Nat, NEW changed \in SUBSET (0 .. n), NEW x \in changed
  PROVE  /\ RunStart(changed, x) \in changed /\ RunStart(changed, x) <= x
         /\ RunStart(changed, x) .. x \subseteq changed
         /\ \A s \in changed : s .. x \subseteq changed => RunStart(changed, x) <= s
<1> DEFINE T == {s \in changed : s .. x \subseteq changed}
<1>1. T \in SUBSET Nat /\ x \in T
  <2>1. x \in Nat /\ \A z \in x .. x : z = x
    OBVIOUS
  <2>2. x \in T
    BY <2>1
  <2>3. changed \in SUBSET Nat
    OBVIOUS
  <2>4. T \in SUBSET Nat
    BY <2>3
  <2> QED BY <2>2, <2>4
<1>2. Min(T) \in T /\ \A y \in T : Min(T) <= y
  <2> HIDE DEF T
  <2> QED BY <1>1, LeastIs
<1>3. Min(T) <= x
  BY <1>1, <1>2
<1>4. RunStart(changed, x) = Min(T)
  BY DEF RunStart
<1> QED BY <1>2, <1>3, <1>4

(* Every byte of a run lies in the patch that starts at the last multiple  *)
(* of PatchBytes before it.                                                *)
LEMMA HeadFor ==
  ASSUME NEW n \in Nat, NEW changed \in SUBSET (0 .. n), NEW x \in changed
  PROVE  \E y \in Heads(changed) : x \in y .. EndOf(changed, y)
<1>1. PICK s \in changed : /\ s = RunStart(changed, x) /\ s <= x /\ s .. x \subseteq changed
                           /\ \A t \in changed : t .. x \subseteq changed => s <= t
  <2>1. /\ RunStart(changed, x) \in changed /\ RunStart(changed, x) <= x
        /\ RunStart(changed, x) .. x \subseteq changed
        /\ \A s \in changed : s .. x \subseteq changed => RunStart(changed, x) <= s
    BY StartFacts
  <2> QED BY <2>1
<1>2. PICK d \in 0 .. x - s : d % PatchBytes = 0 /\ x - s < d + PatchBytes
  <2>1. x - s \in Nat
    BY <1>1
  <2> QED BY <2>1, Division, RecorderAssumption
<1>3. PICK y \in changed : y = s + d /\ s <= y /\ y <= x /\ y - s = d /\ x <= y + PatchBytes - 1
  <2>1. s + d \in s .. x /\ s + d - s = d /\ x <= s + d + PatchBytes - 1 /\ s <= s + d /\ s + d <= x
    BY <1>1, <1>2, RecorderAssumption
  <2>2. s + d \in changed
    BY <1>1, <2>1
  <2> QED BY <2>1, <2>2
<1>4. s .. y \subseteq changed /\ y .. x \subseteq changed
  <2>1. s .. y \subseteq s .. x /\ y .. x \subseteq s .. x
    BY <1>1, <1>3
  <2> QED BY <1>1, <2>1
<1>5. RunStart(changed, y) = s
  <2>1. PICK t \in changed : /\ t = RunStart(changed, y) /\ t <= y /\ t .. y \subseteq changed
                             /\ \A u \in changed : u .. y \subseteq changed => t <= u
    <3>1. /\ RunStart(changed, y) \in changed /\ RunStart(changed, y) <= y
          /\ RunStart(changed, y) .. y \subseteq changed
          /\ \A s1 \in changed : s1 .. y \subseteq changed => RunStart(changed, y) <= s1
      BY StartFacts
    <3> QED BY <3>1
  <2>2. t <= s
    BY <1>4, <2>1
  <2>3. t .. x \subseteq changed
    <3> SUFFICES ASSUME NEW z \in t .. x PROVE z \in changed
      OBVIOUS
    <3>1. z \in t .. y \/ z \in y .. x
      BY <1>3, <2>1
    <3> QED BY <1>4, <2>1, <3>1
  <2>4. s <= t
    BY <1>1, <2>1, <2>3
  <2> QED BY <2>1, <2>2, <2>4
<1>6. y \in Heads(changed)
  BY <1>2, <1>3, <1>5 DEF Heads
<1>7. x <= EndOf(changed, y) /\ EndOf(changed, y) \in Int
  <2>1. x \in y .. y + PatchBytes - 1
    BY <1>3, RecorderAssumption
  <2>2. /\ EndOf(changed, y) \in y .. y + PatchBytes - 1
        /\ \A z \in y .. y + PatchBytes - 1 : y .. z \subseteq changed => z <= EndOf(changed, y)
    BY EndFacts
  <2>3. x <= EndOf(changed, y)
    BY <1>4, <2>1, <2>2
  <2> QED BY <2>2, <2>3, RecorderAssumption
<1>8. x \in y .. EndOf(changed, y)
  BY <1>3, <1>7
<1> QED BY <1>6, <1>8

(* A byte a set of patches gives, and patches that tell the truth about an *)
(* arena.                                                                  *)
Given(ps, a, x) == \E p \in ps : p.arena = a /\ x \in Span(p)

TrueTo(ps, bytes) ==
  \A p \in ps : \A x \in Span(p) : p.bytes[x - p.offset + 1] = bytes[p.arena][x]

Readable(bytes, changed, a) == \A x \in changed : bytes[a][x] \in Nat

(* A patch of arena a, and of what it held from x to e                     *)
Holds(p, bytes, a, x, e) ==
  /\ p \in Patch /\ p.arena = a /\ p.offset = x /\ Span(p) = x .. e
  /\ \A y \in x .. e : p.bytes[y - x + 1] = bytes[a][y]

(* This is what recordState cuts from the arena.                           *)
LEMMA PatchAtFacts ==
  ASSUME NEW n \in Nat, NEW changed \in SUBSET (0 .. n), NEW a \in Arena, NEW bytes,
         Readable(bytes, changed, a), NEW x \in changed
  PROVE  Holds(PatchAt(bytes, changed, a, x), bytes, a, x, EndOf(changed, x))
<1>1. PICK e : /\ e = EndOf(changed, x) /\ e \in x .. x + PatchBytes - 1
               /\ x .. e \subseteq changed
  <2>1. EndOf(changed, x) \in x .. x + PatchBytes - 1 /\ x .. EndOf(changed, x) \subseteq changed
    BY EndFacts
  <2> QED BY <2>1
<1>2. x \in Nat /\ e \in Nat /\ x <= e /\ e - x + 1 \in Nat
  BY <1>1, RecorderAssumption
<1>3. PICK f : f = [i \in 1 .. e - x + 1 |-> bytes[a][x + i - 1]]
  OBVIOUS
<1>4. f \in [1 .. e - x + 1 -> Nat]
  <2>1. \A i \in 1 .. e - x + 1 : x + i - 1 \in x .. e
    BY <1>2
  <2>2. \A i \in 1 .. e - x + 1 : bytes[a][x + i - 1] \in Nat
    BY <1>1, <2>1 DEF Readable
  <2> QED BY <1>3, <2>2
<1>5. f \in Seq(Nat) /\ Len(f) = e - x + 1
  BY <1>2, <1>4, FunctionIsSequence
<1>6. \A y \in x .. e : f[y - x + 1] = bytes[a][y]
  <2> TAKE y \in x .. e
  <2>1. y - x + 1 \in 1 .. e - x + 1 /\ x + (y - x + 1) - 1 = y
    BY <1>2
  <2> QED BY <1>3, <2>1
<1>7. PICK p : p = PatchAt(bytes, changed, a, x)
  OBVIOUS
<1>8. p = [arena |-> a, offset |-> x, bytes |-> f]
  BY <1>1, <1>3, <1>7 DEF PatchAt
<1>9. p \in Patch /\ p.arena = a /\ p.offset = x /\ p.bytes = f
  BY <1>2, <1>5, <1>8 DEF Patch
<1>10. Span(p) = x .. e
  <2>1. x + (e - x + 1) - 1 = e
    BY <1>2
  <2> QED BY <1>5, <1>9, <2>1 DEF Span
<1> QED BY <1>1, <1>6, <1>7, <1>9, <1>10 DEF Holds

Tiles(ps, bytes, changed, a) ==
  /\ ps \subseteq Patch /\ TrueTo(ps, bytes)
  /\ \A p \in ps : p.arena = a /\ p.offset \in Span(p) /\ Span(p) \subseteq changed
  /\ \A x \in changed : Given(ps, a, x)

(* recordState patches what has changed, all of it and nothing else, with  *)
(* what the arena holds.                                                   *)
LEMMA PatchesTile ==
  ASSUME NEW n \in Nat, NEW changed \in SUBSET (0 .. n), NEW a \in Arena, NEW bytes,
         Readable(bytes, changed, a)
  PROVE  Tiles(PatchesOf(bytes, changed, a), bytes, changed, a)
<1>1. PICK ps : ps = PatchesOf(bytes, changed, a)
  OBVIOUS
<1>2. \A p : p \in ps <=> \E x \in Heads(changed) : p = PatchAt(bytes, changed, a, x)
  BY <1>1, PatchesAre
<1>3. Heads(changed) \subseteq changed
  BY DEF Heads
<1>4. ASSUME NEW p \in ps
      PROVE  /\ p \in Patch /\ p.arena = a /\ p.offset \in Span(p) /\ Span(p) \subseteq changed
             /\ \A x \in Span(p) : p.bytes[x - p.offset + 1] = bytes[p.arena][x]
  <2>1. PICK x \in changed : p = PatchAt(bytes, changed, a, x)
    BY <1>2, <1>3
  <2>2. x .. EndOf(changed, x) \subseteq changed /\ x \in x .. EndOf(changed, x)
    <3>1. EndOf(changed, x) \in x .. x + PatchBytes - 1 /\ x .. EndOf(changed, x) \subseteq changed
      BY EndFacts
    <3>2. x \in Nat /\ EndOf(changed, x) \in Int /\ x <= EndOf(changed, x)
      BY <3>1, RecorderAssumption
    <3> QED BY <3>1, <3>2
  <2>3. Holds(p, bytes, a, x, EndOf(changed, x))
    BY <2>1, PatchAtFacts
  <2> QED BY <2>2, <2>3 DEF Holds
<1>5. ASSUME NEW x \in changed PROVE Given(ps, a, x)
  <2>1. PICK y \in Heads(changed) : x \in y .. EndOf(changed, y)
    BY HeadFor
  <2>2. PICK p \in ps : p = PatchAt(bytes, changed, a, y)
    BY <1>2, <2>1
  <2>3. Holds(p, bytes, a, y, EndOf(changed, y))
    BY <1>3, <2>1, <2>2, PatchAtFacts
  <2> QED BY <2>1, <2>3 DEF Given, Holds
<1> QED BY <1>1, <1>4, <1>5 DEF TrueTo, Tiles

-----------------------------------------------------------------------------
(* The invariant.  R are the arenas recorded, ss the patches of the states *)
(* and tr the launch as it was at each of them.                            *)
Recorded == {a \in Arena : RecordsArena(a)}

Storage == {s \in [Arena -> UNION {[Bytes(a) -> Nat] : a \in Arena}] :
              \A a \in Arena : s[a] \in [Bytes(a) -> Nat]}

Tops == {t \in [Arena -> Nat] : \A a \in Arena : t[a] <= Capacity[a]}

Snapshot == [bytes : Storage, top : Tops, hidden : SUBSET (Arena \X Nat)]

(* State j is the last up to k that gives byte x of arena a.               *)
LastGiven(ss, k, a, x, j) ==
  j \in 1 .. k /\ Given(ss[j], a, x) /\ \A i \in (j + 1) .. k : ~Given(ss[i], a, x)

(* Patches lie below the high-water mark and tell the truth; what is not   *)
(* hidden at a state is what the last state that gave it says.             *)
StateInv(R, ss, tr, k) ==
  /\ TrueTo(ss[k], tr[k].bytes)
  /\ \A p \in ss[k] : p.offset \in Span(p) /\ Span(p) \subseteq 0 .. (tr[k].top[p.arena] - 1)
  /\ \A a \in R : \A j \in 1 .. k : tr[j].top[a] <= tr[k].top[a]
  /\ \A a \in R : \A x \in 0 .. (tr[k].top[a] - 1) :
       \/ <<a, x>> \in tr[k].hidden
       \/ \E j \in 1 .. k : LastGiven(ss, k, a, x, j) /\ tr[j].bytes[a][x] = tr[k].bytes[a][x]

ArchiveInv(R, ss, tr) ==
  /\ ss \in Seq(SUBSET Patch) /\ tr \in Seq(Snapshot) /\ Len(tr) = Len(ss)
  /\ \A k \in 1 .. Len(ss) : StateInv(R, ss, tr, k)

(* The recorder's copy of a byte is what the last state that gave it says. *)
CopyInv(R, ss, tr, copy) ==
  /\ copy \in [Arena -> Seq(Nat)]
  /\ \A a \in R : \A k \in 1 .. Len(ss) : tr[k].top[a] <= Len(copy[a])
  /\ \A a \in R : \A x \in 0 .. (Len(copy[a]) - 1) :
       \E j \in 1 .. Len(ss) : /\ LastGiven(ss, Len(ss), a, x, j)
                              /\ copy[a][x + 1] = tr[j].bytes[a][x]

(* The copy is the arena's, but for what was reported or hidden since.     *)
PendingInv(R, copy, bytes, top, writes, silent) ==
  /\ bytes \in Storage /\ top \in Tops /\ silent \in SUBSET (Arena \X Nat)
  /\ \A a \in R : Len(copy[a]) <= top[a]
  /\ \A a \in R : \A x \in 0 .. (Len(copy[a]) - 1) :
       \/ copy[a][x + 1] = bytes[a][x] \/ <<a, x>> \in silent
       \/ \E w \in writes : Covers(w, a, x)

-----------------------------------------------------------------------------
(* What recordState finds changed lies below the high-water mark, ...      *)
LEMMA ChangedFacts ==
  ASSUME NEW bytes \in Storage, NEW top \in Tops, NEW writes, NEW copy, NEW a \in Arena
  PROVE  /\ Changed(bytes, top, writes, copy, a) \in SUBSET (0 .. (top[a] - 1))
         /\ top[a] \in Nat /\ 0 .. (top[a] - 1) \subseteq Bytes(a)
         /\ Changed(bytes, top, writes, copy, a) \in SUBSET (0 .. top[a])
         /\ Readable(bytes, Changed(bytes, top, writes, copy, a), a)
<1>1. top[a] \in Nat /\ top[a] <= Capacity[a] /\ Capacity[a] \in Nat
  BY RecorderAssumption DEF Tops
<1>2. Changed(bytes, top, writes, copy, a) \in SUBSET (0 .. (top[a] - 1))
  BY DEF Changed, Dirty
<1>3. 0 .. (top[a] - 1) \subseteq Bytes(a) /\ 0 .. (top[a] - 1) \subseteq 0 .. top[a]
  BY <1>1 DEF Bytes
<1>4. \A x \in Bytes(a) : bytes[a][x] \in Nat
  BY DEF Storage
<1> QED BY <1>1, <1>2, <1>3, <1>4 DEF Readable

(* ... and is what its patches give.                                       *)
LEMMA PatchesFacts ==
  ASSUME NEW bytes \in Storage, NEW top \in Tops, NEW writes, NEW copy,
         NEW ps, ps = Patches(bytes, top, writes, copy)
  PROVE  /\ ps \subseteq Patch /\ TrueTo(ps, bytes)
         /\ \A p \in ps : p.offset \in Span(p) /\ Span(p) \subseteq 0 .. (top[p.arena] - 1)
         /\ \A a \in Arena : \A x :
              Given(ps, a, x) <=> x \in Changed(bytes, top, writes, copy, a)
<1> DEFINE C(a) == Changed(bytes, top, writes, copy, a)
           Q(a) == PatchesOf(bytes, C(a), a)
<1>1. \A p : p \in ps <=> \E a \in Arena : p \in Q(a)
  BY DEF Patches
<1>2. ASSUME NEW a \in Arena
      PROVE  /\ Q(a) \subseteq Patch /\ TrueTo(Q(a), bytes)
             /\ \A p \in Q(a) : p.arena = a /\ p.offset \in Span(p) /\ Span(p) \subseteq C(a)
             /\ \A x \in C(a) : Given(Q(a), a, x)
             /\ C(a) \subseteq 0 .. (top[a] - 1)
  <2>1. PICK c \in SUBSET (0 .. top[a]) : c = C(a) /\ Readable(bytes, c, a)
    BY ChangedFacts
  <2>2. top[a] \in Nat /\ C(a) \subseteq 0 .. (top[a] - 1)
    BY ChangedFacts
  <2>3. Tiles(PatchesOf(bytes, c, a), bytes, c, a)
    BY <2>1, <2>2, PatchesTile
  <2> HIDE DEF C
  <2> QED BY <2>1, <2>2, <2>3 DEF Tiles
<1> HIDE DEF C, Q
<1>3. ps \subseteq Patch /\ TrueTo(ps, bytes)
  BY <1>1, <1>2 DEF TrueTo
<1>4. \A p \in ps : p.offset \in Span(p) /\ Span(p) \subseteq 0 .. (top[p.arena] - 1)
  BY <1>1, <1>2
<1>5. \A a \in Arena : \A x : Given(ps, a, x) <=> x \in C(a)
  BY <1>1, <1>2 DEF Given
<1> QED BY <1>3, <1>4, <1>5 DEF C

(* The copy follows: it takes what has changed and keeps the rest.         *)
LEMMA CopiedFacts ==
  ASSUME NEW R, R = Recorded, NEW bytes \in Storage, NEW top \in Tops, NEW writes,
         NEW copy \in [Arena -> Seq(Nat)], NEW new, new = Copied(bytes, top, writes, copy)
  PROVE  /\ new \in [Arena -> Seq(Nat)]
         /\ \A a \in R : /\ Len(new[a]) = top[a]
                         /\ \A x \in 0 .. (top[a] - 1) :
                              new[a][x + 1] = IF x \in Changed(bytes, top, writes, copy, a)
                                              THEN bytes[a][x] ELSE copy[a][x + 1]
<1> DEFINE C(a) == Changed(bytes, top, writes, copy, a)
           f(a) == [i \in 1 .. top[a] |-> IF i - 1 \in C(a) THEN bytes[a][i - 1] ELSE copy[a][i]]
<1>1. ASSUME NEW a \in R
      PROVE  /\ a \in Arena /\ top[a] \in Nat /\ f(a) \in Seq(Nat) /\ Len(f(a)) = top[a]
             /\ new[a] = f(a)
  <2>1. a \in Arena /\ RecordsArena(a)
    BY DEF Recorded
  <2>2. top[a] \in Nat /\ C(a) \in SUBSET (0 .. top[a]) /\ Readable(bytes, C(a), a)
    BY <2>1, ChangedFacts
  <2>3. copy[a] \in Seq(Nat) /\ Len(copy[a]) \in Nat
        /\ \A i \in 1 .. Len(copy[a]) : copy[a][i] \in Nat
    BY <2>1
  <2>4. ASSUME NEW i \in 1 .. top[a] PROVE f(a)[i] \in Nat
    <3>1. CASE i - 1 \in C(a)
      BY <2>2, <3>1 DEF Readable
    <3>2. CASE i - 1 \notin C(a)
      <4>1. i - 1 \in 0 .. (top[a] - 1)
        BY <2>2
      <4>2. ~(i - 1 >= Len(copy[a]))
        BY <2>1, <3>2, <4>1 DEF Changed, Dirty
      <4>3. i \in 1 .. Len(copy[a])
        BY <2>3, <4>2
      <4> QED BY <2>3, <3>2, <4>3
    <3> QED BY <3>1, <3>2
  <2>5. f(a) \in [1 .. top[a] -> Nat]
    BY <2>4
  <2>6. f(a) \in Seq(Nat) /\ Len(f(a)) = top[a]
    <3> HIDE DEF f
    <3> QED BY <2>2, <2>5, FunctionIsSequence
  <2>7. new[a] = f(a)
    BY <2>1 DEF Copied
  <2> QED BY <2>1, <2>2, <2>6, <2>7
<1>2. new \in [Arena -> Seq(Nat)]
  <2>1. new = [a \in Arena |-> new[a]]
    BY DEF Copied
  <2>2. \A a \in Arena \ R : new[a] = copy[a]
    BY DEF Copied, Recorded
  <2>3. \A a \in Arena : new[a] \in Seq(Nat)
    <3> HIDE DEF f
    <3> QED BY <1>1, <2>2
  <2> QED BY <2>1, <2>3
<1>3. ASSUME NEW a \in R, NEW x \in 0 .. (top[a] - 1)
      PROVE  new[a][x + 1] = IF x \in C(a) THEN bytes[a][x] ELSE copy[a][x + 1]
  <2>1. new[a] = f(a) /\ top[a] \in Nat
    <3> HIDE DEF f
    <3> QED BY <1>1
  <2>2. x + 1 \in 1 .. top[a] /\ x + 1 - 1 = x
    BY <2>1
  <2> HIDE DEF C
  <2>3. f(a)[x + 1] = IF x \in C(a) THEN bytes[a][x] ELSE copy[a][x + 1]
    BY <2>2
  <2> QED BY <2>1, <2>3
<1> HIDE DEF f, C
<1> QED BY <1>1, <1>2, <1>3 DEF C

-----------------------------------------------------------------------------
(* One more element                                                        *)
LEMMA AppendFacts ==
  ASSUME NEW S, NEW s \in Seq(S), NEW e \in S
  PROVE  /\ Append(s, e) \in Seq(S) /\ Len(s) \in Nat /\ Len(Append(s, e)) = Len(s) + 1
         /\ Append(s, e)[Len(s) + 1] = e /\ \A i \in 1 .. Len(s) : Append(s, e)[i] = s[i]
OBVIOUS

(* With one more state, older states are as they were; a byte is given     *)
(* last by the new one if that gives it, and else as before.               *)
LEMMA LastGivenAfter ==
  ASSUME NEW n \in Nat, NEW ss, NEW more, \A i \in 1 .. n : more[i] = ss[i], NEW a, NEW x
  PROVE  /\ \A k \in 1 .. n : \A j : LastGiven(more, k, a, x, j) <=> LastGiven(ss, k, a, x, j)
         /\ Given(more[n + 1], a, x) => LastGiven(more, n + 1, a, x, n + 1)
         /\ ~Given(more[n + 1], a, x) =>
              \A j : LastGiven(ss, n, a, x, j) => LastGiven(more, n + 1, a, x, j)
<1>1. \A k \in 1 .. n : \A j : LastGiven(more, k, a, x, j) <=> LastGiven(ss, k, a, x, j)
  <2> TAKE k \in 1 .. n
  <2>1. \A i \in 1 .. k : i \in 1 .. n /\ more[i] = ss[i]
    OBVIOUS
  <2>2. \A j \in 1 .. k : \A i \in (j + 1) .. k : i \in 1 .. k
    OBVIOUS
  <2> QED BY <2>1, <2>2 DEF LastGiven
<1>2. ASSUME Given(more[n + 1], a, x) PROVE LastGiven(more, n + 1, a, x, n + 1)
  <2>1. n + 1 \in 1 .. n + 1 /\ (n + 1 + 1) .. (n + 1) = {}
    OBVIOUS
  <2> QED BY <1>2, <2>1 DEF LastGiven
<1>3. ASSUME ~Given(more[n + 1], a, x), NEW j, LastGiven(ss, n, a, x, j)
      PROVE  LastGiven(more, n + 1, a, x, j)
  <2>1. j \in 1 .. n /\ Given(ss[j], a, x) /\ \A i \in (j + 1) .. n : ~Given(ss[i], a, x)
    BY <1>3 DEF LastGiven
  <2>2. j \in 1 .. n + 1 /\ Given(more[j], a, x)
    BY <2>1
  <2>3. \A i \in (j + 1) .. (n + 1) : i = n + 1 \/ (i \in (j + 1) .. n /\ i \in 1 .. n)
    BY <2>1
  <2>4. \A i \in (j + 1) .. (n + 1) : ~Given(more[i], a, x)
    BY <1>3, <2>1, <2>3
  <2> QED BY <2>2, <2>4 DEF LastGiven
<1> QED BY <1>1, <1>2, <1>3

(* The fields of a snapshot are what it is made of.                        *)
LEMMA SnapshotFields ==
  ASSUME NEW b \in Storage, NEW t \in Tops, NEW h \in SUBSET (Arena \X Nat)
  PROVE  \E s \in Snapshot : /\ s = [bytes |-> b, top |-> t, hidden |-> h]
                             /\ s.bytes = b /\ s.top = t /\ s.hidden = h
<1>1. /\ [bytes |-> b, top |-> t, hidden |-> h].bytes = b
      /\ [bytes |-> b, top |-> t, hidden |-> h].top = t
      /\ [bytes |-> b, top |-> t, hidden |-> h].hidden = h
  OBVIOUS
<1>2. [bytes |-> b, top |-> t, hidden |-> h] \in Snapshot
  BY DEF Snapshot
<1> QED BY <1>1, <1>2, Zenon

(* What recordState comes to: ps are its patches, new the copy it leaves.  *)
(* A byte without a patch has been in the copy and is as it was there, or  *)
(* stays hidden.                                                           *)
Recording(R, copy, new, ps, bytes, top, hid) ==
  /\ bytes \in Storage /\ top \in Tops /\ hid \in SUBSET (Arena \X Nat)
  /\ ps \in SUBSET Patch /\ TrueTo(ps, bytes)
  /\ \A p \in ps : p.offset \in Span(p) /\ Span(p) \subseteq 0 .. (top[p.arena] - 1)
  /\ new \in [Arena -> Seq(Nat)]
  /\ \A a \in R : Len(new[a]) = top[a] /\ Len(copy[a]) <= top[a]
  /\ \A a \in R : \A x \in 0 .. (top[a] - 1) :
       \/ Given(ps, a, x) /\ new[a][x + 1] = bytes[a][x]
       \/ /\ ~Given(ps, a, x) /\ x \in 0 .. (Len(copy[a]) - 1)
          /\ new[a][x + 1] = copy[a][x + 1]
          /\ copy[a][x + 1] = bytes[a][x] \/ <<a, x>> \in hid

(* It comes to that whenever all that differs from the copy was reported   *)
(* or is known to be hidden.                                               *)
LEMMA RecordDoes ==
  ASSUME NEW copy \in [Arena -> Seq(Nat)], NEW bytes, NEW top, NEW writes, NEW silent,
         PendingInv(Recorded, copy, bytes, top, writes, silent),
         NEW hid, hid = {c \in silent : c[2] \notin Dirty(top, writes, copy, c[1])}
  PROVE  Recording(Recorded, copy, Copied(bytes, top, writes, copy),
                   Patches(bytes, top, writes, copy), bytes, top, hid)
<1>1. PICK R : R = Recorded /\ R \subseteq Arena /\ \A a \in R : RecordsArena(a)
  <2>1. Recorded \subseteq Arena /\ \A a \in Recorded : RecordsArena(a)
    BY DEF Recorded
  <2> QED BY <2>1
<1>2. PICK D : D = [a \in Arena |-> Dirty(top, writes, copy, a)]
  OBVIOUS
<1>3. PICK C : C = [a \in Arena |-> Changed(bytes, top, writes, copy, a)]
  OBVIOUS
<1>4. bytes \in Storage /\ top \in Tops /\ hid \in SUBSET (Arena \X Nat)
  BY DEF PendingInv
<1>5. PICK ps : ps = Patches(bytes, top, writes, copy)
  OBVIOUS
<1>6. /\ ps \in SUBSET Patch /\ TrueTo(ps, bytes)
      /\ \A p \in ps : p.offset \in Span(p) /\ Span(p) \subseteq 0 .. (top[p.arena] - 1)
      /\ \A a \in Arena : \A x : Given(ps, a, x) <=> x \in C[a]
  BY <1>3, <1>4, <1>5, PatchesFacts
<1>7. PICK new : new = Copied(bytes, top, writes, copy)
  OBVIOUS
<1>8. /\ new \in [Arena -> Seq(Nat)]
      /\ \A a \in R : /\ Len(new[a]) = top[a]
                      /\ \A x \in 0 .. (top[a] - 1) :
                           new[a][x + 1] = IF x \in C[a] THEN bytes[a][x] ELSE copy[a][x + 1]
  BY <1>1, <1>3, <1>4, <1>7, CopiedFacts
<1>9. \A a \in R : a \in Arena /\ RecordsArena(a) /\ D[a] = Dirty(top, writes, copy, a)
                   /\ C[a] = Changed(bytes, top, writes, copy, a)
  BY <1>1, <1>2, <1>3
<1>10. \A a \in R : \A x \in 0 .. (top[a] - 1) :
         x >= Len(copy[a]) \/ (\E w \in writes : Covers(w, a, x)) => x \in D[a]
  BY <1>9 DEF Dirty
<1>11. \A a \in R : \A x \in D[a] :
         x \in C[a] <=> x >= Len(copy[a]) \/ copy[a][x + 1] # bytes[a][x]
  <2> SUFFICES ASSUME NEW a \in R, NEW x \in D[a]
               PROVE  x \in C[a] <=> x >= Len(copy[a]) \/ copy[a][x + 1] # bytes[a][x]
    OBVIOUS
  <2>1. D[a] = Dirty(top, writes, copy, a) /\ C[a] = Changed(bytes, top, writes, copy, a)
    BY <1>9
  <2> QED BY <2>1 DEF Changed
<1>12. \A a \in R : \A x : <<a, x>> \in silent /\ x \notin D[a] => <<a, x>> \in hid
  <2> SUFFICES ASSUME NEW a \in R, NEW x, <<a, x>> \in silent, x \notin D[a]
               PROVE  <<a, x>> \in hid
    OBVIOUS
  <2>1. D[a] = Dirty(top, writes, copy, a)
    BY <1>9
  <2> QED BY <2>1
<1>13. /\ \A a \in R : Len(copy[a]) <= top[a]
       /\ \A a \in R : \A x \in 0 .. (Len(copy[a]) - 1) :
            \/ copy[a][x + 1] = bytes[a][x] \/ <<a, x>> \in silent
            \/ \E w \in writes : Covers(w, a, x)
  BY <1>1 DEF PendingInv
<1>14. \A a \in R : copy[a] \in Seq(Nat) /\ Len(copy[a]) \in Nat /\ top[a] \in Nat
  BY <1>4, <1>9 DEF Tops
<1>15. ASSUME NEW a \in R, NEW x \in 0 .. (top[a] - 1)
       PROVE  \/ Given(ps, a, x) /\ new[a][x + 1] = bytes[a][x]
              \/ /\ ~Given(ps, a, x) /\ x \in 0 .. (Len(copy[a]) - 1)
                 /\ new[a][x + 1] = copy[a][x + 1]
                 /\ copy[a][x + 1] = bytes[a][x] \/ <<a, x>> \in hid
  <2>1. (Given(ps, a, x) <=> x \in C[a]) /\ top[a] \in Nat /\ Len(copy[a]) \in Nat
    BY <1>6, <1>9, <1>14
  <2>2. CASE x \in C[a]
    BY <1>8, <2>1, <2>2
  <2>3. CASE x \notin C[a]
    <3>1. x \in 0 .. (Len(copy[a]) - 1)
      <4>1. ~(x >= Len(copy[a]))
        BY <1>10, <1>11, <2>3
      <4> QED BY <2>1, <4>1
    <3>2. copy[a][x + 1] = bytes[a][x] \/ x \notin D[a]
      BY <1>11, <2>3
    <3>3. copy[a][x + 1] = bytes[a][x] \/ <<a, x>> \in hid
      BY <1>10, <1>12, <1>13, <3>1, <3>2
    <3> QED BY <1>8, <2>1, <2>3, <3>1, <3>3
  <2> QED BY <2>2, <2>3
<1>16. Recording(R, copy, new, ps, bytes, top, hid)
  BY <1>4, <1>6, <1>8, <1>13, <1>15 DEF Recording
<1> QED BY <1>1, <1>5, <1>7, <1>16

(* Recording a state keeps the archive and the copy right, whatever the    *)
(* arenas have become.                                                     *)
LEMMA RecordKeeps ==
  ASSUME NEW R \in SUBSET Arena, NEW ss, NEW tr, NEW copy, ArchiveInv(R, ss, tr),
         CopyInv(R, ss, tr, copy), NEW new, NEW ps, NEW bytes, NEW top, NEW hid,
         Recording(R, copy, new, ps, bytes, top, hid)
  PROVE  /\ ArchiveInv(R, Append(ss, ps),
                       Append(tr, [bytes |-> bytes, top |-> top, hidden |-> hid]))
         /\ CopyInv(R, Append(ss, ps),
                       Append(tr, [bytes |-> bytes, top |-> top, hidden |-> hid]), new)
         /\ PendingInv(R, new, bytes, top, {}, hid)
<1>1. /\ bytes \in Storage /\ top \in Tops /\ hid \in SUBSET (Arena \X Nat)
      /\ copy \in [Arena -> Seq(Nat)]
  BY DEF Recording, CopyInv
<1>2. /\ ps \in SUBSET Patch /\ TrueTo(ps, bytes)
      /\ \A p \in ps : p.offset \in Span(p) /\ Span(p) \subseteq 0 .. (top[p.arena] - 1)
  BY DEF Recording
<1>3. PICK snap \in Snapshot : snap = [bytes |-> bytes, top |-> top, hidden |-> hid]
                             /\ snap.bytes = bytes /\ snap.top = top /\ snap.hidden = hid
  BY <1>1, SnapshotFields
<1>4. PICK n \in Nat : n = Len(ss) /\ n = Len(tr)
  BY DEF ArchiveInv
<1>5. PICK ss2, tr2 : ss2 = Append(ss, ps) /\ tr2 = Append(tr, snap)
  OBVIOUS
<1>6. /\ ss2 \in Seq(SUBSET Patch) /\ Len(ss2) = n + 1 /\ ss2[n + 1] = ps
      /\ \A i \in 1 .. n : ss2[i] = ss[i]
  BY <1>2, <1>4, <1>5, AppendFacts DEF ArchiveInv
<1>7. /\ tr2 \in Seq(Snapshot) /\ Len(tr2) = n + 1 /\ tr2[n + 1] = snap
      /\ \A i \in 1 .. n : tr2[i] = tr[i]
  BY <1>3, <1>4, <1>5, AppendFacts DEF ArchiveInv
<1>8. /\ new \in [Arena -> Seq(Nat)]
      /\ \A a \in R : Len(new[a]) = top[a] /\ Len(copy[a]) <= top[a]
  BY DEF Recording
<1>9. ASSUME NEW a \in R, NEW x \in 0 .. (top[a] - 1)
      PROVE  /\ \E j \in 1 .. n + 1 : /\ LastGiven(ss2, n + 1, a, x, j)
                                     /\ new[a][x + 1] = tr2[j].bytes[a][x]
             /\ new[a][x + 1] = bytes[a][x] \/ <<a, x>> \in hid
  <2>1. CASE Given(ps, a, x) /\ new[a][x + 1] = bytes[a][x]
    <3>1. LastGiven(ss2, n + 1, a, x, n + 1)
      BY <1>6, <2>1, LastGivenAfter
    <3> QED BY <1>3, <1>7, <2>1, <3>1
  <2>2. CASE /\ ~Given(ps, a, x) /\ x \in 0 .. (Len(copy[a]) - 1)
             /\ new[a][x + 1] = copy[a][x + 1]
             /\ copy[a][x + 1] = bytes[a][x] \/ <<a, x>> \in hid
    <3>1. PICK j \in 1 .. n : LastGiven(ss, n, a, x, j) /\ copy[a][x + 1] = tr[j].bytes[a][x]
      BY <1>4, <2>2 DEF CopyInv
    <3>2. LastGiven(ss2, n + 1, a, x, j)
      BY <1>6, <2>2, <3>1, LastGivenAfter
    <3>3. j \in 1 .. n + 1 /\ tr2[j] = tr[j]
      BY <1>7, <3>1
    <3> QED BY <2>2, <3>1, <3>2, <3>3
  <2> QED BY <2>1, <2>2 DEF Recording
<1>10. \A a \in R : \A k \in 1 .. n : tr[k].top[a] <= Len(copy[a]) /\ Len(copy[a]) <= top[a]
  BY <1>4, <1>8 DEF CopyInv
<1>11. \A a \in R : \A k \in 1 .. n : tr[k].top[a] <= top[a]
  <2> SUFFICES ASSUME NEW a \in R, NEW k \in 1 .. n PROVE tr[k].top[a] <= top[a]
    OBVIOUS
  <2>1. a \in Arena /\ tr[k] \in Snapshot
    BY <1>1, <1>4 DEF ArchiveInv
  <2>2. tr[k].top[a] \in Nat /\ Len(copy[a]) \in Nat /\ top[a] \in Nat
    BY <1>1, <2>1 DEF Snapshot, Tops
  <2> QED BY <1>10, <2>2
<1>12. ASSUME NEW k \in 1 .. n PROVE StateInv(R, ss2, tr2, k)
  <2>1. StateInv(R, ss, tr, k)
    BY <1>4 DEF ArchiveInv
  <2>2. ss2[k] = ss[k] /\ tr2[k] = tr[k] /\ \A j \in 1 .. k : tr2[j] = tr[j]
    BY <1>6, <1>7
  <2>3. \A a, x, j : LastGiven(ss2, k, a, x, j) <=> LastGiven(ss, k, a, x, j)
    BY <1>6, LastGivenAfter
  <2>4. \A a \in R : \A j \in 1 .. k : tr2[j].top[a] <= tr2[k].top[a]
    BY <2>1, <2>2 DEF StateInv
  <2>5. \A a \in R : \A x \in 0 .. (tr[k].top[a] - 1) :
          \/ <<a, x>> \in tr[k].hidden
          \/ \E j \in 1 .. k : LastGiven(ss, k, a, x, j) /\ tr[j].bytes[a][x] = tr[k].bytes[a][x]
    BY <2>1 DEF StateInv
  <2>6. \A a \in R : \A x \in 0 .. (tr2[k].top[a] - 1) :
          \/ <<a, x>> \in tr2[k].hidden
          \/ \E j \in 1 .. k : /\ LastGiven(ss2, k, a, x, j)
                            /\ tr2[j].bytes[a][x] = tr2[k].bytes[a][x]
    <3> SUFFICES ASSUME NEW a \in R, NEW x \in 0 .. (tr2[k].top[a] - 1),
                        <<a, x>> \notin tr2[k].hidden
                 PROVE  \E j \in 1 .. k : /\ LastGiven(ss2, k, a, x, j)
                                         /\ tr2[j].bytes[a][x] = tr2[k].bytes[a][x]
      OBVIOUS
    <3>1. x \in 0 .. (tr[k].top[a] - 1) /\ <<a, x>> \notin tr[k].hidden
      BY <2>2
    <3>2. PICK j \in 1 .. k : LastGiven(ss, k, a, x, j) /\ tr[j].bytes[a][x] = tr[k].bytes[a][x]
      BY <2>5, <3>1
    <3> QED BY <2>2, <2>3, <3>2
  <2> QED BY <2>1, <2>2, <2>4, <2>6 DEF StateInv
<1>13. StateInv(R, ss2, tr2, n + 1)
  <2>1. \A a \in R : \A j \in 1 .. n + 1 : tr2[j].top[a] <= tr2[n + 1].top[a]
    <3> SUFFICES ASSUME NEW a \in R, NEW j \in 1 .. n + 1
                 PROVE  tr2[j].top[a] <= top[a]
      BY <1>3, <1>7
    <3>1. j \in 1 .. n \/ j = n + 1
      OBVIOUS
    <3>2. top[a] \in Nat
      BY <1>1 DEF Tops
    <3> QED BY <1>3, <1>7, <1>11, <3>1, <3>2
  <2>2. ASSUME NEW a \in R, NEW x \in 0 .. (top[a] - 1)
        PROVE  \/ <<a, x>> \in hid
               \/ \E j \in 1 .. n + 1 : /\ LastGiven(ss2, n + 1, a, x, j)
                                       /\ tr2[j].bytes[a][x] = bytes[a][x]
    <3>1. PICK j \in 1 .. n + 1 : /\ LastGiven(ss2, n + 1, a, x, j)
                                 /\ new[a][x + 1] = tr2[j].bytes[a][x]
      BY <1>9
    <3>2. new[a][x + 1] = bytes[a][x] \/ <<a, x>> \in hid
      BY <1>9
    <3> QED BY <3>1, <3>2
  <2>3. /\ tr2[n + 1].bytes = bytes /\ tr2[n + 1].top = top /\ tr2[n + 1].hidden = hid
        /\ ss2[n + 1] = ps
    BY <1>3, <1>6, <1>7
  <2>4. \A a \in R : \A x \in 0 .. (tr2[n + 1].top[a] - 1) :
          \/ <<a, x>> \in tr2[n + 1].hidden
          \/ \E j \in 1 .. n + 1 : /\ LastGiven(ss2, n + 1, a, x, j)
                                /\ tr2[j].bytes[a][x] = tr2[n + 1].bytes[a][x]
    BY <2>2, <2>3
  <2>5. /\ TrueTo(ss2[n + 1], tr2[n + 1].bytes)
        /\ \A p \in ss2[n + 1] :
             p.offset \in Span(p) /\ Span(p) \subseteq 0 .. (tr2[n + 1].top[p.arena] - 1)
    BY <1>2, <2>3
  <2> QED BY <2>1, <2>4, <2>5 DEF StateInv
<1>14. ArchiveInv(R, ss2, tr2)
  <2>1. \A k \in 1 .. n + 1 : k \in 1 .. n \/ k = n + 1
    OBVIOUS
  <2> QED BY <1>6, <1>7, <1>12, <1>13, <2>1 DEF ArchiveInv
<1>15. CopyInv(R, ss2, tr2, new)
  <2>1. \A a \in R : \A k \in 1 .. n + 1 : tr2[k].top[a] <= Len(new[a])
    <3> SUFFICES ASSUME NEW a \in R, NEW k \in 1 .. n + 1
                 PROVE  tr2[k].top[a] <= top[a]
      BY <1>8
    <3> QED BY <1>3, <1>7, <1>13 DEF StateInv
  <2>2. \A a \in R : \A x \in 0 .. (Len(new[a]) - 1) :
          \E j \in 1 .. n + 1 : /\ LastGiven(ss2, n + 1, a, x, j)
                              /\ new[a][x + 1] = tr2[j].bytes[a][x]
    BY <1>8, <1>9
  <2>3. new \in [Arena -> Seq(Nat)] /\ Len(ss2) = n + 1
    BY <1>6, <1>8
  <2> HIDE DEF Given
  <2> QED BY <2>1, <2>2, <2>3 DEF CopyInv
<1>16. PendingInv(R, new, bytes, top, {}, hid)
  <2>1. \A a \in R : Len(new[a]) <= top[a]
    BY <1>1, <1>8 DEF Tops
  <2>2. \A a \in R : \A x \in 0 .. (Len(new[a]) - 1) :
          new[a][x + 1] = bytes[a][x] \/ <<a, x>> \in hid
    BY <1>8, <1>9
  <2> QED BY <1>1, <2>1, <2>2 DEF PendingInv
<1> QED BY <1>3, <1>5, <1>14, <1>15, <1>16

-----------------------------------------------------------------------------
(* The session is right.                                                   *)
SessionInv ==
  /\ ArchiveInv(Recorded, states, truth)
  /\ CopyInv(Recorded, states, truth, previousMemory)
  /\ PendingInv(Recorded, previousMemory, storage, bumpTop, pendingWrites, unreported)

(* The filter is set once.                                                 *)
LEMMA SameRecorded ==
  ASSUME programFilter' = programFilter
  PROVE  Recorded' = Recorded /\ Recorded \in SUBSET Arena
BY DEF Recorded, RecordsArena, Reaches

(* recordState leaves a session that is right.                             *)
LEMMA StateKeepsSession ==
  ASSUME SessionInv, programFilter' = programFilter, NEW writes, NEW silent,
         RecordState(writes, silent),
         PendingInv(Recorded, previousMemory, storage', bumpTop', writes, silent)
  PROVE  SessionInv'
<1>1. PICK bytes, top : bytes = storage' /\ top = bumpTop'
  OBVIOUS
<1>2. PICK hid : hid = {c \in silent : c[2] \notin Dirty(top, writes, previousMemory, c[1])}
  OBVIOUS
<1>3. PICK ps, new : /\ ps = Patches(bytes, top, writes, previousMemory)
                     /\ new = Copied(bytes, top, writes, previousMemory)
  OBVIOUS
<1>4. /\ states' = Append(states, ps) /\ previousMemory' = new
      /\ pendingWrites' = {} /\ unreported' = hid
      /\ truth' = Append(truth, [bytes |-> bytes, top |-> top, hidden |-> hid])
  BY <1>1, <1>2, <1>3 DEF RecordState
<1>5. PendingInv(Recorded, previousMemory, bytes, top, writes, silent)
  BY <1>1
<1>6. previousMemory \in [Arena -> Seq(Nat)]
  BY DEF SessionInv, CopyInv
<1>7. Recording(Recorded, previousMemory, new, ps, bytes, top, hid)
  BY <1>2, <1>3, <1>5, <1>6, RecordDoes
<1>8. Recorded \in SUBSET Arena /\ Recorded' = Recorded
  BY SameRecorded
<1>9. /\ ArchiveInv(Recorded, states', truth')
      /\ CopyInv(Recorded, states', truth', new)
      /\ PendingInv(Recorded, new, bytes, top, {}, hid)
  BY <1>4, <1>7, <1>8, RecordKeeps DEF SessionInv
<1> QED BY <1>1, <1>4, <1>8, <1>9 DEF SessionInv

(* What is pending stays right when a turn reports, or hides, whatever it  *)
(* changes below the high-water mark.                                      *)
LEMMA PendingAfter ==
  ASSUME NEW R \in SUBSET Arena, NEW copy \in [Arena -> Seq(Nat)], NEW bytes, NEW top,
         NEW writes, NEW silent, PendingInv(R, copy, bytes, top, writes, silent),
         NEW bytes2 \in Storage, NEW top2 \in Tops, NEW more,
         NEW quiet \in SUBSET (Arena \X Nat),
         \A a \in R : top[a] <= top2[a],
         \A a \in R : \A x \in 0 .. (top[a] - 1) :
           \/ bytes2[a][x] = bytes[a][x] \/ <<a, x>> \in quiet
           \/ \E w \in more : Covers(w, a, x)
  PROVE  PendingInv(R, copy, bytes2, top2, writes \cup more, silent \cup quiet)
<1>1. ASSUME NEW a \in R PROVE /\ Len(copy[a]) \in Nat /\ Len(copy[a]) <= top[a]
                               /\ top[a] \in Nat /\ top2[a] \in Nat
                               /\ Len(copy[a]) <= top2[a]
  <2>1. copy[a] \in Seq(Nat) /\ top[a] \in Nat /\ top2[a] \in Nat
    BY DEF PendingInv, Tops
  <2>2. Len(copy[a]) \in Nat /\ Len(copy[a]) <= top[a] /\ top[a] <= top2[a]
    BY <2>1 DEF PendingInv
  <2> QED BY <2>1, <2>2
<1>2. ASSUME NEW a \in R, NEW x \in 0 .. (Len(copy[a]) - 1)
      PROVE  \/ copy[a][x + 1] = bytes2[a][x] \/ <<a, x>> \in silent \cup quiet
             \/ \E w \in writes \cup more : Covers(w, a, x)
  <2>1. x \in 0 .. (top[a] - 1)
    BY <1>1
  <2>2. \/ copy[a][x + 1] = bytes[a][x] \/ <<a, x>> \in silent
        \/ \E w \in writes : Covers(w, a, x)
    BY DEF PendingInv
  <2>3. \/ bytes2[a][x] = bytes[a][x] \/ <<a, x>> \in quiet
        \/ \E w \in more : Covers(w, a, x)
    BY <2>1
  <2> QED BY <2>2, <2>3
<1>3. silent \cup quiet \in SUBSET (Arena \X Nat)
  BY DEF PendingInv
<1> QED BY <1>1, <1>2, <1>3 DEF PendingInv

(* recordStep leaves a session that is right, whether or not the core is   *)
(* recorded.                                                               *)
LEMMA StepKeepsSession ==
  ASSUME SessionInv, programFilter' = programFilter, NEW b, NEW writes,
         NEW silent \in SUBSET (Arena \X Nat), RecordStep(b, writes, silent),
         storage' \in Storage, bumpTop' \in Tops,
         \A a \in Arena : bumpTop[a] <= bumpTop'[a],
         \A a \in Arena : \A x \in 0 .. (bumpTop[a] - 1) :
           \/ storage'[a][x] = storage[a][x] \/ <<a, x>> \in silent
           \/ \E w \in writes : Covers(w, a, x)
  PROVE  SessionInv'
<1>1. Recorded \in SUBSET Arena /\ Recorded' = Recorded
  BY SameRecorded
<1>2. PICK bytes, top : bytes = storage' /\ top = bumpTop'
  OBVIOUS
<1>3. previousMemory \in [Arena -> Seq(Nat)]
  BY DEF SessionInv, CopyInv
<1>4. PendingInv(Recorded, previousMemory, storage, bumpTop, pendingWrites, unreported)
  BY DEF SessionInv
<1>5. /\ \A a \in Recorded : bumpTop[a] <= top[a]
      /\ \A a \in Recorded : \A x \in 0 .. (bumpTop[a] - 1) :
           \/ bytes[a][x] = storage[a][x] \/ <<a, x>> \in silent
           \/ \E w \in writes : Covers(w, a, x)
  BY <1>1, <1>2
<1>6. PendingInv(Recorded, previousMemory, bytes, top,
                 pendingWrites \cup writes, unreported \cup silent)
  BY <1>1, <1>2, <1>3, <1>4, <1>5, PendingAfter
<1>7. CASE RecordsCore(b)
  <2>1. RecordState(pendingWrites \cup writes, unreported \cup silent)
    BY <1>7 DEF RecordStep
  <2> QED BY <1>2, <1>6, <2>1, StateKeepsSession
<1>8. CASE ~RecordsCore(b)
  <2>1. /\ pendingWrites' = pendingWrites \cup writes /\ unreported' = unreported \cup silent
        /\ UNCHANGED <<previousMemory, states, truth>>
    BY <1>8 DEF RecordStep
  <2> QED BY <1>1, <1>2, <1>6, <2>1 DEF SessionInv
<1> QED BY <1>7, <1>8

-----------------------------------------------------------------------------
(* What lands is what the effects declare.                                 *)
LEMMA LandedFacts ==
  ASSUME NEW bytes \in Storage, NEW es, \A e \in es : e.value \in Nat,
         NEW landed, landed = Landed(bytes, es)
  PROVE  /\ landed \in Storage
         /\ \A a \in Arena : \A x \in Bytes(a) :
              \/ landed[a][x] = bytes[a][x] \/ \E w \in Reported(es) : Covers(w, a, x)
<1>1. ASSUME NEW a \in Arena
      PROVE  landed[a] = [x \in Bytes(a) |->
                            IF \E e \in es : Covers(e.to, a, x)
                            THEN (CHOOSE e \in es : Covers(e.to, a, x)).value ELSE bytes[a][x]]
  BY DEF Landed
<1>2. ASSUME NEW a \in Arena, NEW x \in Bytes(a)
      PROVE  /\ landed[a][x] \in Nat
             /\ landed[a][x] = bytes[a][x] \/ \E w \in Reported(es) : Covers(w, a, x)
  <2>1. bytes[a][x] \in Nat
    BY DEF Storage
  <2>2. CASE \E e \in es : Covers(e.to, a, x)
    <3>1. PICK e \in es : e = (CHOOSE d \in es : Covers(d.to, a, x)) /\ Covers(e.to, a, x)
      BY <2>2, Zenon
    <3>2. landed[a][x] = e.value
      BY <1>1, <2>2, <3>1
    <3>3. e.to \in Reported(es)
      BY DEF Reported
    <3> QED BY <3>1, <3>2, <3>3
  <2>3. CASE ~\E e \in es : Covers(e.to, a, x)
    BY <1>1, <2>1, <2>3
  <2> QED BY <2>2, <2>3
<1>3. \A a \in Arena : landed[a] \in [Bytes(a) -> Nat]
  <2> SUFFICES ASSUME NEW a \in Arena PROVE landed[a] \in [Bytes(a) -> Nat]
    OBVIOUS
  <2>1. landed[a] = [x \in Bytes(a) |-> landed[a][x]]
    BY <1>1
  <2> QED BY <1>2, <2>1
<1>4. landed = [a \in Arena |-> landed[a]]
  BY DEF Landed
<1>5. landed \in Storage
  BY <1>3, <1>4 DEF Storage
<1> QED BY <1>2, <1>5

(* A range a turn may name lies in its arena.                              *)
LEMMA RangeFacts ==
  ASSUME NEW b \in Block, NEW r \in Ranges(b)
  PROVE  r.arena \in Arena /\ r.lo \in Nat /\ r.hi \in Nat /\ r.hi <= Capacity[r.arena]
<1>1. PICK a \in Arena : \E lo \in Bytes(a), hi \in 1 .. Capacity[a] :
        r = [arena |-> a, lo |-> lo, hi |-> hi]
  BY DEF Ranges
<1>2. PICK lo \in Bytes(a), hi \in 1 .. Capacity[a] :
        r = [arena |-> a, lo |-> lo, hi |-> hi]
  BY <1>1
<1>3. Capacity[a] \in Nat
  BY RecorderAssumption
<1>4. lo \in Nat /\ hi \in Nat /\ hi <= Capacity[a]
  BY <1>3 DEF Bytes
<1>5. r.arena = a /\ r.lo = lo /\ r.hi = hi
  BY <1>2
<1> QED BY <1>4, <1>5

(* What a turn drains are bytes.                                           *)
LEMMA EffectFacts ==
  ASSUME NEW b \in Block, NEW es \in Effects(b), NEW e \in es
  PROVE  e.value \in Nat
<1>1. PICK r \in Ranges(b), v \in 0 .. MaxByte : es = {[to |-> r, value |-> v]}
  BY DEF Effects
<1>2. e.value = v /\ v \in Nat
  BY <1>1, RecorderAssumption
<1> QED BY <1>2

(* A commit reports what lands.                                            *)
LEMMA CommitKeepsSession ==
  ASSUME SessionInv, NEW b \in Block, Commit(b)
  PROVE  SessionInv'
<1>1. storage \in Storage /\ bumpTop \in Tops
  BY DEF SessionInv, PendingInv
<1>2. PICK es \in Effects(b) : /\ storage' = Landed(storage, es) /\ bumpTop' = bumpTop
                               /\ RecordStep(b, Reported(es), {})
  BY DEF Commit
<1>3. programFilter' = programFilter
  BY DEF Commit, Turn
<1>4. \A e \in es : e.value \in Nat
  BY EffectFacts
<1>5. /\ storage' \in Storage
      /\ \A a \in Arena : \A x \in Bytes(a) :
           storage'[a][x] = storage[a][x] \/ \E w \in Reported(es) : Covers(w, a, x)
  BY <1>1, <1>2, <1>4, LandedFacts
<1>6. /\ \A a \in Arena : bumpTop[a] <= bumpTop'[a]
      /\ \A a \in Arena : 0 .. (bumpTop[a] - 1) \subseteq Bytes(a)
  BY <1>1, <1>2, RecorderAssumption DEF Tops, Bytes
<1>7. bumpTop' \in Tops
  BY <1>1, <1>2
<1>8. \A a \in Arena : \A x \in 0 .. (bumpTop[a] - 1) :
        \/ storage'[a][x] = storage[a][x] \/ <<a, x>> \in {}
        \/ \E w \in Reported(es) : Covers(w, a, x)
  BY <1>5, <1>6
<1>9. {} \in SUBSET (Arena \X Nat)
  OBVIOUS
<1> QED BY <1>2, <1>3, <1>5, <1>6, <1>7, <1>8, <1>9, StepKeepsSession

(* Fresh storage lies above all that has been recorded.                    *)
LEMMA FreshKeepsSession ==
  ASSUME SessionInv, NEW b \in Block, AllocateFresh(b)
  PROVE  SessionInv'
<1>1. storage \in Storage /\ bumpTop \in Tops
  BY DEF SessionInv, PendingInv
<1>2. PICK r \in Ranges(b) : /\ r.lo = bumpTop[r.arena] /\ r.lo < r.hi
                             /\ bumpTop' = [bumpTop EXCEPT ![r.arena] = r.hi]
                             /\ storage' = Landed(storage, Poisoned(r))
  BY DEF AllocateFresh
<1>3. programFilter' = programFilter /\ RecordStep(b, {}, {})
  BY DEF AllocateFresh, Turn
<1>4. r.arena \in Arena /\ r.lo \in Nat /\ r.hi \in Nat /\ r.hi <= Capacity[r.arena]
  BY RangeFacts
<1>5. (\A e \in Poisoned(r) : e.value \in Nat) /\ Reported(Poisoned(r)) = {r}
  BY RecorderAssumption DEF Poisoned, Reported
<1>6. /\ storage' \in Storage
      /\ \A a \in Arena : \A x \in Bytes(a) :
           storage'[a][x] = storage[a][x] \/ \E w \in {r} : Covers(w, a, x)
  BY <1>1, <1>2, <1>5, LandedFacts
<1>7. \A a \in Arena : /\ bumpTop[a] \in Nat /\ bumpTop[a] <= Capacity[a] /\ Capacity[a] \in Nat
                       /\ bumpTop'[a] = IF a = r.arena THEN r.hi ELSE bumpTop[a]
  BY <1>1, <1>2, RecorderAssumption DEF Tops
<1>8. bumpTop' \in Tops
  <2>1. bumpTop' \in [Arena -> Nat]
    BY <1>1, <1>2, <1>4 DEF Tops
  <2> QED BY <1>4, <1>7, <2>1 DEF Tops
<1>9. /\ \A a \in Arena : bumpTop[a] <= bumpTop'[a]
      /\ \A a \in Arena : 0 .. (bumpTop[a] - 1) \subseteq Bytes(a)
  <2>1. \A a \in Arena : bumpTop[a] <= bumpTop'[a]
    BY <1>2, <1>4, <1>7
  <2>2. \A a \in Arena : 0 .. (bumpTop[a] - 1) \subseteq Bytes(a)
    BY <1>7 DEF Bytes
  <2> QED BY <2>1, <2>2
<1>10. \A a \in Arena : \A x \in 0 .. (bumpTop[a] - 1) :
         \/ storage'[a][x] = storage[a][x] \/ <<a, x>> \in {}
         \/ \E w \in {} : Covers(w, a, x)
  <2> SUFFICES ASSUME NEW a \in Arena, NEW x \in 0 .. (bumpTop[a] - 1)
               PROVE  storage'[a][x] = storage[a][x]
    OBVIOUS
  <2>1. ~Covers(r, a, x)
    BY <1>2, <1>4, <1>7 DEF Covers
  <2> QED BY <1>6, <1>9, <2>1
<1>11. {} \in SUBSET (Arena \X Nat)
  OBVIOUS
<1> QED BY <1>3, <1>6, <1>8, <1>9, <1>10, <1>11, StepKeepsSession

(* A site executed again reports what it poisons.                          *)
LEMMA AgainKeepsSession ==
  ASSUME SessionInv, NEW b \in Block, AllocateAgain(b)
  PROVE  SessionInv'
<1>1. storage \in Storage /\ bumpTop \in Tops
  BY DEF SessionInv, PendingInv
<1>2. PICK r \in Ranges(b) : /\ storage' = Landed(storage, Poisoned(r))
                             /\ RecordStep(b, {r}, {})
  BY DEF AllocateAgain
<1>3. programFilter' = programFilter /\ bumpTop' = bumpTop
  BY DEF AllocateAgain, Turn
<1>4. (\A e \in Poisoned(r) : e.value \in Nat) /\ Reported(Poisoned(r)) = {r}
  BY RecorderAssumption DEF Poisoned, Reported
<1>5. /\ storage' \in Storage
      /\ \A a \in Arena : \A x \in Bytes(a) :
           storage'[a][x] = storage[a][x] \/ \E w \in {r} : Covers(w, a, x)
  BY <1>1, <1>2, <1>4, LandedFacts
<1>6. /\ \A a \in Arena : bumpTop[a] <= bumpTop'[a]
      /\ \A a \in Arena : 0 .. (bumpTop[a] - 1) \subseteq Bytes(a)
  BY <1>1, <1>3, RecorderAssumption DEF Tops, Bytes
<1>7. bumpTop' \in Tops
  BY <1>1, <1>3
<1>8. \A a \in Arena : \A x \in 0 .. (bumpTop[a] - 1) :
        \/ storage'[a][x] = storage[a][x] \/ <<a, x>> \in {}
        \/ \E w \in {r} : Covers(w, a, x)
  BY <1>5, <1>6
<1>9. {} \in SUBSET (Arena \X Nat)
  OBVIOUS
<1> QED BY <1>2, <1>3, <1>5, <1>6, <1>7, <1>8, <1>9, StepKeepsSession

(* releaseLock hides one byte, the lock variable's.                        *)
LEMMA ReleaseKeepsSession ==
  ASSUME SessionInv, NEW b \in Block, ReleaseLock(b)
  PROVE  SessionInv'
<1>1. storage \in Storage /\ bumpTop \in Tops
  BY DEF SessionInv, PendingInv
<1>2. PICK es \in Effects(b) :
        /\ storage' = [Landed(storage, es) EXCEPT ![Gm][LockAt] =
                         IF Landed(storage, es)[Gm][LockAt] + 1 >= Cardinality(Block)
                         THEN 0 ELSE Landed(storage, es)[Gm][LockAt] + 1]
        /\ bumpTop' = bumpTop
        /\ RecordStep(b, Reported(es), {<<Gm, LockAt>>})
  BY DEF ReleaseLock
<1>3. PICK bytes :
        /\ bytes = Landed(storage, es)
        /\ storage' = [bytes EXCEPT ![Gm][LockAt] =
                         IF bytes[Gm][LockAt] + 1 >= Cardinality(Block)
                         THEN 0 ELSE bytes[Gm][LockAt] + 1]
        /\ bumpTop' = bumpTop
        /\ RecordStep(b, Reported(es), {<<Gm, LockAt>>})
  BY <1>2
<1>4. programFilter' = programFilter
  BY DEF ReleaseLock, Turn
<1>5. \A e \in es : e.value \in Nat
  BY EffectFacts
<1>6. /\ bytes \in Storage
      /\ \A a \in Arena : \A x \in Bytes(a) :
           bytes[a][x] = storage[a][x] \/ \E w \in Reported(es) : Covers(w, a, x)
  BY <1>1, <1>3, <1>5, LandedFacts
<1>7. Gm \in Arena /\ LockAt \in Bytes(Gm) /\ LockAt \in Nat
  BY RecorderAssumption DEF Bytes
<1>8. PICK v \in Nat : storage' = [bytes EXCEPT ![Gm][LockAt] = v]
  <2>1. bytes[Gm][LockAt] \in Nat
    BY <1>6, <1>7 DEF Storage
  <2>2. CASE bytes[Gm][LockAt] + 1 >= Cardinality(Block)
    BY <1>3, <2>2
  <2>3. CASE ~(bytes[Gm][LockAt] + 1 >= Cardinality(Block))
    <3>1. bytes[Gm][LockAt] + 1 \in Nat
      BY <2>1
    <3> QED BY <1>3, <2>3, <3>1
  <2> QED BY <2>2, <2>3
<1>9. \A a \in Arena : bytes[a] \in [Bytes(a) -> Nat]
  BY <1>6 DEF Storage
<1>10. \A a \in Arena : storage'[a] = IF a = Gm THEN [bytes[a] EXCEPT ![LockAt] = v] ELSE bytes[a]
  <2>1. bytes \in [Arena -> UNION {[Bytes(a) -> Nat] : a \in Arena}]
    BY <1>6 DEF Storage
  <2> QED BY <1>8, <2>1
<1>11. storage' \in Storage
  <2>1. \A a \in Arena : storage'[a] \in [Bytes(a) -> Nat]
    <3> SUFFICES ASSUME NEW a \in Arena PROVE storage'[a] \in [Bytes(a) -> Nat]
      OBVIOUS
    <3>1. [bytes[a] EXCEPT ![LockAt] = v] \in [Bytes(a) -> Nat]
      BY <1>9
    <3> QED BY <1>9, <1>10, <3>1
  <2>2. storage' = [a \in Arena |-> storage'[a]]
    <3>1. bytes \in [Arena -> UNION {[Bytes(a) -> Nat] : a \in Arena}]
      BY <1>6 DEF Storage
    <3> QED BY <1>8, <3>1
  <2> QED BY <2>1, <2>2 DEF Storage
<1>12. /\ \A a \in Arena : bumpTop[a] <= bumpTop'[a]
       /\ \A a \in Arena : 0 .. (bumpTop[a] - 1) \subseteq Bytes(a)
  BY <1>1, <1>3, RecorderAssumption DEF Tops, Bytes
<1>13. bumpTop' \in Tops
  BY <1>1, <1>3
<1>14. \A a \in Arena : \A x \in 0 .. (bumpTop[a] - 1) :
         \/ storage'[a][x] = storage[a][x] \/ <<a, x>> \in {<<Gm, LockAt>>}
         \/ \E w \in Reported(es) : Covers(w, a, x)
  <2> SUFFICES ASSUME NEW a \in Arena, NEW x \in 0 .. (bumpTop[a] - 1), <<a, x>> # <<Gm, LockAt>>
               PROVE  \/ storage'[a][x] = storage[a][x]
                      \/ \E w \in Reported(es) : Covers(w, a, x)
    OBVIOUS
  <2>1. x \in Bytes(a)
    BY <1>12
  <2>2. storage'[a][x] = bytes[a][x]
    <3>1. CASE a = Gm
      <4>1. x # LockAt /\ storage'[a] = [bytes[a] EXCEPT ![LockAt] = v]
        BY <1>10, <3>1
      <4> QED BY <1>9, <2>1, <4>1
    <3>2. CASE a # Gm
      BY <1>10, <3>2
    <3> QED BY <3>1, <3>2
  <2> QED BY <1>6, <2>1, <2>2
<1>15. {<<Gm, LockAt>>} \in SUBSET (Arena \X Nat)
  BY <1>7
<1> QED BY <1>3, <1>4, <1>11, <1>12, <1>13, <1>14, <1>15, StepKeepsSession

(* The last state changes nothing.                                         *)
LEMMA FinalKeepsSession ==
  ASSUME SessionInv, RecordFinal
  PROVE  SessionInv'
<1>1. /\ storage' = storage /\ bumpTop' = bumpTop /\ programFilter' = programFilter
      /\ RecordState(pendingWrites, unreported)
  BY DEF RecordFinal
<1>2. PendingInv(Recorded, previousMemory, storage', bumpTop', pendingWrites, unreported)
  BY <1>1 DEF SessionInv
<1> QED BY <1>1, <1>2, StateKeepsSession

(* The launch is recorded before its first turn, over an empty copy.       *)
LEMMA InitSession ==
  ASSUME Init
  PROVE  SessionInv
<1>1. PICK R \in SUBSET Arena : R = Recorded
  BY DEF Recorded
<1>2. \A a \in Arena : Capacity[a] \in Nat /\ Bytes(a) \subseteq Nat
  BY RecorderAssumption DEF Bytes
<1>3. storage \in Storage
  <2>1. \A a \in Arena : storage[a] \in [Bytes(a) -> Nat]
    <3> SUFFICES ASSUME NEW a \in Arena PROVE storage[a] \in [Bytes(a) -> Nat]
      OBVIOUS
    <3>1. storage[a] = [x \in Bytes(a) |-> IF a = Gm /\ x < ArgBytes THEN 0 ELSE Poison]
      BY DEF Init
    <3>2. Poison \in Nat
      BY RecorderAssumption
    <3> QED BY <3>1, <3>2
  <2>2. storage = [a \in Arena |-> storage[a]]
    BY DEF Init
  <2> QED BY <2>1, <2>2 DEF Storage
<1>4. bumpTop \in Tops
  <2>1. bumpTop = [a \in Arena |-> IF a = Gm THEN ArgBytes ELSE 0]
    BY DEF Init
  <2>2. ArgBytes \in Nat /\ ArgBytes <= Capacity[Gm]
    BY RecorderAssumption
  <2> QED BY <1>2, <2>1, <2>2 DEF Tops
<1>5. /\ Nothing \in [Arena -> Seq(Nat)]
      /\ \A a \in Arena : Nothing[a] = <<>> /\ Len(Nothing[a]) = 0
  BY DEF Nothing
<1>6. PendingInv(R, Nothing, storage, bumpTop, {}, {})
  <2>1. \A a \in R : Len(Nothing[a]) <= bumpTop[a]
    BY <1>4, <1>5 DEF Tops
  <2>2. \A a \in R : 0 .. (Len(Nothing[a]) - 1) = {}
    BY <1>5
  <2> QED BY <1>3, <1>4, <2>1, <2>2 DEF PendingInv
<1>7. PICK ps, new : /\ ps = Patches(storage, bumpTop, {}, Nothing)
                     /\ new = Copied(storage, bumpTop, {}, Nothing)
  OBVIOUS
<1>8. Recording(R, Nothing, new, ps, storage, bumpTop, {})
  <2>1. {} = {c \in {} : c[2] \notin Dirty(bumpTop, {}, Nothing, c[1])}
    OBVIOUS
  <2> QED BY <1>1, <1>5, <1>6, <1>7, <2>1, RecordDoes
<1>9. Len(<<>>) = 0 /\ 1 .. Len(<<>>) = {} /\ \A S : <<>> \in Seq(S)
  OBVIOUS
<1>10. ArchiveInv(R, <<>>, <<>>)
  BY <1>9 DEF ArchiveInv
<1>11. CopyInv(R, <<>>, <<>>, Nothing)
  <2>1. \A a \in R : 0 .. (Len(Nothing[a]) - 1) = {}
    BY <1>5
  <2> QED BY <1>5, <1>9, <2>1 DEF CopyInv
<1>12. PICK snap : snap = [bytes |-> storage, top |-> bumpTop, hidden |-> {}]
  OBVIOUS
<1>13. /\ ArchiveInv(R, Append(<<>>, ps), Append(<<>>, snap))
       /\ CopyInv(R, Append(<<>>, ps), Append(<<>>, snap), new)
       /\ PendingInv(R, new, storage, bumpTop, {}, {})
  BY <1>8, <1>10, <1>11, <1>12, RecordKeeps
<1>14. Append(<<>>, ps) = <<ps>> /\ Append(<<>>, snap) = <<snap>>
  OBVIOUS
<1>15. /\ states = <<ps>> /\ truth = <<snap>> /\ previousMemory = new
       /\ pendingWrites = {} /\ unreported = {}
  BY <1>7, <1>12 DEF Init
<1> QED BY <1>1, <1>13, <1>14, <1>15 DEF SessionInv

-----------------------------------------------------------------------------
(* What the viewer shows of an arena after the states up to k: all their   *)
(* patches fit, and each byte is what the last of them to give it says.    *)
View(ss, tr, k, a, shown) ==
  /\ Len(shown) \in Nat
  /\ \A j \in 1 .. k : \A p \in ss[j] : p.arena = a => p.offset + Len(p.bytes) <= Len(shown)
  /\ \A x, j : LastGiven(ss, k, a, x, j) => shown[x + 1] = tr[j].bytes[a][x]

ViewInv(R, ss, tr, mem, k) ==
  /\ k \in 0 .. Len(ss)
  /\ \A a \in R : View(ss, tr, k, a, mem[a])

(* The states among T whose patches give byte x, counted from 1, the patch *)
(* that counts, and where the patches of arena a end                       *)
Hits(T, a, x) ==
  {k \in T : \E p \in states[k] : p.arena = a /\ x \in p.offset + 1 .. p.offset + Len(p.bytes)}

LastPatch(T, a, x) ==
  CHOOSE p \in states[Max(Hits(T, a, x))] :
    p.arena = a /\ x \in p.offset + 1 .. p.offset + Len(p.bytes)

Ends(T, a) ==
  {p.offset + Len(p.bytes) : p \in {q \in UNION {states[k] : k \in T} : q.arena = a}}

(* Applied, with its local definitions spelt out                           *)
LEMMA AppliedIs ==
  ASSUME NEW shown, NEW T, NEW a
  PROVE  Applied(shown, T, a) =
           [x \in 1 .. Max({Len(shown)} \cup Ends(T, a)) |->
              IF Hits(T, a, x) # {} THEN LastPatch(T, a, x).bytes[x - LastPatch(T, a, x).offset]
              ELSE IF x <= Len(shown) THEN shown[x] ELSE 0]
BY DEF Applied, Hits, LastPatch, Ends

(* A patch has its numbers, and ends below the high-water mark.            *)
LEMMA PatchEnds ==
  ASSUME NEW R \in SUBSET Arena, NEW ss, NEW tr, ArchiveInv(R, ss, tr),
         NEW k \in 1 .. Len(ss), NEW p \in ss[k]
  PROVE  /\ p \in Patch /\ p.offset \in Nat /\ Len(p.bytes) \in Nat /\ p.arena \in Arena
         /\ p.offset + Len(p.bytes) <= tr[k].top[p.arena] /\ tr[k].top[p.arena] \in Nat
         /\ tr[k].top \in Tops
<1>1. Len(ss) \in Nat /\ ss[k] \in SUBSET Patch /\ tr[k] \in Snapshot
  BY DEF ArchiveInv
<1>2. p \in Patch /\ p.offset \in Nat /\ Len(p.bytes) \in Nat /\ p.arena \in Arena
  BY <1>1 DEF Patch
<1>3. tr[k].top \in Tops /\ tr[k].top[p.arena] \in Nat
  BY <1>1, <1>2 DEF Snapshot, Tops
<1>4. StateInv(R, ss, tr, k)
  BY DEF ArchiveInv
<1>5. p.offset \in Span(p) /\ Span(p) \subseteq 0 .. (tr[k].top[p.arena] - 1)
  BY <1>4 DEF StateInv
<1>6. p.offset <= p.offset + Len(p.bytes) - 1
  BY <1>2, <1>5 DEF Span
<1>7. p.offset + Len(p.bytes) - 1 \in Span(p)
  BY <1>2, <1>6 DEF Span
<1>8. p.offset + Len(p.bytes) - 1 \in 0 .. (tr[k].top[p.arena] - 1)
  BY <1>5, <1>7
<1>9. p.offset + Len(p.bytes) <= tr[k].top[p.arena]
  BY <1>2, <1>3, <1>8
<1> QED BY <1>2, <1>3, <1>9

(* Byte x, counted from 1, is hit by the states that give it.              *)
LEMMA HitsAre ==
  ASSUME NEW R \in SUBSET Arena, ArchiveInv(R, states, truth), NEW a, NEW x \in Int,
         NEW T \in SUBSET (1 .. Len(states))
  PROVE  \A k \in T : k \in Hits(T, a, x + 1) <=> Given(states[k], a, x)
<1>1. ASSUME NEW k \in T, NEW p \in states[k]
      PROVE  x + 1 \in p.offset + 1 .. p.offset + Len(p.bytes) <=> x \in Span(p)
  <2>1. p.offset \in Nat /\ Len(p.bytes) \in Nat
    BY PatchEnds
  <2> QED BY <2>1 DEF Span
<1> QED BY <1>1 DEF Hits, Given

(* Going on from what is shown after state r to state t                    *)
LEMMA AppliedShows ==
  ASSUME NEW R \in SUBSET Arena, ArchiveInv(R, states, truth), NEW a \in R,
         NEW r \in 0 .. Len(states), NEW t \in r .. Len(states), NEW shown,
         View(states, truth, r, a, shown)
  PROVE  View(states, truth, t, a, Applied(shown, r + 1 .. t, a))
<1>1. Len(states) \in Nat /\ r \in Nat /\ t \in Nat /\ r <= t /\ t <= Len(states)
  BY DEF ArchiveInv
<1>2. PICK T \in SUBSET (1 .. Len(states)) : T = r + 1 .. t
  <2>1. r + 1 .. t \in SUBSET (1 .. Len(states))
    BY <1>1
  <2> QED BY <2>1
<1>3. PICK n \in Nat : n = Len(shown)
  BY DEF View
<1>4. PICK E : E = {n} \cup Ends(T, a)
  OBVIOUS
<1>5. \A k \in T : \A p \in states[k] :
        /\ p.offset \in Nat /\ Len(p.bytes) \in Nat
        /\ p.arena = a => p.offset + Len(p.bytes) \in Ends(T, a)
  BY PatchEnds DEF Ends
<1>6. PICK bound \in Nat : \A e \in E : e \in 0 .. bound
  <2>1. CASE T = {}
    <3>1. E = {n}
      BY <1>4, <2>1 DEF Ends
    <3> QED BY <3>1
  <2>2. CASE T # {}
    <3>1. t \in 1 .. Len(states)
      BY <1>1, <1>2, <2>2
    <3>2. truth[t].top[a] \in Nat
      <4>1. truth[t] \in Snapshot
        BY <3>1 DEF ArchiveInv
      <4> QED BY <4>1 DEF Snapshot, Tops
    <3>3. ASSUME NEW k \in T, NEW p \in states[k], p.arena = a
          PROVE  p.offset + Len(p.bytes) \in 0 .. (n + truth[t].top[a])
      <4>1. k \in 1 .. t
        BY <1>1, <1>2
      <4>2. truth[k].top[a] <= truth[t].top[a]
        BY <3>1, <4>1 DEF ArchiveInv, StateInv
      <4>3. /\ p.offset \in Nat /\ Len(p.bytes) \in Nat
            /\ p.offset + Len(p.bytes) <= truth[k].top[a] /\ truth[k].top[a] \in Nat
        BY <3>3, PatchEnds
      <4>4. PICK end, low, high \in Nat :
              end = p.offset + Len(p.bytes) /\ low = truth[k].top[a] /\ high = truth[t].top[a]
        BY <3>2, <3>3, <4>3
      <4>5. end <= low /\ low <= high
        BY <3>3, <4>2, <4>3, <4>4
      <4>6. end \in 0 .. (n + high)
        BY <4>5
      <4> QED BY <4>4, <4>6
    <3>4. \A e \in Ends(T, a) : e \in 0 .. (n + truth[t].top[a])
      BY <3>3 DEF Ends
    <3>5. n + truth[t].top[a] \in Nat /\ n \in 0 .. (n + truth[t].top[a])
      BY <3>2
    <3> QED BY <1>4, <3>4, <3>5
  <2> QED BY <2>1, <2>2, Zenon
<1>7. PICK m \in Nat : m = Max(E) /\ \A e \in E : e <= m
  <2>1. E \in SUBSET (0 .. bound) /\ E # {}
    BY <1>4, <1>6
  <2>2. Max(E) \in E /\ \A e \in E : e <= Max(E)
    BY <2>1, GreatestIs
  <2>3. Max(E) \in Nat
    <3>1. \A e \in E : e \in Nat
      BY <1>6
    <3> QED BY <2>2, <3>1, Zenon
  <2> QED BY <2>2, <2>3
<1>8. PICK f : f = Applied(shown, T, a)
  OBVIOUS
<1>9. f = [x \in 1 .. m |->
             IF Hits(T, a, x) # {} THEN LastPatch(T, a, x).bytes[x - LastPatch(T, a, x).offset]
             ELSE IF x <= n THEN shown[x] ELSE 0]
  BY <1>3, <1>4, <1>7, <1>8, AppliedIs
<1>10. Len(f) = m
  <2>1. f \in [1 .. m -> {f[i] : i \in 1 .. m}]
    BY <1>9
  <2> QED BY <2>1, FunctionIsSequence
<1>11. ASSUME NEW j \in 1 .. t, NEW p \in states[j], p.arena = a
       PROVE  p.offset + Len(p.bytes) <= m /\ p.offset \in Nat /\ Len(p.bytes) \in Nat
  <2>1. j \in T \/ j \in 1 .. r
    BY <1>1, <1>2
  <2>2. n <= m /\ j \in 1 .. Len(states)
    BY <1>1, <1>4, <1>7
  <2>3. p.offset \in Nat /\ Len(p.bytes) \in Nat
    BY <2>2, PatchEnds
  <2>4. CASE j \in T
    BY <1>4, <1>5, <1>7, <1>11, <2>3, <2>4
  <2>5. CASE j \in 1 .. r
    <3>1. p.offset + Len(p.bytes) <= n
      BY <1>3, <1>11, <2>5 DEF View
    <3> QED BY <2>2, <2>3, <3>1
  <2> QED BY <2>1, <2>4, <2>5
<1>12. ASSUME NEW x, NEW j, LastGiven(states, t, a, x, j)
       PROVE  f[x + 1] = truth[j].bytes[a][x]
  <2>1. /\ j \in 1 .. t /\ j \in 1 .. Len(states) /\ Given(states[j], a, x)
        /\ \A i \in (j + 1) .. t : ~Given(states[i], a, x)
    BY <1>1, <1>12 DEF LastGiven
  <2>2. PICK q \in states[j] : q.arena = a /\ x \in Span(q)
    BY <2>1 DEF Given
  <2>3. x \in Nat /\ x + 1 \in 1 .. m
    <3>1. /\ q.offset \in Nat /\ Len(q.bytes) \in Nat
          /\ q.offset + Len(q.bytes) <= m
      BY <1>11, <2>1, <2>2
    <3> QED BY <2>2, <3>1 DEF Span
  <2>4. \A k \in T : k \in Hits(T, a, x + 1) <=> Given(states[k], a, x)
    BY <2>3, HitsAre
  <2>5. \A k \in T : \A p \in states[k] :
          x + 1 \in p.offset + 1 .. p.offset + Len(p.bytes) <=> x \in Span(p)
    BY <1>5, <2>3 DEF Span
  <2>6. Hits(T, a, x + 1) \subseteq T
    BY DEF Hits
  <2>7. CASE j \in T
    <3>1. j \in Hits(T, a, x + 1) /\ \A k \in Hits(T, a, x + 1) : k <= j
      <4>1. j \in Hits(T, a, x + 1)
        BY <2>1, <2>4, <2>7
      <4>2. ASSUME NEW k \in Hits(T, a, x + 1) PROVE k <= j
        <5>1. k \in T /\ Given(states[k], a, x)
          BY <2>4, <2>6
        <5>2. k \in r + 1 .. t /\ k \notin (j + 1) .. t
          BY <1>2, <2>1, <5>1
        <5> QED BY <1>1, <2>1, <5>2
      <4> QED BY <4>1, <4>2
    <3>2. Max(Hits(T, a, x + 1)) = j
      <4>1. Hits(T, a, x + 1) \in SUBSET (0 .. Len(states))
        <5>1. 1 .. Len(states) \subseteq 0 .. Len(states)
          BY <1>1
        <5> QED BY <2>6, <5>1
      <4>2. PICK g : g = Max(Hits(T, a, x + 1))
        OBVIOUS
      <4>3. g \in Hits(T, a, x + 1) /\ j <= g
        BY <1>1, <3>1, <4>1, <4>2, GreatestIs
      <4>4. g <= j /\ g \in 0 .. Len(states)
        BY <3>1, <4>1, <4>3
      <4> QED BY <2>1, <4>2, <4>3, <4>4
    <3>3. \A p \in states[j] : x + 1 \in p.offset + 1 .. p.offset + Len(p.bytes) <=> x \in Span(p)
      BY <2>5, <2>7
    <3>4. PICK p \in states[j] : /\ p = LastPatch(T, a, x + 1) /\ p.arena = a
                                 /\ x + 1 \in p.offset + 1 .. p.offset + Len(p.bytes)
      <4>1. \E p \in states[j] : p.arena = a /\ x + 1 \in p.offset + 1 .. p.offset + Len(p.bytes)
        BY <2>2, <3>3
      <4>2. LastPatch(T, a, x + 1) =
              CHOOSE p \in states[j] : p.arena = a /\ x + 1 \in p.offset + 1 .. p.offset + Len(p.bytes)
        BY <3>2 DEF LastPatch
      <4> QED BY <4>1, <4>2
    <3>5. x \in Span(p) /\ p.offset \in Nat
      BY <2>1, <3>3, <3>4, PatchEnds
    <3>6. p.bytes[x - p.offset + 1] = truth[j].bytes[a][x]
      <4>1. StateInv(R, states, truth, j)
        BY <2>1 DEF ArchiveInv
      <4> QED BY <3>4, <3>5, <4>1 DEF StateInv, TrueTo
    <3>7. f[x + 1] = p.bytes[(x + 1) - p.offset]
      BY <1>9, <2>3, <3>1, <3>4
    <3>8. (x + 1) - p.offset = x - p.offset + 1
      BY <2>3, <3>5
    <3> QED BY <3>6, <3>7, <3>8
  <2>8. CASE j \notin T
    <3>1. j \in 1 .. r
      BY <1>1, <1>2, <2>1, <2>8
    <3>2. \A k \in r + 1 .. t : k \in (j + 1) .. t
      BY <1>1, <3>1
    <3>3. Hits(T, a, x + 1) = {}
      BY <1>2, <2>1, <2>4, <2>6, <3>2
    <3>4. x + 1 <= n
      <4>1. q.offset \in Nat /\ Len(q.bytes) \in Nat
        BY <2>1, PatchEnds
      <4>2. q.offset + Len(q.bytes) <= n
        BY <1>3, <2>2, <3>1 DEF View
      <4> QED BY <2>2, <4>1, <4>2 DEF Span
    <3>5. f[x + 1] = shown[x + 1]
      BY <1>9, <2>3, <3>3, <3>4
    <3>6. LastGiven(states, r, a, x, j)
      <4>1. \A i \in (j + 1) .. r : i \in (j + 1) .. t
        BY <1>1, <3>1
      <4> QED BY <2>1, <3>1, <4>1 DEF LastGiven
    <3> QED BY <3>5, <3>6 DEF View
  <2> QED BY <2>7, <2>8
<1>13. View(states, truth, t, a, f)
  <2>1. \A j \in 1 .. t : \A p \in states[j] : p.arena = a => p.offset + Len(p.bytes) <= Len(f)
    BY <1>10, <1>11
  <2>2. \A x, j : LastGiven(states, t, a, x, j) => f[x + 1] = truth[j].bytes[a][x]
    BY <1>12
  <2> QED BY <1>10, <2>1, <2>2 DEF View
<1> QED BY <1>2, <1>8, <1>13

(* Before the first state a viewer shows nothing, rightly.                 *)
LEMMA ViewAtStart ==
  ASSUME NEW ss, NEW tr, NEW a, NEW shown, Len(shown) \in Nat
  PROVE  View(ss, tr, 0, a, shown)
<1>1. 1 .. 0 = {}
  OBVIOUS
<1> QED BY <1>1 DEF View, LastGiven

(* Seek shows the state it is sent to.                                     *)
LEMMA SeekShows ==
  ASSUME SessionInv, ViewInv(Recorded, states, truth, memory, replayedThrough),
         NEW target \in DOMAIN states, Seek(target)
  PROVE  ViewInv(Recorded, states, truth, memory', replayedThrough')
<1>1. PICK R \in SUBSET Arena : R = Recorded
  BY DEF Recorded
<1>2. /\ ArchiveInv(R, states, truth) /\ Len(states) \in Nat
      /\ DOMAIN states = 1 .. Len(states)
  BY <1>1 DEF SessionInv, ArchiveInv
<1>3. target \in 1 .. Len(states) /\ replayedThrough' = target
  BY <1>2 DEF Seek
<1>4. replayedThrough \in 0 .. Len(states)
  BY DEF ViewInv
<1>5. PICK from, shown :
        /\ from = IF target < replayedThrough THEN 0 ELSE replayedThrough
        /\ shown = [a \in Arena |-> IF target < replayedThrough THEN <<>> ELSE memory[a]]
  OBVIOUS
<1>6. memory' = [a \in Arena |-> Applied(IF target < replayedThrough THEN <<>> ELSE memory[a],
                                         from + 1 .. target, a)]
  BY <1>5 DEF Seek
<1>7. \A a \in R : memory'[a] = Applied(shown[a], from + 1 .. target, a)
  BY <1>5, <1>6
<1>8. from \in 0 .. Len(states) /\ target \in from .. Len(states)
  BY <1>2, <1>3, <1>4, <1>5
<1>9. \A a \in R : View(states, truth, from, a, shown[a])
  <2>1. CASE target < replayedThrough
    <3>1. Len(<<>>) \in Nat
      OBVIOUS
    <3> QED BY <1>5, <2>1, <3>1, ViewAtStart
  <2>2. CASE ~(target < replayedThrough)
    BY <1>1, <1>5, <2>2 DEF ViewInv
  <2> QED BY <2>1, <2>2
<1>10. \A a \in R : View(states, truth, target, a, memory'[a])
  BY <1>2, <1>7, <1>8, <1>9, AppliedShows
<1>11. target \in 0 .. Len(states)
  BY <1>2, <1>3
<1> QED BY <1>1, <1>3, <1>10, <1>11 DEF ViewInv

-----------------------------------------------------------------------------
(* The inductive invariant: the session is right, the viewer shows what it *)
(* says, and nobody views a session that is still being recorded.          *)
RecorderInv ==
  /\ SessionInv
  /\ ViewInv(Recorded, states, truth, memory, replayedThrough)
  /\ ~finished => replayedThrough = 0

(* It holds of the launch as it is set up, ...                             *)
LEMMA InitRecorder == Init => RecorderInv
<1> SUFFICES ASSUME Init PROVE RecorderInv
  OBVIOUS
<1>1. SessionInv
  BY InitSession
<1>2. replayedThrough = 0 /\ 0 \in 0 .. Len(states)
  BY <1>1 DEF Init, SessionInv, ArchiveInv
<1>3. \A a \in Recorded : Len(memory[a]) \in Nat
  BY DEF Init, Nothing, Recorded
<1>4. ViewInv(Recorded, states, truth, memory, replayedThrough)
  BY <1>2, <1>3, ViewAtStart DEF ViewInv
<1> QED BY <1>1, <1>2, <1>4 DEF RecorderInv

(* While states are being recorded the viewer waits at the start.          *)
LEMMA WaitingView ==
  ASSUME RecorderInv, ~finished, SessionInv', UNCHANGED <<memory, replayedThrough>>
  PROVE  ViewInv(Recorded, states', truth', memory', replayedThrough')
<1>1. replayedThrough' = 0 /\ 0 \in 0 .. Len(states')
  BY DEF RecorderInv, SessionInv, ArchiveInv
<1>2. \A a \in Recorded : Len(memory'[a]) \in Nat
  BY DEF RecorderInv, ViewInv, View
<1>3. PICK ss, tr : ss = states' /\ tr = truth'
  OBVIOUS
<1>4. \A a \in Recorded : View(ss, tr, 0, a, memory'[a])
  BY <1>2, ViewAtStart
<1> QED BY <1>1, <1>3, <1>4 DEF ViewInv

(* ... and every turn and every visit of the viewer keeps it.              *)
LEMMA NextRecorder == RecorderInv /\ [Next]_vars => RecorderInv'
<1> SUFFICES ASSUME RecorderInv, [Next]_vars PROVE RecorderInv'
  OBVIOUS
<1>1. SessionInv /\ ViewInv(Recorded, states, truth, memory, replayedThrough)
  BY DEF RecorderInv
<1>2. programFilter' = programFilter
  BY DEF Next, vars, Commit, AllocateFresh, AllocateAgain, ReleaseLock, Turn, RecordFinal, Seek
<1>3. Recorded' = Recorded
  BY <1>2, SameRecorded
<1>4. ASSUME NEW b \in Block, Commit(b) \/ AllocateFresh(b) \/ AllocateAgain(b) \/ ReleaseLock(b)
      PROVE  RecorderInv'
  <2>1. Turn
    BY <1>4 DEF Commit, AllocateFresh, AllocateAgain, ReleaseLock
  <2>2. SessionInv'
    BY <1>1, <1>4, CommitKeepsSession, FreshKeepsSession, AgainKeepsSession, ReleaseKeepsSession
  <2>3. ~finished /\ finished' = finished /\ UNCHANGED <<memory, replayedThrough>>
    BY <2>1 DEF Turn, viewer
  <2>4. ViewInv(Recorded, states', truth', memory', replayedThrough')
    BY <2>2, <2>3, WaitingView
  <2> QED BY <1>3, <2>2, <2>3, <2>4 DEF RecorderInv
<1>5. CASE RecordFinal
  <2>1. SessionInv'
    BY <1>1, <1>5, FinalKeepsSession
  <2>2. ~finished /\ finished' /\ UNCHANGED <<memory, replayedThrough>>
    BY <1>5 DEF RecordFinal, viewer
  <2>3. ViewInv(Recorded, states', truth', memory', replayedThrough')
    BY <2>1, <2>2, WaitingView
  <2> QED BY <1>3, <2>1, <2>2, <2>3 DEF RecorderInv
<1>6. ASSUME NEW target \in DOMAIN states, Seek(target) PROVE RecorderInv'
  <2>1. /\ storage' = storage /\ bumpTop' = bumpTop /\ finished' = finished /\ finished
        /\ pendingWrites' = pendingWrites /\ previousMemory' = previousMemory
        /\ states' = states /\ unreported' = unreported /\ truth' = truth
    BY <1>6 DEF Seek, session
  <2>2. SessionInv'
    BY <1>1, <1>3, <2>1 DEF SessionInv
  <2>3. ViewInv(Recorded, states, truth, memory', replayedThrough')
    BY <1>1, <1>6, SeekShows
  <2> QED BY <1>3, <2>1, <2>2, <2>3 DEF RecorderInv
<1>7. CASE UNCHANGED vars
  <2>1. /\ storage' = storage /\ bumpTop' = bumpTop /\ finished' = finished
        /\ pendingWrites' = pendingWrites /\ previousMemory' = previousMemory
        /\ states' = states /\ unreported' = unreported /\ truth' = truth
        /\ memory' = memory /\ replayedThrough' = replayedThrough
    BY <1>7 DEF vars, session, viewer
  <2> QED BY <1>3, <2>1 DEF RecorderInv, SessionInv
<1> QED BY <1>4, <1>5, <1>6, <1>7 DEF Next

(* What is shown is what was recorded.                                     *)
LEMMA ReplayFollows == RecorderInv => ReplayShowsMemory
<1> SUFFICES ASSUME RecorderInv, replayedThrough > 0, NEW a \in Arena, RecordsArena(a),
                    NEW x \in 0 .. truth[replayedThrough].top[a] - 1,
                    <<a, x>> \notin truth[replayedThrough].hidden
             PROVE  Shows(a, x)
  BY DEF ReplayShowsMemory
<1>1. PICK R \in SUBSET Arena : R = Recorded /\ a \in R
  BY DEF Recorded
<1>2. /\ ArchiveInv(R, states, truth) /\ Len(states) \in Nat
      /\ replayedThrough \in 0 .. Len(states)
      /\ View(states, truth, replayedThrough, a, memory[a])
  BY <1>1 DEF RecorderInv, SessionInv, ArchiveInv, ViewInv
<1>3. replayedThrough \in 1 .. Len(states)
  BY <1>2
<1>4. StateInv(R, states, truth, replayedThrough)
  BY <1>2, <1>3 DEF ArchiveInv
<1>5. PICK j \in 1 .. replayedThrough :
        /\ LastGiven(states, replayedThrough, a, x, j)
        /\ truth[j].bytes[a][x] = truth[replayedThrough].bytes[a][x]
  BY <1>1, <1>4 DEF StateInv
<1>6. memory[a][x + 1] = truth[replayedThrough].bytes[a][x]
  BY <1>2, <1>5 DEF View
<1>7. PICK p \in states[j] : p.arena = a /\ x \in Span(p)
  BY <1>5 DEF LastGiven, Given
<1>8. j \in 1 .. Len(states)
  BY <1>2, <1>3
<1>9. p.offset \in Nat /\ Len(p.bytes) \in Nat
  BY <1>2, <1>8, PatchEnds
<1>10. p.offset + Len(p.bytes) <= Len(memory[a]) /\ Len(memory[a]) \in Nat
  BY <1>2, <1>7 DEF View
<1>11. x < Len(memory[a])
  BY <1>7, <1>9, <1>10 DEF Span
<1> QED BY <1>6, <1>11 DEF Shows

(* Wherever the user drags the timeline, forwards or back, each byte of a  *)
(* recorded arena below its high-water mark is shown as it was at that     *)
(* state, unless something changed it without reporting it and nothing     *)
(* reported the byte since (recordState and replayMemory).                 *)
THEOREM ReplayIsFaithful == Spec => []ReplayShowsMemory
<1>1. Init => RecorderInv
  BY InitRecorder
<1>2. RecorderInv /\ [Next]_vars => RecorderInv'
  BY NextRecorder
<1>3. RecorderInv => ReplayShowsMemory
  BY ReplayFollows
<1> QED BY <1>1, <1>2, <1>3, PTL DEF Spec
=============================================================================
