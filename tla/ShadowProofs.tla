----------------------------- MODULE ShadowProofs -----------------------------
(* Proofs about the interval map: intervals never run into one another     *)
(* (Disjoint), and the map is a byte map (ImplementsBytes), for every      *)
(* arena size, set of records and sequence of calls.                       *)
(*                                                                         *)
(* The argument follows the three stages of access.  splitAt and the       *)
(* filling of gaps each keep the map well formed and leave the history of  *)
(* every byte alone; after them each byte of the range lies in an interval *)
(* that lies in the range.  So recording the access interval by interval   *)
(* records it byte by byte, and the first interval with a conflict starts  *)
(* at the first byte with one.                                             *)
EXTENDS ShadowMemory, TLAPS, WellFoundedInduction

WellFormed(es) ==
  /\ DOMAIN es \subseteq Byte
  /\ es \in [DOMAIN es -> Interval]
  /\ Apart(es)

NoneSpans(es, pos) == \A s \in DOMAIN es : ~ (s < pos /\ pos < es[s].end)

-----------------------------------------------------------------------------
(* Every set of numbers has a least one.                                   *)
LEMMA LeastExists ==
  ASSUME NEW S \in SUBSET Nat, S # {}
  PROVE  Least(S) \in S /\ \A y \in S : Least(S) <= y
<1> DEFINE Below == OpToRel(<, Nat)
<1>1. \E x \in S : \A y \in S : ~ (<< y, x >> \in Below)
  <2>1. IsWellFoundedOn(Below, Nat) BY NatLessThanWellFounded
  <2> HIDE DEF Below
  <2> QED BY <2>1, WFMin
<1>2. \A x \in S, y \in S : y < x => << y, x >> \in Below
  BY DEF OpToRel
<1> HIDE DEF Below
<1>3. \E x \in S : \A y \in S : x <= y
  <2> PICK x \in S : \A y \in S : ~ (<< y, x >> \in Below) BY <1>1
  <2>1. \A y \in S : ~ (y < x) BY <1>2, Zenon
  <2>2. \A y \in S : x <= y BY <2>1
  <2> QED BY <2>2
<1> QED BY <1>3 DEF Least

(* A bounded one has a greatest one too.                                   *)
LEMMA GreatestExists ==
  ASSUME NEW n \in Nat, NEW S \in SUBSET (0 .. n), S # {}
  PROVE  \E x \in S : \A y \in S : y <= x
<1> DEFINE T == {x \in 0 .. n : n - x \in S}
<1>1. T \in SUBSET Nat /\ T # {}
  <2> PICK x \in S : TRUE OBVIOUS
  <2>1. n - x \in 0 .. n /\ n - (n - x) = x OBVIOUS
  <2>2. n - x \in T BY <2>1
  <2>3. T \in SUBSET Nat OBVIOUS
  <2> HIDE DEF T
  <2> QED BY <2>2, <2>3
<1> HIDE DEF T
<1>2. Least(T) \in T /\ \A y \in T : Least(T) <= y
  BY <1>1, LeastExists
<1>3. \A y \in S : n - y \in T
  <2> TAKE y \in S
  <2>1. n - y \in 0 .. n /\ n - (n - y) = y OBVIOUS
  <2> QED BY <2>1 DEF T
<1>4. n - Least(T) \in S /\ Least(T) \in 0 .. n
  BY <1>2 DEF T
<1>5. \A y \in S : y <= n - Least(T)
  BY <1>2, <1>3, <1>4
<1> QED BY <1>4, <1>5

-----------------------------------------------------------------------------
(* In a well-formed map at most one interval holds a byte.                 *)
LEMMA OneHolder ==
  ASSUME NEW es, WellFormed(es), NEW b \in Byte
  PROVE  /\ \A s \in Holder(es, b) : HistoryOf(es, b) = es[s].entry
         /\ Holder(es, b) = {} => HistoryOf(es, b) = Fresh
<1>1. \A s, t \in Holder(es, b) : s = t
  BY SizeAssumption DEF WellFormed, Apart, Holder, Byte, Interval
<1> QED BY <1>1 DEF HistoryOf

(* Two well-formed maps with the same holders of a byte, up to the history *)
(* they give, agree on it.                                                 *)
LEMMA SameHistory ==
  ASSUME NEW es, NEW fs, WellFormed(es), WellFormed(fs), NEW b \in Byte,
         \A s \in Holder(es, b) : \E t \in Holder(fs, b) : fs[t].entry = es[s].entry,
         \A t \in Holder(fs, b) : Holder(es, b) # {} \/ fs[t].entry = Fresh
  PROVE  HistoryOf(fs, b) = HistoryOf(es, b)
<1>1. CASE Holder(es, b) # {}
  <2> PICK s \in Holder(es, b) : TRUE BY <1>1
  <2> PICK t \in Holder(fs, b) : fs[t].entry = es[s].entry OBVIOUS
  <2> QED BY OneHolder
<1>2. CASE Holder(es, b) = {}
  <2>1. CASE Holder(fs, b) = {}
    BY <1>2, <2>1, OneHolder
  <2>2. CASE Holder(fs, b) # {}
    BY <1>2, <2>2, OneHolder
  <2> QED BY <2>1, <2>2
<1> QED BY <1>1, <1>2

-----------------------------------------------------------------------------
(* splitAt keeps the map well formed and every history, no interval spans  *)
(* the position afterwards, and positions nothing spanned stay so.         *)
LEMMA SplitKeeps ==
  ASSUME NEW es, WellFormed(es), NEW pos \in 0 .. Size
  PROVE  /\ WellFormed(SplitAt(es, pos))
         /\ NoneSpans(SplitAt(es, pos), pos)
         /\ \A p \in 0 .. Size : NoneSpans(es, p) => NoneSpans(SplitAt(es, pos), p)
         /\ \A b \in Byte : HistoryOf(SplitAt(es, pos), b) = HistoryOf(es, b)
<1> DEFINE fs == SplitAt(es, pos)
<1>1. CASE Cut(es, pos) = {}
  <2>1. fs = es BY <1>1 DEF SplitAt
  <2>2. NoneSpans(es, pos)
    <3> SUFFICES ASSUME NEW s \in DOMAIN es, s < pos, pos < es[s].end
                 PROVE  s \in Cut(es, pos)
      BY <1>1 DEF NoneSpans
    <3>1. \A t \in DOMAIN es : t <= pos => t <= s
      BY SizeAssumption DEF WellFormed, Apart, Byte, Interval
    <3> QED BY <3>1 DEF Cut
  <2> QED BY <2>1, <2>2
<1>2. CASE Cut(es, pos) # {}
  <2> DEFINE s == CHOOSE c \in Cut(es, pos) : TRUE
  <2>1. s \in Cut(es, pos) BY <1>2
  <2> HIDE DEF s
  <2>2. /\ s \in DOMAIN es /\ s < pos /\ pos < es[s].end
        /\ \A t \in DOMAIN es : t <= pos => t <= s
    BY <2>1 DEF Cut
  <2>3. \A t \in Cut(es, pos) : t = s
    BY <2>2, SizeAssumption DEF Cut, WellFormed, Byte
  <2>4. pos \notin DOMAIN es /\ pos \in Byte
    BY <2>2, SizeAssumption DEF WellFormed, Byte, Interval
  <2>5. fs = [t \in DOMAIN es \cup {pos} |->
                IF t = pos THEN es[s]
                ELSE IF t = s THEN [es[t] EXCEPT !.end = pos] ELSE es[t]]
    <3>1. \A t \in DOMAIN es : t \in Cut(es, pos) <=> t = s BY <2>1, <2>3
    <3> QED BY <1>2, <2>4, <3>1 DEF SplitAt, s
  <2> HIDE DEF fs
  <2>6. /\ DOMAIN fs = DOMAIN es \cup {pos}
        /\ fs[pos] = es[s]
        /\ \A t \in DOMAIN es : fs[t].entry = es[t].entry
        /\ \A t \in DOMAIN es : t # s => fs[t] = es[t]
        /\ fs[s] = [end |-> pos, entry |-> es[s].entry]
    BY <2>2, <2>4, <2>5 DEF WellFormed, Interval
  <2>7. WellFormed(fs)
    <3>1. DOMAIN fs \subseteq Byte BY <2>4, <2>6 DEF WellFormed
    <3>2. fs \in [DOMAIN fs -> Interval]
      <4>1. \A t \in DOMAIN fs : fs[t] \in Interval
        BY <2>2, <2>4, <2>6, SizeAssumption DEF WellFormed, Interval, Byte
      <4>2. fs = [t \in DOMAIN fs |-> fs[t]] BY <2>5
      <4> QED BY <4>1, <4>2
    <3>3. Apart(fs)
      BY <2>2, <2>4, <2>6, SizeAssumption DEF WellFormed, Apart, Interval, Byte
    <3> QED BY <3>1, <3>2, <3>3 DEF WellFormed
  <2>8. NoneSpans(fs, pos)
    BY <2>2, <2>4, <2>6, SizeAssumption DEF WellFormed, NoneSpans, Apart, Interval, Byte
  <2>9. ASSUME NEW p \in 0 .. Size, NoneSpans(es, p)
        PROVE  NoneSpans(fs, p)
    BY <2>2, <2>4, <2>6, <2>9, SizeAssumption
       DEF WellFormed, NoneSpans, Apart, Interval, Byte
  <2>10. ASSUME NEW b \in Byte
         PROVE  HistoryOf(fs, b) = HistoryOf(es, b)
    <3>1. ASSUME NEW t \in Holder(es, b)
          PROVE  \E u \in Holder(fs, b) : fs[u].entry = es[t].entry
      <4>1. CASE t = s /\ pos <= b
        <5>1. pos \in Holder(fs, b)
          BY <2>4, <2>6, <3>1, <4>1 DEF Holder
        <5> QED BY <2>6, <4>1, <5>1
      <4>2. CASE ~ (t = s /\ pos <= b)
        <5>1. t \in Holder(fs, b)
          BY <2>2, <2>4, <2>6, <3>1, <4>2, SizeAssumption DEF Holder, Byte
        <5> QED BY <2>6, <5>1 DEF Holder
      <4> QED BY <4>1, <4>2
    <3>2. ASSUME NEW u \in Holder(fs, b)
          PROVE  Holder(es, b) # {}
      <4>1. CASE u = pos
        <5>1. s \in Holder(es, b)
          BY <2>2, <2>4, <2>6, <3>2, <4>1, SizeAssumption DEF Holder, WellFormed, Byte
        <5> QED BY <5>1
      <4>2. CASE u # pos
        <5>1. u \in Holder(es, b)
          BY <2>2, <2>4, <2>6, <3>2, <4>2, SizeAssumption
             DEF Holder, WellFormed, Interval, Byte
        <5> QED BY <5>1
      <4> QED BY <4>1, <4>2
    <3> QED BY <2>7, <3>1, <3>2, SameHistory
  <2> QED BY <2>7, <2>8, <2>9, <2>10 DEF fs
<1> QED BY <1>1, <1>2

(* The two splits of access and invalidate.                                *)
LEMMA TwoSplits ==
  ASSUME NEW es, WellFormed(es), NEW lo \in 0 .. Size, NEW hi \in 0 .. Size
  PROVE  LET fs == SplitAt(SplitAt(es, lo), hi)
         IN /\ WellFormed(fs) /\ NoneSpans(fs, lo) /\ NoneSpans(fs, hi)
            /\ \A b \in Byte : HistoryOf(fs, b) = HistoryOf(es, b)
BY SplitKeeps

-----------------------------------------------------------------------------
(* Filling the gaps of [lo, hi) keeps the map well formed and every        *)
(* history; each byte of the range then lies in an interval of the range,  *)
(* and no interval outside the range holds one.                            *)
LEMMA FillKeeps ==
  ASSUME NEW es, WellFormed(es), NEW lo \in 0 .. Size, NEW hi \in 0 .. Size, lo < hi,
         NoneSpans(es, lo), NoneSpans(es, hi)
  PROVE  LET fs == Filled(es, lo, hi)
         IN /\ WellFormed(fs)
            /\ \A b \in Byte : HistoryOf(fs, b) = HistoryOf(es, b)
            /\ \A b \in Byte : lo <= b /\ b < hi => Holder(fs, b) # {}
            /\ \A b \in Byte : \A s \in Holder(fs, b) :
                 (lo <= b /\ b < hi) <=> (s \in Within(fs, lo, hi))
            /\ \A s \in Within(fs, lo, hi) : fs[s].end <= hi
<1> DEFINE fs == Filled(es, lo, hi)
           G  == Gaps(es, lo, hi)
           E(g) == GapEnd(es, g, hi)
<1>1. \A s \in Within(es, lo, hi) : es[s].end <= hi /\ s \in Byte /\ s < es[s].end
  BY SizeAssumption DEF Within, NoneSpans, WellFormed, Apart, Byte, Interval
<1>2. \A g \in G : /\ g \in Byte /\ g \notin DOMAIN es /\ lo <= g /\ g < hi
                   /\ g = lo \/ \E s \in Within(es, lo, hi) : g = es[s].end
  <2> TAKE g \in G
  <2>1. g < hi /\ g \notin DOMAIN es BY DEF Gaps
  <2>2. g = lo \/ \E s \in Within(es, lo, hi) : g = es[s].end BY DEF Gaps
  <2>3. g \in 0 .. Size /\ lo <= g BY <1>1, <2>2, SizeAssumption DEF Within, Byte, WellFormed, Interval
  <2> QED BY <2>1, <2>2, <2>3, SizeAssumption DEF Byte
<1>3. \A g \in G : /\ E(g) \in 1 .. Size /\ g < E(g) /\ E(g) <= hi
                   /\ E(g) = hi \/ E(g) \in DOMAIN es
                   /\ \A s \in DOMAIN es : g < s => E(g) <= s
  <2> TAKE g \in G
  <2> DEFINE S == {hi} \cup {s \in DOMAIN es : g < s /\ s < hi}
  <2>1. S \in SUBSET Nat /\ S # {} BY SizeAssumption DEF WellFormed, Byte
  <2>2. E(g) = Least(S) BY DEF GapEnd
  <2> HIDE DEF S
  <2>3. E(g) \in S /\ \A y \in S : E(g) <= y BY <2>1, <2>2, LeastExists
  <2>4. E(g) = hi \/ (E(g) \in DOMAIN es /\ g < E(g) /\ E(g) < hi) BY <2>3 DEF S
  <2>5. hi \in S /\ \A s \in DOMAIN es : g < s /\ s < hi => s \in S BY DEF S
  <2> HIDE DEF E
  <2>6. g \in Byte /\ g < hi BY <1>2
  <2>7. E(g) \in Nat /\ E(g) <= hi /\ g < E(g) BY <2>4, <2>6, SizeAssumption DEF Byte, WellFormed
  <2>8. \A s \in DOMAIN es : g < s => E(g) <= s
    BY <2>3, <2>5, <2>6, <2>7, SizeAssumption DEF Byte, WellFormed
  <2> QED BY <2>4, <2>6, <2>7, <2>8, SizeAssumption DEF Byte
<1>4. \A g \in G, s \in DOMAIN es : s < g => es[s].end <= g
  <2> TAKE g \in G, s \in DOMAIN es
  <2>1. CASE g = lo
    BY <2>1, SizeAssumption DEF NoneSpans, WellFormed, Byte, Interval
  <2>2. CASE \E t \in Within(es, lo, hi) : g = es[t].end
    <3> PICK t \in Within(es, lo, hi) : g = es[t].end BY <2>2
    <3> QED BY <1>1, SizeAssumption DEF Within, WellFormed, Apart, Byte, Interval
  <2> QED BY <1>2, <2>1, <2>2
<1>5. \A g, h \in G : g < h => E(g) <= h
  <2> SUFFICES ASSUME NEW g \in G, NEW h \in G, g < h
               PROVE  E(g) <= h
    OBVIOUS
  <2>1. h # lo BY <1>2, SizeAssumption DEF Byte
  <2> PICK t \in Within(es, lo, hi) : h = es[t].end BY <1>2, <2>1
  <2>2. t \in DOMAIN es /\ t \in Byte /\ t < h BY <1>1 DEF Within
  <2>3. t # g BY <1>2, <2>2
  <2>4. ~ (t < g) BY <1>2, <1>4, <2>2, SizeAssumption DEF Byte
  <2>5. g < t BY <1>2, <2>2, <2>3, <2>4, SizeAssumption DEF Byte
  <2>6. E(g) <= t /\ E(g) \in 1 .. Size BY <1>3, <2>2, <2>5
  <2>7. h \in Byte BY <1>2
  <2> HIDE DEF E
  <2> QED BY <2>2, <2>6, <2>7, SizeAssumption DEF Byte
<1>6. /\ DOMAIN fs = DOMAIN es \cup G
      /\ \A s \in DOMAIN es : fs[s] = es[s]
      /\ \A g \in G : fs[g] = [end |-> E(g), entry |-> Fresh]
      /\ fs = [s \in DOMAIN fs |-> fs[s]]
  BY <1>2 DEF Filled
<1> HIDE DEF fs, G, E
<1>7. Fresh \in Entry BY DEF Fresh, Entry
<1>8. WellFormed(fs)
  <2>1. DOMAIN fs \subseteq Byte BY <1>2, <1>6 DEF WellFormed
  <2>2. \A s \in DOMAIN fs : fs[s] \in Interval
    BY <1>3, <1>6, <1>7 DEF WellFormed, Interval
  <2>3. ASSUME NEW s \in DOMAIN fs PROVE s < fs[s].end
    BY <1>3, <1>6, <2>3 DEF WellFormed, Apart
  <2>4. ASSUME NEW s \in DOMAIN fs, NEW t \in DOMAIN fs, s < t
        PROVE  fs[s].end <= t
    <3>1. CASE s \in DOMAIN es /\ t \in DOMAIN es
      BY <1>6, <2>4, <3>1 DEF WellFormed, Apart
    <3>2. CASE s \in DOMAIN es /\ t \in G
      BY <1>4, <1>6, <2>4, <3>2
    <3>3. CASE s \in G /\ t \in DOMAIN es
      BY <1>3, <1>6, <2>4, <3>3
    <3>4. CASE s \in G /\ t \in G
      BY <1>5, <1>6, <2>4, <3>4
    <3> QED BY <1>6, <3>1, <3>2, <3>3, <3>4
  <2> QED BY <1>6, <2>1, <2>2, <2>3, <2>4 DEF WellFormed, Apart
<1>9. ASSUME NEW b \in Byte
      PROVE  HistoryOf(fs, b) = HistoryOf(es, b)
  <2>1. \A s \in Holder(es, b) : s \in Holder(fs, b) /\ fs[s].entry = es[s].entry
    BY <1>6 DEF Holder
  <2>2. \A s \in Holder(fs, b) : s \in Holder(es, b) \/ fs[s].entry = Fresh
    BY <1>6 DEF Holder
  <2> QED BY <1>8, <2>1, <2>2, SameHistory
<1>10. ASSUME NEW b \in Byte, lo <= b, b < hi, Holder(es, b) = {}
       PROVE  \E g \in G : g <= b /\ b < E(g)
  <2> DEFINE S == {x \in {lo} \cup {es[s].end : s \in Within(es, lo, hi)} : x <= b}
  <2>1. S \in SUBSET (0 .. Size) /\ S # {}
    <3>1. lo \in S BY <1>10
    <3>2. S \in SUBSET (0 .. Size)
      BY SizeAssumption DEF Within, WellFormed, Interval
    <3> QED BY <3>1, <3>2
  <2> HIDE DEF S
  <2> PICK g \in S : \A y \in S : y <= g BY <2>1, GreatestExists, SizeAssumption
  <2>2. g \in 0 .. Size /\ g <= b BY <2>1 DEF S
  <2>3. lo <= g BY <1>10 DEF S
  <2>4. \A s \in Within(es, lo, hi) : es[s].end <= b => es[s].end <= g BY DEF S
  <2>5. \A s \in DOMAIN es : s <= b => es[s].end <= b
    BY <1>10, SizeAssumption DEF Holder, WellFormed, Interval, Byte
  <2>6. \A s \in DOMAIN es : s <= b => s < g
    <3> SUFFICES ASSUME NEW s \in DOMAIN es, s <= b, ~ (s < g) PROVE FALSE
      OBVIOUS
    <3>1. s \in Byte BY DEF WellFormed
    <3>2. s \in Within(es, lo, hi)
      BY <1>10, <2>2, <2>3, <3>1, SizeAssumption DEF Within, Byte
    <3> QED BY <1>1, <2>2, <2>4, <2>5, <3>1, <3>2, SizeAssumption DEF Byte, WellFormed, Interval
  <2>7. g \notin DOMAIN es BY <2>2, <2>6
  <2>8. g \in G BY <1>10, <2>2, <2>7, SizeAssumption DEF S, G, Gaps, Byte
  <2>9. b < E(g)
    <3>1. CASE E(g) = hi BY <1>10, <3>1
    <3>2. CASE E(g) \in DOMAIN es
      BY <1>3, <2>2, <2>6, <2>8, <3>2, SizeAssumption DEF Byte
    <3> QED BY <1>3, <2>8, <3>1, <3>2
  <2> QED BY <2>2, <2>8, <2>9
<1>11. ASSUME NEW b \in Byte, lo <= b, b < hi
       PROVE  Holder(fs, b) # {}
  <2>1. CASE Holder(es, b) = {}
    <3> PICK g \in G : g <= b /\ b < E(g) BY <1>10, <1>11, <2>1
    <3>1. g \in Holder(fs, b) BY <1>6 DEF Holder
    <3> QED BY <3>1
  <2>2. CASE Holder(es, b) # {}
    BY <1>6, <2>2 DEF Holder
  <2> QED BY <2>1, <2>2
<1>12. \A s \in DOMAIN fs : /\ s \in Within(fs, lo, hi) => fs[s].end <= hi
                            /\ s < lo => fs[s].end <= lo
  <2> TAKE s \in DOMAIN fs
  <2>1. CASE s \in DOMAIN es
    BY <1>1, <1>6, <2>1, SizeAssumption DEF Within, NoneSpans, WellFormed, Byte, Interval
  <2>2. CASE s \in G
    BY <1>2, <1>3, <1>6, <2>2, SizeAssumption DEF Byte
  <2> QED BY <1>6, <2>1, <2>2
<1>13. ASSUME NEW b \in Byte, NEW s \in Holder(fs, b)
       PROVE  (lo <= b /\ b < hi) <=> (s \in Within(fs, lo, hi))
  <2>1. s \in DOMAIN fs /\ s \in Byte /\ fs[s].end \in Nat /\ s <= b /\ b < fs[s].end
    BY <1>8, <1>13 DEF Holder, WellFormed, Interval, Byte
  <2> QED BY <1>12, <2>1, SizeAssumption DEF Within, Byte
<1> QED BY <1>8, <1>9, <1>11, <1>12, <1>13 DEF fs, Within

-----------------------------------------------------------------------------
(* Recording an access yields an entry again.                              *)
LEMMA TouchedIsEntry ==
  ASSUME NEW e \in Entry, NEW isWrite \in BOOLEAN, NEW r \in Record
  PROVE  Touched(e, isWrite, r) \in Entry
<1>1. CASE isWrite
  BY <1>1 DEF Touched, Entry
<1>2. CASE ~ isWrite
  <2> DEFINE old  == e.reads
             over == [i \in DOMAIN old |-> IF old[i].core = r.core THEN r ELSE old[i]]
  <2>1. old \in Seq(Record) BY DEF Entry
  <2> HIDE DEF old
  <2>2. over \in Seq(Record) /\ Append(old, r) \in Seq(Record) BY <2>1
  <2>3. \/ Touched(e, isWrite, r) = [e EXCEPT !.reads = over]
        \/ Touched(e, isWrite, r) = [e EXCEPT !.reads = Append(old, r)]
    BY <1>2 DEF Touched, old
  <2> HIDE DEF over
  <2> QED BY <2>2, <2>3 DEF Entry
<1> QED BY <1>1, <1>2

(* What access relies on after splitting and filling.                      *)
Covers(es, lo, hi) ==
  /\ WellFormed(es)
  /\ \A b \in Byte : lo <= b /\ b < hi => Holder(es, b) # {}
  /\ \A b \in Byte : \A s \in Holder(es, b) :
       (lo <= b /\ b < hi) <=> (s \in Within(es, lo, hi))
  /\ \A s \in Within(es, lo, hi) : es[s].end <= hi

(* Splitting at both ends and filling the gaps gives access what it        *)
(* relies on, and no byte another history.                                 *)
LEMMA CoverCovers ==
  ASSUME NEW es, WellFormed(es), NEW lo \in 0 .. Size, NEW hi \in 0 .. Size, lo < hi
  PROVE  /\ Covers(Cover(es, lo, hi), lo, hi)
         /\ \A b \in Byte : HistoryOf(Cover(es, lo, hi), b) = HistoryOf(es, b)
<1> DEFINE fs == SplitAt(SplitAt(es, lo), hi)
<1>1. /\ WellFormed(fs) /\ NoneSpans(fs, lo) /\ NoneSpans(fs, hi)
      /\ \A b \in Byte : HistoryOf(fs, b) = HistoryOf(es, b)
  BY TwoSplits
<1> HIDE DEF fs
<1>2. Cover(es, lo, hi) = Filled(fs, lo, hi) BY DEF Cover, fs
<1> QED BY <1>1, <1>2, FillKeeps DEF Covers

(* Recording an access interval by interval records it byte by byte.       *)
LEMMA RecordedPerByte ==
  ASSUME NEW lo \in 0 .. Size, NEW hi \in 0 .. Size, NEW isWrite \in BOOLEAN,
         NEW r \in Record, NEW es, Covers(es, lo, hi)
  PROVE  LET fs == [s \in DOMAIN es |->
                      IF s \in Within(es, lo, hi)
                      THEN [es[s] EXCEPT !.entry = Touched(es[s].entry, isWrite, r)]
                      ELSE es[s]]
         IN /\ WellFormed(fs)
            /\ \A b \in Byte :
                 HistoryOf(fs, b) = IF lo <= b /\ b < hi
                                    THEN Touched(HistoryOf(es, b), isWrite, r)
                                    ELSE HistoryOf(es, b)
<1> DEFINE fs == [s \in DOMAIN es |->
                    IF s \in Within(es, lo, hi)
                    THEN [es[s] EXCEPT !.entry = Touched(es[s].entry, isWrite, r)]
                    ELSE es[s]]
<1>1. \A s \in DOMAIN es : /\ es[s] \in Interval /\ es[s].entry \in Entry
                           /\ Touched(es[s].entry, isWrite, r) \in Entry
  BY TouchedIsEntry DEF Covers, WellFormed, Interval
<1>2. /\ DOMAIN fs = DOMAIN es
      /\ fs = [s \in DOMAIN fs |-> fs[s]]
      /\ \A s \in DOMAIN es :
           /\ fs[s].end = es[s].end
           /\ fs[s] \in Interval
           /\ s \in Within(es, lo, hi) => fs[s].entry = Touched(es[s].entry, isWrite, r)
           /\ s \notin Within(es, lo, hi) => fs[s].entry = es[s].entry
  BY <1>1 DEF Interval
<1> HIDE DEF fs
<1>3. WellFormed(fs)
  BY <1>2 DEF Covers, WellFormed, Apart
<1>4. ASSUME NEW b \in Byte
      PROVE  HistoryOf(fs, b) = IF lo <= b /\ b < hi
                                THEN Touched(HistoryOf(es, b), isWrite, r)
                                ELSE HistoryOf(es, b)
  <2>1. Holder(fs, b) = Holder(es, b) BY <1>2 DEF Holder
  <2>2. CASE Holder(es, b) = {}
    BY <1>3, <2>1, <2>2, OneHolder DEF Covers
  <2>3. CASE Holder(es, b) # {}
    <3> PICK s \in Holder(es, b) : TRUE BY <2>3
    <3>1. HistoryOf(es, b) = es[s].entry BY OneHolder DEF Covers
    <3>2. HistoryOf(fs, b) = fs[s].entry BY <1>3, <2>1, OneHolder
    <3>3. (lo <= b /\ b < hi) <=> (s \in Within(es, lo, hi)) BY DEF Covers
    <3>4. s \in DOMAIN es BY DEF Holder
    <3> QED BY <1>2, <3>1, <3>2, <3>3, <3>4
  <2> QED BY <2>2, <2>3
<1> QED BY <1>3, <1>4 DEF fs

(* Erasing the intervals of a range forgets its bytes and no others.       *)
LEMMA ErasedPerByte ==
  ASSUME NEW es, WellFormed(es), NEW lo \in 0 .. Size, NEW hi \in 0 .. Size, lo < hi,
         NoneSpans(es, lo), NoneSpans(es, hi)
  PROVE  LET fs == [s \in DOMAIN es \ Within(es, lo, hi) |-> es[s]]
         IN /\ WellFormed(fs)
            /\ \A b \in Byte :
                 HistoryOf(fs, b) = IF lo <= b /\ b < hi THEN Fresh ELSE HistoryOf(es, b)
<1> DEFINE fs == [s \in DOMAIN es \ Within(es, lo, hi) |-> es[s]]
<1>1. /\ DOMAIN fs = DOMAIN es \ Within(es, lo, hi)
      /\ fs = [s \in DOMAIN fs |-> fs[s]]
      /\ \A s \in DOMAIN fs : fs[s] = es[s]
  OBVIOUS
<1> HIDE DEF fs
<1>2. WellFormed(fs) BY <1>1 DEF WellFormed, Apart
<1>3. ASSUME NEW b \in Byte, NEW s \in Holder(es, b)
      PROVE  (lo <= b /\ b < hi) <=> (s \in Within(es, lo, hi))
  BY <1>3, SizeAssumption
     DEF Holder, Within, NoneSpans, WellFormed, Apart, Interval, Byte
<1>4. ASSUME NEW b \in Byte
      PROVE  HistoryOf(fs, b) = IF lo <= b /\ b < hi THEN Fresh ELSE HistoryOf(es, b)
  <2>1. CASE lo <= b /\ b < hi
    <3>1. Holder(fs, b) = {}
      <4>1. \A s \in Holder(fs, b) : s \in Holder(es, b) /\ s \notin Within(es, lo, hi)
        BY <1>1 DEF Holder
      <4> QED BY <1>3, <2>1, <4>1
    <3> QED BY <1>2, <2>1, <3>1, OneHolder
  <2>2. CASE ~ (lo <= b /\ b < hi)
    <3>1. Holder(fs, b) = Holder(es, b)
      <4>1. \A s \in Holder(es, b) : s \in DOMAIN fs BY <1>1, <1>3, <2>2 DEF Holder
      <4> QED BY <1>1, <4>1 DEF Holder
    <3>2. CASE Holder(es, b) = {}
      BY <1>2, <2>2, <3>1, <3>2, OneHolder
    <3>3. CASE Holder(es, b) # {}
      <4> PICK s \in Holder(es, b) : TRUE BY <3>3
      <4>1. fs[s] = es[s] BY <1>1, <3>1 DEF Holder
      <4> QED BY <1>2, <2>2, <3>1, <4>1, OneHolder
    <3> QED BY <3>2, <3>3
  <2> QED BY <2>1, <2>2
<1> QED BY <1>2, <1>4 DEF fs

-----------------------------------------------------------------------------
(* The invariant: the map is well formed.                                  *)
LEMMA InvariantParts == WellFormed(entries) <=> TypeOK /\ Disjoint
BY DEF WellFormed, TypeOK, Disjoint

(* The empty map is well formed.                                           *)
LEMMA InitWellFormed == Init => WellFormed(entries)
<1> SUFFICES ASSUME Init PROVE WellFormed(entries)
  OBVIOUS
<1>1. DOMAIN entries = {} /\ entries = [s \in {} |-> 0] BY DEF Init
<1> QED BY <1>1 DEF WellFormed, Apart

(* An access touches the history of the bytes of its range and of no       *)
(* other.                                                                  *)
LEMMA AccessWellFormed ==
  ASSUME NEW lo \in 0 .. Size, NEW hi \in 0 .. Size, NEW isWrite \in BOOLEAN,
         NEW r \in Record, WellFormed(entries), Access(lo, hi, isWrite, r)
  PROVE  /\ WellFormed(entries')
         /\ \A b \in Byte :
              HistoryOf(entries', b) = IF lo <= b /\ b < hi
                                       THEN Touched(HistoryOf(entries, b), isWrite, r)
                                       ELSE HistoryOf(entries, b)
<1> DEFINE es == Cover(entries, lo, hi)
<1>1. lo < hi BY DEF Access
<1>2. /\ Covers(es, lo, hi)
      /\ \A b \in Byte : HistoryOf(es, b) = HistoryOf(entries, b)
  BY <1>1, CoverCovers
<1>3. entries' = [s \in DOMAIN es |->
                    IF s \in Within(es, lo, hi)
                    THEN [es[s] EXCEPT !.entry = Touched(es[s].entry, isWrite, r)]
                    ELSE es[s]]
  BY DEF Access
<1> HIDE DEF es
<1> QED BY <1>2, <1>3, RecordedPerByte

(* An invalidation makes the bytes of its range fresh and no other.        *)
LEMMA InvalidateWellFormed ==
  ASSUME NEW lo \in 0 .. Size, NEW hi \in 0 .. Size, WellFormed(entries),
         Invalidate(lo, hi)
  PROVE  /\ WellFormed(entries')
         /\ \A b \in Byte :
              HistoryOf(entries', b) = IF lo <= b /\ b < hi THEN Fresh
                                       ELSE HistoryOf(entries, b)
<1> DEFINE es == SplitAt(SplitAt(entries, lo), hi)
<1>1. lo < hi BY DEF Invalidate
<1>2. /\ WellFormed(es) /\ NoneSpans(es, lo) /\ NoneSpans(es, hi)
      /\ \A b \in Byte : HistoryOf(es, b) = HistoryOf(entries, b)
  BY TwoSplits
<1>3. entries' = [s \in DOMAIN es \ Within(es, lo, hi) |-> es[s]]
  BY DEF Invalidate
<1> HIDE DEF es
<1> QED BY <1>1, <1>2, <1>3, ErasedPerByte

(* Every operation keeps the map well formed.                              *)
LEMMA NextWellFormed == WellFormed(entries) /\ [Next]_vars => WellFormed(entries)'
<1> SUFFICES ASSUME WellFormed(entries), [Next]_vars PROVE WellFormed(entries')
  BY DEF WellFormed, Apart
<1>1. CASE UNCHANGED vars BY <1>1 DEF vars
<1>2. ASSUME NEW lo \in 0 .. Size, NEW hi \in 0 .. Size, NEW isWrite \in BOOLEAN,
             NEW r \in Record, Access(lo, hi, isWrite, r)
      PROVE  WellFormed(entries')
  BY <1>2, AccessWellFormed
<1>3. ASSUME NEW lo \in 0 .. Size, NEW hi \in 0 .. Size, Invalidate(lo, hi)
      PROVE  WellFormed(entries')
  BY <1>3, InvalidateWellFormed
<1>4. ASSUME NEW lo, NEW hi, NEW isWrite, NEW r, AccessNothing(lo, hi, isWrite, r)
      PROVE  WellFormed(entries')
  BY <1>4 DEF AccessNothing
<1>5. ASSUME NEW lo, NEW hi, InvalidateNothing(lo, hi)
      PROVE  WellFormed(entries')
  BY <1>5 DEF InvalidateNothing
<1>6. \A lo \in 0 .. Size : \A hi \in lo .. Size : hi \in 0 .. Size
  BY SizeAssumption
<1> QED BY <1>1, <1>2, <1>3, <1>4, <1>5, <1>6 DEF Next

(* Every interval lies in the arena and records valid accesses.            *)
THEOREM TypeCorrect == Spec => []TypeOK
<1>1. Spec => []WellFormed(entries)
  BY InitWellFormed, NextWellFormed, PTL DEF Spec
<1> QED BY <1>1, InvariantParts, PTL

(* No interval is empty or runs into the next, whatever was split, filled  *)
(* or erased before: lower_bound in access and invalidate finds the right  *)
(* one.                                                                    *)
THEOREM IntervalsStayApart == Spec => []Disjoint
<1>1. Spec => []WellFormed(entries)
  BY InitWellFormed, NextWellFormed, PTL DEF Spec
<1> QED BY <1>1, InvariantParts, PTL

-----------------------------------------------------------------------------
(* One read per core.  The history of a byte starts empty, changes only by *)
(* Touched, and every interval holds the history of its first byte.        *)
OneRead(e) == \A i, j \in DOMAIN e.reads : e.reads[i].core = e.reads[j].core => i = j

(* A read replaces the read of its core, a write drops them all.           *)
LEMMA TouchedKeepsOneRead ==
  ASSUME NEW e \in Entry, OneRead(e), NEW isWrite \in BOOLEAN, NEW r \in Record
  PROVE  OneRead(Touched(e, isWrite, r))
<1> DEFINE old  == e.reads
           over == [i \in DOMAIN old |-> IF old[i].core = r.core THEN r ELSE old[i]]
<1>1. old \in Seq(Record) BY DEF Entry
<1>2. \A i, j \in DOMAIN old : old[i].core = old[j].core => i = j
  BY DEF OneRead
<1> HIDE DEF old
<1>3. CASE isWrite
  BY <1>3 DEF Touched, OneRead
<1>4. CASE ~ isWrite /\ \E i \in DOMAIN old : old[i].core = r.core
  <2>1. Touched(e, isWrite, r).reads = over
    BY <1>4 DEF Touched, Entry, old
  <2>2. \A i \in DOMAIN over : i \in DOMAIN old /\ over[i].core = old[i].core
    OBVIOUS
  <2> HIDE DEF over
  <2> QED BY <1>2, <2>1, <2>2 DEF OneRead
<1>5. CASE ~ isWrite /\ ~ \E i \in DOMAIN old : old[i].core = r.core
  <2>1. Touched(e, isWrite, r).reads = Append(old, r)
    BY <1>5 DEF Touched, Entry, old
  <2>2. ASSUME NEW i \in DOMAIN Append(old, r), NEW j \in DOMAIN Append(old, r),
               Append(old, r)[i].core = Append(old, r)[j].core
        PROVE  i = j
    <3>1. \A k \in DOMAIN Append(old, r) :
            \/ k \in DOMAIN old /\ Append(old, r)[k] = old[k]
            \/ k = Len(old) + 1 /\ Append(old, r)[k] = r
      BY <1>1
    <3> QED BY <1>2, <1>5, <2>2, <3>1
  <2> QED BY <2>1, <2>2 DEF OneRead
<1> QED BY <1>3, <1>4, <1>5

HistoriesHoldOneRead == \A b \in Byte : OneRead(HistoryOf(entries, b))

(* A byte somebody holds has the history its interval gives it, the others *)
(* have none.                                                              *)
LEMMA HistoryIsEntry ==
  ASSUME WellFormed(entries), NEW b \in Byte
  PROVE  HistoryOf(entries, b) \in Entry
<1>1. Fresh \in Entry BY DEF Fresh, Entry
<1>2. \A s \in Holder(entries, b) : entries[s].entry \in Entry
  BY DEF Holder, WellFormed, Interval
<1> QED BY <1>1, <1>2 DEF HistoryOf

(* A byte nobody touched has no read.                                      *)
LEMMA InitOneRead == Init => HistoriesHoldOneRead
<1> SUFFICES ASSUME Init, NEW b \in Byte PROVE OneRead(HistoryOf(entries, b))
  BY DEF HistoriesHoldOneRead
<1>1. HistoryOf(entries, b) = Fresh BY DEF Init, HistoryOf, Holder
<1> QED BY <1>1 DEF Fresh, OneRead

(* Every operation keeps one read per core.                                *)
LEMMA NextOneRead ==
  WellFormed(entries) /\ HistoriesHoldOneRead /\ [Next]_vars => HistoriesHoldOneRead'
<1> SUFFICES ASSUME WellFormed(entries), HistoriesHoldOneRead, [Next]_vars,
                    NEW b \in Byte
             PROVE  OneRead(HistoryOf(entries', b))
  BY DEF HistoriesHoldOneRead, HistoryOf, Holder
<1>1. HistoryOf(entries, b) \in Entry /\ OneRead(HistoryOf(entries, b))
  BY HistoryIsEntry DEF HistoriesHoldOneRead
<1>2. OneRead(Fresh) BY DEF Fresh, OneRead
<1>3. CASE entries' = entries BY <1>1, <1>3
<1>4. ASSUME NEW lo \in 0 .. Size, NEW hi \in 0 .. Size, NEW isWrite \in BOOLEAN,
             NEW r \in Record, Access(lo, hi, isWrite, r)
      PROVE  OneRead(HistoryOf(entries', b))
  BY <1>1, <1>4, AccessWellFormed, TouchedKeepsOneRead
<1>5. ASSUME NEW lo \in 0 .. Size, NEW hi \in 0 .. Size, Invalidate(lo, hi)
      PROVE  OneRead(HistoryOf(entries', b))
  BY <1>1, <1>2, <1>5, InvalidateWellFormed
<1>6. \A lo \in 0 .. Size : \A hi \in lo .. Size : hi \in 0 .. Size
  BY SizeAssumption
<1>7. entries' = entries \/ \E lo, hi \in 0 .. Size :
        \/ \E isWrite \in BOOLEAN, r \in Record : Access(lo, hi, isWrite, r)
        \/ Invalidate(lo, hi)
  BY <1>6 DEF Next, vars, AccessNothing, InvalidateNothing
<1> QED BY <1>3, <1>4, <1>5, <1>7

(* No history ever holds two reads of one core (Memory.cpp:131): it is     *)
(* bounded by the number of cores however long the kernel runs.            *)
THEOREM OneReadEach == Spec => []OneReadPerCore
<1>1. WellFormed(entries) /\ HistoriesHoldOneRead => OneReadPerCore
  <2> SUFFICES ASSUME WellFormed(entries), HistoriesHoldOneRead,
                      NEW s \in DOMAIN entries
               PROVE  OneRead(entries[s].entry)
    BY DEF OneReadPerCore, OneRead
  <2>1. s \in Byte /\ s \in Holder(entries, s)
    BY DEF WellFormed, Apart, Holder, Byte
  <2>2. HistoryOf(entries, s) = entries[s].entry
    BY <2>1, OneHolder
  <2> QED BY <2>1, <2>2 DEF HistoriesHoldOneRead
<1> QED BY <1>1, InitWellFormed, NextWellFormed, InitOneRead, NextOneRead, PTL DEF Spec

-----------------------------------------------------------------------------
(* The instance of ByteShadow reads its records as this module does.       *)
LEMMA SameOperators ==
  /\ Bytes!Byte = Byte /\ Bytes!Fresh = Fresh
  /\ \A e, w, r : /\ Bytes!Conflict(e, w, r) = Conflict(e, w, r)
                  /\ Bytes!Touched(e, w, r) = Touched(e, w, r)
                  /\ Bytes!Culprit(e, r) = Culprit(e, r)
<1>1. Bytes!Byte = Byte BY DEF Bytes!Byte, Byte
<1>2. Bytes!Fresh = Fresh BY DEF Bytes!Fresh, Fresh
<1>3. \A p, q : Bytes!Concurrent(p, q) = Concurrent(p, q)
  BY Zenon DEF Bytes!Concurrent, Bytes!HappensBefore, Bytes!Ticks,
               Concurrent, HappensBefore, Ticks
<1>4. \A p, r : Bytes!Races(p, r) = Races(p, r)
  BY <1>3 DEF Bytes!Races, Races
<1>5. \A e, r : Bytes!WriteRaces(e, r) = WriteRaces(e, r)
  BY <1>4 DEF Bytes!WriteRaces, WriteRaces
<1>6. \A e, r : Bytes!RacingReads(e, r) = RacingReads(e, r)
  BY <1>4 DEF Bytes!RacingReads, RacingReads
<1>7. \A S : Bytes!Least(S) = Least(S)
  BY DEF Bytes!Least, Least
<1>8. \A e, w, r : Bytes!Conflict(e, w, r) = Conflict(e, w, r)
  BY <1>5, <1>6 DEF Bytes!Conflict, Conflict
<1>9. \A e, r : Bytes!Culprit(e, r) = Culprit(e, r)
  BY <1>5, <1>6, <1>7 DEF Bytes!Culprit, Culprit
<1>10. \A e, w, r : Bytes!Touched(e, w, r) = Touched(e, w, r)
  BY DEF Bytes!Touched, Touched
<1> QED BY <1>1, <1>2, <1>8, <1>9, <1>10

(* An access of the interval map is the access of the byte map.            *)
LEMMA AccessIsByteAccess ==
  ASSUME NEW lo \in 0 .. Size, NEW hi \in 0 .. Size, NEW isWrite \in BOOLEAN,
         NEW r \in Record, WellFormed(entries), Access(lo, hi, isWrite, r)
  PROVE  Bytes!Access(lo, hi, isWrite, r)
<1> DEFINE es     == Cover(entries, lo, hi)
           old    == [b \in Byte |-> HistoryOf(entries, b)]
           new    == [b \in Byte |-> HistoryOf(entries', b)]
           hit    == {s \in Within(es, lo, hi) : Conflict(es[s].entry, isWrite, r)}
           bytes  == {b \in Byte : lo <= b /\ b < hi /\ Conflict(old[b], isWrite, r)}
           Report(b, top, e) == [lo |-> b, hi |-> top, prior |-> Culprit(e, r),
                                 second |-> r, secondIsWrite |-> isWrite]
<1>1. lo < hi BY DEF Access
<1>2. /\ Covers(es, lo, hi)
      /\ \A b \in Byte : old[b] = HistoryOf(es, b)
  BY <1>1, CoverCovers
<1>3. new = [b \in Byte |-> IF lo <= b /\ b < hi THEN Touched(old[b], isWrite, r)
                                                 ELSE old[b]]
  BY AccessWellFormed
<1>4. /\ call' = [lo |-> lo, hi |-> hi, isWrite |-> isWrite, record |-> r]
      /\ \/ hit = {} /\ race' = None
         \/ \E s \in hit : /\ \A t \in hit : s <= t
                           /\ race' = Report(s, es[s].end, es[s].entry)
  BY DEF Access
<1> HIDE DEF es, old, new, Report
<1>5. ASSUME NEW s \in hit
      PROVE  /\ s \in bytes /\ es[s].end \in 1 .. hi /\ s < es[s].end
             /\ \A c \in s .. es[s].end - 1 : old[c] = es[s].entry
  <2>1. /\ s \in DOMAIN es /\ s \in Byte /\ lo <= s /\ s < hi
        /\ es[s].end \in 1 .. Size /\ es[s].end <= hi /\ s < es[s].end
    BY <1>2 DEF Covers, WellFormed, Apart, Within, Interval
  <2>2. \A c \in s .. es[s].end - 1 : c \in Byte /\ s \in Holder(es, c)
    BY <2>1, SizeAssumption DEF Holder, Byte
  <2>3. \A c \in s .. es[s].end - 1 : old[c] = es[s].entry
    BY <1>2, <2>2, OneHolder DEF Covers
  <2>4. s \in s .. es[s].end - 1 BY <2>1, SizeAssumption DEF Byte
  <2> QED BY <2>1, <2>3, <2>4, SizeAssumption DEF Byte
<1>6. ASSUME NEW b \in bytes
      PROVE  \E s \in hit : s <= b /\ old[b] = es[s].entry
  <2>1. b \in Byte /\ lo <= b /\ b < hi OBVIOUS
  <2> PICK s \in Holder(es, b) : TRUE BY <1>2, <2>1 DEF Covers
  <2>2. s \in Within(es, lo, hi) BY <1>2, <2>1 DEF Covers
  <2>3. old[b] = es[s].entry BY <1>2, <2>1, OneHolder DEF Covers
  <2>4. s <= b BY DEF Holder
  <2> QED BY <2>2, <2>3, <2>4
<1>7. \/ bytes = {} /\ race' = None
      \/ \E b \in bytes, top \in 1 .. hi :
           /\ \A c \in bytes : b <= c
           /\ b < top
           /\ \A c \in b .. top - 1 : old[c] = old[b]
           /\ race' = Report(b, top, old[b])
  <2>1. CASE hit = {} /\ race' = None
    BY <1>6, <2>1
  <2>2. CASE \E s \in hit : /\ \A t \in hit : s <= t
                            /\ race' = Report(s, es[s].end, es[s].entry)
    <3> PICK s \in hit : /\ \A t \in hit : s <= t
                         /\ race' = Report(s, es[s].end, es[s].entry)
      BY <2>2
    <3>1. /\ s \in bytes /\ es[s].end \in 1 .. hi /\ s < es[s].end
          /\ \A c \in s .. es[s].end - 1 : old[c] = es[s].entry
      BY <1>5
    <3>2. \A t \in hit : t \in Byte BY <1>5
    <3>3. \A c \in bytes : s <= c
      <4> TAKE c \in bytes
      <4> PICK t \in hit : t <= c BY <1>6
      <4>1. s <= t /\ s \in Byte /\ t \in Byte /\ c \in Byte BY <3>2
      <4> HIDE DEF hit, bytes
      <4> QED BY <4>1, SizeAssumption DEF Byte
    <3>4. old[s] = es[s].entry
      <4>1. s \in s .. es[s].end - 1 BY <3>1, <3>2, SizeAssumption DEF Byte
      <4> QED BY <3>1, <4>1
    <3> HIDE DEF hit, bytes
    <3> QED BY <3>1, <3>3, <3>4
  <2> QED BY <1>4, <2>1, <2>2
<1> DEFINE hits == {b \in Bytes!Byte : /\ lo <= b /\ b < hi
                                      /\ Bytes!Conflict(old[b], isWrite, r)}
<1>8. new = [b \in Bytes!Byte |-> IF lo <= b /\ b < hi
                                  THEN Bytes!Touched(old[b], isWrite, r)
                                  ELSE old[b]]
  BY <1>3, SameOperators, Zenon
<1>9. hits = bytes
  BY SameOperators, Zenon
<1>10. \A b, top : Report(b, top, old[b])
                   = [lo |-> b, hi |-> top, prior |-> Bytes!Culprit(old[b], r),
                      second |-> r, secondIsWrite |-> isWrite]
  BY SameOperators DEF Report
<1> HIDE DEF bytes, hits
<1>11. \/ hits = {} /\ race' = None
       \/ \E b \in hits, top \in 1 .. hi :
            /\ \A c \in hits : b <= c
            /\ b < top
            /\ \A c \in b .. top - 1 : old[c] = old[b]
            /\ race' = [lo |-> b, hi |-> top, prior |-> Bytes!Culprit(old[b], r),
                        second |-> r, secondIsWrite |-> isWrite]
  BY <1>7, <1>9, <1>10, Zenon
<1> QED BY <1>4, <1>8, <1>11, Zenon DEF Bytes!Access, old, new, hits

(* The same for a call to invalidate.                                      *)
LEMMA InvalidateIsByteInvalidate ==
  ASSUME NEW lo \in 0 .. Size, NEW hi \in 0 .. Size, WellFormed(entries),
         Invalidate(lo, hi)
  PROVE  Bytes!Invalidate(lo, hi)
<1>1. \A b \in Byte : HistoryOf(entries', b) = IF lo <= b /\ b < hi THEN Fresh
                                               ELSE HistoryOf(entries, b)
  BY InvalidateWellFormed
<1>2. call' = [lo |-> lo, hi |-> hi] /\ race' = race BY DEF Invalidate
<1> QED BY <1>1, <1>2, SameOperators DEF Bytes!Invalidate

(* Calls on empty ranges touch no byte.                                    *)
LEMMA NothingIsByteNothing ==
  ASSUME NEW lo \in 0 .. Size, NEW hi \in 0 .. Size
  PROVE  /\ \A isWrite \in BOOLEAN, r \in Record :
              AccessNothing(lo, hi, isWrite, r) => Bytes!Access(lo, hi, isWrite, r)
         /\ InvalidateNothing(lo, hi) => Bytes!Invalidate(lo, hi)
<1>1. \A b \in Byte : hi <= lo => ~ (lo <= b /\ b < hi)
  BY SizeAssumption DEF Byte
<1>2. ASSUME NEW isWrite \in BOOLEAN, NEW r \in Record,
             AccessNothing(lo, hi, isWrite, r)
      PROVE  Bytes!Access(lo, hi, isWrite, r)
  <2> DEFINE old == [b \in Byte |-> HistoryOf(entries, b)]
             new == [b \in Byte |-> HistoryOf(entries', b)]
  <2>1. /\ hi <= lo /\ race' = None /\ new = old
        /\ call' = [lo |-> lo, hi |-> hi, isWrite |-> isWrite, record |-> r]
    BY <1>2 DEF AccessNothing
  <2>2. old = [b \in Byte |-> old[b]] OBVIOUS
  <2> HIDE DEF old, new
  <2>3. new = [b \in Byte |-> IF lo <= b /\ b < hi THEN Touched(old[b], isWrite, r)
                                                   ELSE old[b]]
    <3>1. \A b \in Byte : old[b] = IF lo <= b /\ b < hi THEN Touched(old[b], isWrite, r)
                                                        ELSE old[b]
      BY <1>1, <2>1
    <3> QED BY <2>1, <2>2, <3>1
  <2>4. {b \in Byte : lo <= b /\ b < hi /\ Conflict(old[b], isWrite, r)} = {}
    BY <1>1, <2>1
  <2> QED BY <2>1, <2>3, <2>4, SameOperators DEF Bytes!Access, old, new
<1>3. ASSUME InvalidateNothing(lo, hi)
      PROVE  Bytes!Invalidate(lo, hi)
  BY <1>1, <1>3, SameOperators DEF InvalidateNothing, Bytes!Invalidate
<1> QED BY <1>2, <1>3

(* The interval map implements the byte map: "a 8 MB tensor costs one      *)
(* entry, not eight million" (Memory.h:104) and no verdict changes by it.  *)
THEOREM ShadowIsAByteMap == Spec => ImplementsBytes
<1>1. Init => Bytes!Init
  <2> SUFFICES ASSUME Init PROVE Bytes!Init
    OBVIOUS
  <2>1. DOMAIN entries = {} /\ call = None /\ race = None BY DEF Init
  <2>2. \A b \in Byte : HistoryOf(entries, b) = Fresh
    BY <2>1 DEF HistoryOf, Holder
  <2> QED BY <2>1, <2>2, SameOperators DEF Bytes!Init
<1>2. WellFormed(entries) /\ [Next]_vars => [Bytes!Next]_Bytes!vars
  <2> SUFFICES ASSUME WellFormed(entries), [Next]_vars
               PROVE  [Bytes!Next]_Bytes!vars
    OBVIOUS
  <2>1. CASE UNCHANGED vars
    BY <2>1 DEF vars, Bytes!vars
  <2>2. CASE Next
    <3> PICK lo \in 0 .. Size : \E hi \in lo .. Size :
          \/ \E isWrite \in BOOLEAN, r \in Record :
               Access(lo, hi, isWrite, r) \/ AccessNothing(lo, hi, isWrite, r)
          \/ Invalidate(lo, hi)
          \/ InvalidateNothing(lo, hi)
      BY <2>2 DEF Next
    <3> PICK hi \in lo .. Size :
          \/ \E isWrite \in BOOLEAN, r \in Record :
               Access(lo, hi, isWrite, r) \/ AccessNothing(lo, hi, isWrite, r)
          \/ Invalidate(lo, hi)
          \/ InvalidateNothing(lo, hi)
      OBVIOUS
    <3>1. hi \in 0 .. Size BY SizeAssumption
    <3>2. \/ \E isWrite \in BOOLEAN, r \in Record : Bytes!Access(lo, hi, isWrite, r)
          \/ Bytes!Invalidate(lo, hi)
      BY <3>1, AccessIsByteAccess, InvalidateIsByteInvalidate, NothingIsByteNothing
    <3> QED BY <3>2 DEF Bytes!Next
  <2> QED BY <2>1, <2>2
<1>3. Spec => []WellFormed(entries)
  BY InitWellFormed, NextWellFormed, PTL DEF Spec
<1> QED BY <1>1, <1>2, <1>3, PTL DEF Spec, ImplementsBytes, Bytes!Spec
=============================================================================
