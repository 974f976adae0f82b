--------------------------- MODULE PipeEngineProofs ---------------------------
(***************************************************************************)
(* Theorems of PipeEngine, for every number of pipes, every set of flags   *)
(* and operations, every bound and both scheduling modes.                  *)
(*                                                                         *)
(* The argument is bookkeeping over the logs.  A log only grows and a      *)
(* cursor only moves forward, so the tokens of a flag up to the cursor are *)
(* the raises it has had; each raise is still in the semaphore or has been *)
(* taken by one wait (FlagConservation).  A wait that drains stops at a    *)
(* token of its own flag, which is the raise it takes.  Parking needs the  *)
(* semaphore empty and no token queued: all sets are spent.                *)
(***************************************************************************)
EXTENDS PipeEngine, FiniteSetTheorems, SequenceTheorems, WellFoundedInduction, TLAPS

(* A non-empty set of naturals has a least element.                        *)
LEMMA LeastNatural ==
  ASSUME NEW S \in SUBSET Nat, S # {}
  PROVE  \E n \in S : \A m \in S : n <= m
<1> DEFINE T == {1 .. n : n \in S}
<1>1. T \subseteq FiniteSubsetsOf(Nat)
  <2> SUFFICES ASSUME NEW n \in S PROVE 1 .. n \in FiniteSubsetsOf(Nat)
    OBVIOUS
  <2>1. IsFiniteSet(1 .. n)
    BY FS_Interval
  <2> QED BY <2>1 DEF FiniteSubsetsOf
<1>2. PICK t \in T : \A u \in T : <<u, t>> \notin StrictSubsetOrdering(Nat)
  <2>1. T # {}
    OBVIOUS
  <2> HIDE DEF T
  <2> QED BY <1>1, <2>1, FS_StrictSubsetOrderingWellFounded, WFMin
<1>3. PICK n \in S : t = 1 .. n
  OBVIOUS
<1>4. ASSUME NEW m \in S, m < n PROVE FALSE
  <2>1. 1 .. m \subseteq 1 .. n /\ 1 .. m # 1 .. n
    <3>1. n \in 1 .. n /\ n \notin 1 .. m
      BY <1>4
    <3> QED BY <3>1, <1>4
  <2>2. 1 .. m \in SUBSET Nat /\ 1 .. n \in SUBSET Nat
    OBVIOUS
  <2>3. <<1 .. m, 1 .. n>> \in StrictSubsetOrdering(Nat)
    BY <2>1, <2>2 DEF StrictSubsetOrdering
  <2>4. 1 .. m \in T
    OBVIOUS
  <2> QED BY <2>3, <2>4, <1>2, <1>3
<1> QED BY <1>4

(* A bounded non-empty set of naturals has a greatest element.             *)
LEMMA GreatestNatural ==
  ASSUME NEW S \in SUBSET Nat, S # {}, NEW b \in Nat, \A n \in S : n <= b
  PROVE  \E n \in S : \A m \in S : m <= n
<1> DEFINE T == {b - n : n \in S}
<1>1. T \in SUBSET Nat /\ T # {}
  <2>1. \A n \in S : b - n \in Nat
    OBVIOUS
  <2> QED BY <2>1
<1>2. PICK t \in T : \A u \in T : t <= u
  <2> HIDE DEF T
  <2> QED BY <1>1, LeastNatural
<1>3. PICK n \in S : t = b - n
  OBVIOUS
<1>4. ASSUME NEW m \in S PROVE m <= n
  <2>1. b - m \in T
    OBVIOUS
  <2>2. b - n <= b - m
    BY <2>1, <1>2, <1>3
  <2> QED BY <2>2
<1> QED BY <1>4

(* The lexicographic order in which a drain pops has extremes on any       *)
(* bounded non-empty set of log positions.                                 *)
LEMMA FirstPopped ==
  ASSUME NEW X \in SUBSET (Nat \X Nat), X # {}
  PROVE  \E x \in X : \A y \in X : ~PoppedBefore(y, x)
<1> DEFINE P == {x[1] : x \in X}
<1>1. PICK p \in P : \A q \in P : p <= q
  <2>1. P \in SUBSET Nat /\ P # {}
    OBVIOUS
  <2> HIDE DEF P
  <2> QED BY <2>1, LeastNatural
<1> DEFINE I == {x[2] : x \in {y \in X : y[1] = p}}
<1>2. PICK i \in I : \A j \in I : i <= j
  <2>1. I \in SUBSET Nat /\ I # {}
    OBVIOUS
  <2> HIDE DEF I
  <2> QED BY <2>1, LeastNatural
<1>3. PICK x \in X : x[1] = p /\ x[2] = i
  OBVIOUS
<1>4. ASSUME NEW y \in X PROVE ~PoppedBefore(y, x)
  <2>1. p <= y[1]
    BY <1>1
  <2>2. y[1] = p => i <= y[2]
    BY <1>2
  <2> QED BY <2>1, <2>2, <1>3 DEF PoppedBefore
<1> QED BY <1>4

(* It has a last element too if a cursor bounds every pipe.                *)
LEMMA LastPopped ==
  ASSUME NEW upto \in [Pipe -> Nat], NEW X \in SUBSET (Pipe \X Nat), X # {},
         \A x \in X : x[2] <= upto[x[1]]
  PROVE  \E x \in X : \A y \in X : ~PoppedBefore(x, y)
<1> DEFINE P == {x[1] : x \in X}
<1>1. PICK p \in P : \A q \in P : q <= p
  <2>1. P \in SUBSET Nat /\ P # {} /\ \A q \in P : q <= NumPipes
    BY PipeAssumption DEF Pipe
  <2>2. NumPipes \in Nat
    BY PipeAssumption
  <2> HIDE DEF P
  <2> QED BY <2>1, <2>2, GreatestNatural
<1>2. p \in Pipe
  OBVIOUS
<1> DEFINE I == {x[2] : x \in {y \in X : y[1] = p}}
<1>3. PICK i \in I : \A j \in I : j <= i
  <2>1. I \in SUBSET Nat /\ I # {} /\ \A j \in I : j <= upto[p]
    OBVIOUS
  <2>2. upto[p] \in Nat
    BY <1>2
  <2> HIDE DEF I
  <2> QED BY <2>1, <2>2, GreatestNatural
<1>4. PICK x \in X : x[1] = p /\ x[2] = i
  OBVIOUS
<1>5. ASSUME NEW y \in X PROVE ~PoppedBefore(x, y)
  <2>1. y[1] <= p /\ y[1] \in Pipe
    BY <1>1
  <2>2. y[1] = p => y[2] <= i
    BY <1>3
  <2> QED BY <2>1, <2>2, <1>4, PipeAssumption DEF PoppedBefore, Pipe
<1> QED BY <1>5
-----------------------------------------------------------------------------
(* What an entry of each kind carries.                                     *)
LEMMA EntryFields ==
  ASSUME NEW e \in Entry
  PROVE  /\ e.kind \in {"effect", "marker", "token"}
         /\ e.kind = "token" => e.key \in Key
         /\ e.kind # "token" => /\ e.op \in STRING /\ e.raw \in BOOLEAN
                                /\ e.reads \in SUBSET ByteRange
                                /\ e.writes \in SUBSET ByteRange
         /\ e.kind = "effect" => e.id \in Nat
<1>1. CASE e \in [kind : {"effect"}, op : STRING, reads : SUBSET ByteRange,
                   writes : SUBSET ByteRange, raw : BOOLEAN, id : Nat,
                   expect : [Byte -> Nat]]
  BY <1>1
<1>2. CASE e \in [kind : {"marker"}, op : STRING, reads : SUBSET ByteRange,
                   writes : SUBSET ByteRange, raw : BOOLEAN]
  BY <1>2
<1>3. CASE e \in [kind : {"token"}, key : Key]
  BY <1>3
<1> QED BY <1>1, <1>2, <1>3 DEF Entry

(* What a log holds are entries.                                           *)
LEMMA LogEntry ==
  ASSUME TypeOK, NEW p \in Pipe, NEW i \in 1 .. Len(issued[p])
  PROVE  issued[p][i] \in Entry
BY DEF TypeOK

(* A drain moves every cursor forward, never past the end of its log.      *)
DrainTo(upto) == /\ upto \in [Pipe -> Nat]
                 /\ \A p \in Pipe : retired[p] <= upto[p] /\ upto[p] <= Len(issued[p])

(* Emptying some of the queues is a drain.                                 *)
LEMMA UpToEndIsDrain ==
  ASSUME TypeOK, NEW P
  PROVE  DrainTo(UpToEnd(P))
<1>1. \A p \in Pipe : /\ Len(issued[p]) \in Nat /\ retired[p] \in Nat
                      /\ retired[p] <= Len(issued[p])
  BY DEF TypeOK
<1> QED BY <1>1 DEF DrainTo, UpToEnd

(* Popping up to the first queued token of a flag is a drain, and ends at  *)
(* a token of that flag.                                                   *)
LEMMA UpToTokenIsDrain ==
  ASSUME TypeOK, NEW k \in Key, HasToken(k)
  PROVE  /\ DrainTo(UpToToken(k))
         /\ UpToToken(k)[k.set] \in InFlight(k.set)
         /\ IsToken(k.set, UpToToken(k)[k.set], k)
<1> DEFINE T == {i \in InFlight(k.set) : IsToken(k.set, i, k)}
           first == CHOOSE i \in InFlight(k.set) :
                      /\ IsToken(k.set, i, k)
                      /\ \A j \in InFlight(k.set) : IsToken(k.set, j, k) => i <= j
<1>1. k.set \in Pipe
  BY KeyAssumption
<1>2. retired[k.set] \in Nat /\ Len(issued[k.set]) \in Nat
  BY <1>1 DEF TypeOK
<1>3. T \in SUBSET Nat /\ T # {}
  BY <1>2 DEF HasToken, InFlight
<1>4. \E i \in T : \A j \in T : i <= j
  <2> HIDE DEF T
  <2> QED BY <1>3, LeastNatural
<1>5. first \in InFlight(k.set) /\ IsToken(k.set, first, k)
  BY <1>4
<1>6. UpToToken(k) = [UpToEnd({}) EXCEPT ![k.set] = first]
  BY DEF UpToToken
<1>7. DrainTo(UpToEnd({}))
  BY UpToEndIsDrain
<1> HIDE DEF first
<1> QED BY <1>1, <1>2, <1>5, <1>6, <1>7 DEF DrainTo, InFlight

(* What lands in memory are numbers of operations.                         *)
LEMMA DrainedMemType ==
  ASSUME TypeOK, NEW upto, DrainTo(upto)
  PROVE  DrainedMem(upto) \in [Byte -> Nat]
<1> SUFFICES ASSUME NEW b \in Byte PROVE Landed(Popped(upto), b) \in Nat
  BY DEF DrainedMem
<1> DEFINE W == {x \in Popped(upto) : At(x).kind = "effect" /\ b \in Bytes(At(x).writes)}
<1>1. CASE W = {}
  BY <1>1 DEF Landed, TypeOK
<1>2. CASE W # {}
  <2>1. \A x \in Popped(upto) : /\ x[1] \in Pipe /\ x[2] \in 1 .. Len(issued[x[1]])
                                /\ x[2] <= upto[x[1]] /\ x = <<x[1], x[2]>>
    BY DEF Popped, DrainTo, TypeOK
  <2>2. W \in SUBSET (Pipe \X Nat) /\ \A x \in W : x[2] <= upto[x[1]]
    BY <2>1 DEF TypeOK
  <2>3. \E x \in W : \A y \in W : ~PoppedBefore(x, y)
    <3> HIDE DEF W
    <3> QED BY <1>2, <2>2, LastPopped DEF DrainTo
  <2> DEFINE last == CHOOSE x \in W : \A y \in W : ~PoppedBefore(x, y)
  <2>4. last \in W
    BY <2>3
  <2>5. Landed(Popped(upto), b) = At(last).id
    BY <1>2 DEF Landed
  <2> HIDE DEF last
  <2>6. At(last) \in Entry
    BY <2>1, <2>4, LogEntry DEF At
  <2> QED BY <2>4, <2>5, <2>6, EntryFields
<1> QED BY <1>1, <1>2
-----------------------------------------------------------------------------
(* The tokens of a flag in a stretch of its log are finite in number.      *)
LEMMA TokensFinite ==
  ASSUME NEW p, NEW k, NEW m \in Int, NEW n \in Int
  PROVE  /\ IsFiniteSet({i \in m .. n : IsToken(p, i, k)})
         /\ Cardinality({i \in m .. n : IsToken(p, i, k)}) \in Nat
<1> DEFINE T == {i \in m .. n : IsToken(p, i, k)}
<1>1. IsFiniteSet(m .. n)
  BY FS_Interval
<1>2. IsFiniteSet(T)
  BY <1>1, FS_Subset
<1> QED BY <1>2, FS_CardinalityType

(* A drain leaves every semaphore a natural number.                        *)
LEMMA DrainedFlagsType ==
  ASSUME TypeOK, NEW upto, DrainTo(upto)
  PROVE  DrainedFlags(upto) \in [Key -> Nat]
<1> SUFFICES ASSUME NEW k \in Key
             PROVE  flagSem[k] + Cardinality({i \in (retired[k.set] + 1) .. upto[k.set] :
                                               IsToken(k.set, i, k)}) \in Nat
  BY DEF DrainedFlags
<1>1. k.set \in Pipe
  BY KeyAssumption
<1>2. retired[k.set] + 1 \in Int /\ upto[k.set] \in Int
  BY <1>1 DEF TypeOK, DrainTo
<1>3. flagSem[k] \in Nat
  BY DEF TypeOK
<1>4. Cardinality({i \in (retired[k.set] + 1) .. upto[k.set] : IsToken(k.set, i, k)}) \in Nat
  BY <1>2, TokensFinite
<1> QED BY <1>3, <1>4

(* The segment of a log position is a natural number.                      *)
LEMMA SegmentType ==
  ASSUME NEW p, NEW i \in Int
  PROVE  SegmentOf(p, i) \in Nat
<1>1. IsFiniteSet(1 .. i)
  BY FS_Interval
<1>2. IsFiniteSet({j \in 1 .. i : issued[p][j].kind = "token"})
  BY <1>1, FS_Subset
<1> QED BY <1>2, FS_CardinalityType DEF SegmentOf

(* A hazard is reported as a pair of operation names.                      *)
LEMMA ReportedType ==
  ASSUME TypeOK, NEW ins, ins.op \in STRING, NEW base \in [Pipe -> Nat],
         NEW seen \in SUBSET (STRING \X STRING)
  PROVE  Reported(ins, base, seen) \in SUBSET (STRING \X STRING)
<1> DEFINE new == NewHazards(ins, base, seen)
           first == CHOOSE x \in new : \A y \in new : ~PoppedBefore(y, x)
<1>1. CASE CheckSync /\ new # {}
  <2>1. \A x \in new :
           /\ x \in Pipe \X Nat
           /\ x[1] \in Pipe /\ x[2] \in 1 .. Len(issued[x[1]])
           /\ At(x).kind # "token"
    BY DEF NewHazards, Conflict, TypeOK
  <2>2. new \in SUBSET (Nat \X Nat)
    BY <2>1, PipeAssumption DEF Pipe
  <2>3. Reported(ins, base, seen) = seen \cup {<<At(first).op, ins.op>>}
    BY <1>1 DEF Reported
  <2> HIDE DEF new
  <2>4. first \in new
    BY <1>1, <2>2, FirstPopped
  <2> HIDE DEF first
  <2>5. At(first) \in Entry
    BY <2>1, <2>4, LogEntry DEF At
  <2>6. At(first).op \in STRING
    BY <2>1, <2>4, <2>5, EntryFields
  <2> QED BY <2>3, <2>6
<1>2. CASE ~(CheckSync /\ new # {})
  BY <1>2 DEF Reported
<1> QED BY <1>1, <1>2

LEMMA CheckHazardsType ==
  ASSUME TypeOK, NEW ins \in Instr, CheckHazards(ins)
  PROVE  missing' \subseteq STRING \X STRING
<1>1. ins.op \in STRING
  BY InstrAssumption DEF Instruction
<1> QED BY <1>1, ReportedType DEF CheckHazards, TypeOK

-----------------------------------------------------------------------------
(* How a log may change while tokens are counted on it: entries are added  *)
(* at the end or widened where they stand, and a token stays what it is.   *)
LogExtends ==
  /\ issued' \in [Pipe -> Seq(Entry)]
  /\ \A p \in Pipe :
       /\ Len(issued[p]) <= Len(issued'[p])
       /\ \A i \in 1 .. Len(issued[p]) :
            /\ issued'[p][i].kind = issued[p][i].kind
            /\ issued[p][i].kind = "token" => issued'[p][i] = issued[p][i]

(* Pushing one entry extends its log and leaves every earlier entry.       *)
LEMMA AppendExtends ==
  ASSUME TypeOK, NEW q \in Pipe, NEW e \in Entry,
         issued' = [issued EXCEPT ![q] = Append(@, e)]
  PROVE  /\ LogExtends
         /\ Len(issued'[q]) = Len(issued[q]) + 1
         /\ issued'[q][Len(issued[q]) + 1] = e
<1>1. issued \in [Pipe -> Seq(Entry)] /\ issued[q] \in Seq(Entry)
  BY DEF TypeOK
<1>2. \A p \in Pipe : issued'[p] = IF p = q THEN Append(issued[q], e) ELSE issued[p]
  BY <1>1
<1>3. /\ Append(issued[q], e) \in Seq(Entry)
      /\ Len(Append(issued[q], e)) = Len(issued[q]) + 1
      /\ \A i \in 1 .. Len(issued[q]) : Append(issued[q], e)[i] = issued[q][i]
      /\ Append(issued[q], e)[Len(issued[q]) + 1] = e
  BY <1>1, AppendProperties
<1>4. \A p \in Pipe : Len(issued[p]) \in Nat
  BY <1>1
<1> QED BY <1>1, <1>2, <1>3, <1>4 DEF LogExtends

(* Pushing nothing extends every log trivially.                            *)
LEMMA UnchangedExtends ==
  ASSUME TypeOK, issued' = issued
  PROVE  LogExtends
<1>1. \A p \in Pipe : Len(issued[p]) \in Nat
  BY DEF TypeOK
<1> QED BY <1>1 DEF LogExtends, TypeOK

(* The one range of a coalescable access is a range.                       *)
LEMMA SoleRangeIsRange ==
  ASSUME NEW x, x.reads \in SUBSET ByteRange, x.writes \in SUBSET ByteRange, SoleRange(x)
  PROVE  TheRange(x) \in ByteRange
<1>1. x.reads \cup x.writes # {}
  <2> SUFFICES ASSUME x.reads = {}, x.writes = {} PROVE FALSE
    OBVIOUS
  <2>1. Cardinality(x.reads) = 0 /\ Cardinality(x.writes) = 0
    BY FS_EmptySet
  <2> QED BY <2>1 DEF SoleRange
<1> QED BY <1>1 DEF TheRange

(* The hull of two ranges is a range.                                      *)
LEMMA HullIsRange ==
  ASSUME NEW r \in ByteRange, NEW s \in ByteRange
  PROVE  Hull(r, s) \in ByteRange
BY PipeAssumption DEF Hull, ByteRange, Byte

(* A marker of an operation is an entry.                                   *)
LEMMA MarkerIsEntry ==
  ASSUME NEW ins \in Instr
  PROVE  Marker(ins) \in Entry
BY InstrAssumption DEF Marker, Entry, Instruction

(* A widened marker is still a marker.                                     *)
LEMMA WidenedIsEntry ==
  ASSUME NEW e \in Entry, NEW ins \in Instr, e.kind = "marker",
         SoleRange(e), SoleRange(ins)
  PROVE  Widened(e, ins) \in Entry /\ Widened(e, ins).kind = "marker"
<1> DEFINE hull == {Hull(TheRange(e), TheRange(ins))}
<1>1. ins.reads \in SUBSET ByteRange /\ ins.writes \in SUBSET ByteRange
  BY InstrAssumption DEF Instruction
<1>2. e.reads \in SUBSET ByteRange /\ e.writes \in SUBSET ByteRange
  BY EntryFields
<1>3. hull \in SUBSET ByteRange
  BY <1>1, <1>2, SoleRangeIsRange, HullIsRange
<1>4. e \in [kind : {"marker"}, op : STRING, reads : SUBSET ByteRange,
             writes : SUBSET ByteRange, raw : BOOLEAN]
  BY DEF Entry
<1>5. Widened(e, ins) = [kind |-> "marker", op |-> e.op, raw |-> e.raw,
                          reads |-> IF e.writes = {} THEN hull ELSE e.reads,
                          writes |-> IF e.writes # {} THEN hull ELSE e.writes]
  BY DEF Widened
<1> HIDE DEF hull
<1>6. Widened(e, ins) \in [kind : {"marker"}, op : STRING, reads : SUBSET ByteRange,
                           writes : SUBSET ByteRange, raw : BOOLEAN]
  BY <1>3, <1>4, <1>5
<1> QED BY <1>6 DEF Entry

(* Leaving a marker behind, or widening one, changes no token.             *)
LEMMA LeaveMarkerExtends ==
  ASSUME TypeOK, NEW ins \in Instr, NEW base \in Nat, LeaveMarker(ins, base)
  PROVE  LogExtends /\ capWarned' \in BOOLEAN
<1> DEFINE p == ins.pipe
           found == {i \in Candidates(ins) : i > base}
           last == CHOOSE i \in found : \A j \in found : j <= i
<1>1. p \in Pipe /\ issued[p] \in Seq(Entry) /\ capWarned \in BOOLEAN
  BY InstrAssumption DEF Instruction, TypeOK
<1>2. CASE ~CheckSync
  BY <1>1, <1>2, UnchangedExtends DEF LeaveMarker
<1>3. CASE CheckSync /\ found # {}
  <2>1. \A i \in found :
          /\ i \in 1 .. Len(issued[p])
          /\ issued[p][i].kind = "marker"
          /\ SoleRange(issued[p][i]) /\ SoleRange(ins)
    BY <1>1 DEF Candidates, InFlight, TypeOK
  <2>2. last \in found
    <3>1. found \in SUBSET Nat /\ \A i \in found : i <= Len(issued[p])
      BY <2>1
    <3>2. Len(issued[p]) \in Nat
      BY <1>1
    <3>3. \E i \in found : \A j \in found : j <= i
      <4> HIDE DEF found
      <4> QED BY <1>3, <3>1, <3>2, GreatestNatural
    <3> QED BY <3>3
  <2>3. /\ issued' = [issued EXCEPT ![p][last] = Widened(@, ins)]
        /\ capWarned' = capWarned
    BY <1>3 DEF LeaveMarker
  <2> HIDE DEF found, last
  <2>4. issued[p][last] \in Entry
    BY <1>1, <2>1, <2>2
  <2> DEFINE w == Widened(issued[p][last], ins)
  <2>5. w \in Entry /\ w.kind = "marker"
    BY <2>1, <2>2, <2>4, WidenedIsEntry
  <2> HIDE DEF w
  <2>6. issued' = [issued EXCEPT ![p] = [issued[p] EXCEPT ![last] = w]]
    BY <2>3 DEF w
  <2>7. /\ [issued[p] EXCEPT ![last] = w] \in Seq(Entry)
        /\ Len([issued[p] EXCEPT ![last] = w]) = Len(issued[p])
        /\ \A j \in 1 .. Len(issued[p]) : [issued[p] EXCEPT ![last] = w][j] =
                                             IF j = last THEN w ELSE issued[p][j]
    BY <1>1, <2>1, <2>2, <2>5, ExceptSeq
  <2>8. issued \in [Pipe -> Seq(Entry)] /\ \A q \in Pipe : Len(issued[q]) \in Nat
    BY DEF TypeOK
  <2>9. \A q \in Pipe : issued'[q] = IF q = p THEN [issued[p] EXCEPT ![last] = w]
                                              ELSE issued[q]
    BY <2>6, <2>8
  <2>10. issued' \in [Pipe -> Seq(Entry)]
    BY <1>1, <2>6, <2>7, <2>8
  <2> QED BY <1>1, <2>1, <2>2, <2>3, <2>5, <2>7, <2>8, <2>9, <2>10 DEF LogExtends
<1>4. CASE CheckSync /\ found = {} /\ Len(issued[p]) - base >= MaxMarkers
  <2>1. issued' = issued /\ capWarned' = TRUE
    BY <1>4 DEF LeaveMarker
  <2> QED BY <2>1, UnchangedExtends
<1>5. CASE CheckSync /\ found = {} /\ ~(Len(issued[p]) - base >= MaxMarkers)
  <2>1. /\ issued' = [issued EXCEPT ![p] = Append(@, Marker(ins))]
        /\ capWarned' = capWarned
    BY <1>5 DEF LeaveMarker
  <2>2. LogExtends
    BY <1>1, <2>1, MarkerIsEntry, AppendExtends
  <2> QED BY <1>1, <2>1, <2>2
<1> QED BY <1>2, <1>3, <1>4, <1>5

(* What a scalar access owes is of the type of owed.                       *)
LEMMA OwingsType ==
  ASSUME NEW ins \in Instr, NEW seg \in Nat
  PROVE  Owings(ins.pipe, seg, ins) \subseteq
           [pipe : Pipe, seg : Nat, op : STRING, raw : BOOLEAN, write : BOOLEAN, byte : Byte]
<1>1. ins \in Instruction
  BY InstrAssumption
<1>2. \A R \in SUBSET ByteRange : Bytes(R) \subseteq Byte
  BY PipeAssumption DEF Bytes, ByteRange, Byte
<1>3. Bytes(ins.reads) \subseteq Byte /\ Bytes(ins.writes) \subseteq Byte
  BY <1>1, <1>2 DEF Instruction
<1> DEFINE D == [pipe : Pipe, seg : Nat, op : STRING, raw : BOOLEAN,
                  write : BOOLEAN, byte : Byte]
<1>4. \A b \in Byte, w \in BOOLEAN : Owing(ins.pipe, seg, ins, w, b) \in D
  BY <1>1 DEF Owing, Instruction
<1> HIDE DEF D
<1>5. Owings(ins.pipe, seg, ins) \subseteq D
  BY <1>3, <1>4 DEF Owings
<1> QED BY <1>5 DEF D

-----------------------------------------------------------------------------
(* The cursors stay inside their logs when the logs only grow.             *)
LEMMA CursorsInLogs ==
  ASSUME TypeOK, LogExtends, NEW upto, DrainTo(upto), retired' = upto
  PROVE  /\ issued' \in [Pipe -> Seq(Entry)]
         /\ retired' \in [Pipe -> Nat] /\ \A p \in Pipe : retired'[p] <= Len(issued'[p])
<1>1. \A p \in Pipe : Len(issued[p]) \in Nat
  BY DEF TypeOK
<1>2. \A p \in Pipe : Len(issued'[p]) \in Nat
  BY DEF LogExtends
<1> QED BY <1>1, <1>2 DEF LogExtends, DrainTo

(* Popping nothing is a drain.                                             *)
LEMMA StayIsDrain ==
  ASSUME TypeOK
  PROVE  DrainTo(retired)
BY DEF TypeOK, DrainTo

(* An operation writes its own number.                                     *)
LEMMA WrittenType ==
  ASSUME TypeOK, NEW m \in [Byte -> Nat], NEW ins \in Instr
  PROVE  Written(m, ins) \in [Byte -> Nat]
BY DEF Written, TypeOK

(* What a drain changes stays in type.                                     *)
LEMMA DrainType ==
  ASSUME TypeOK, NEW upto, DrainTo(upto), Drain(upto)
  PROVE  /\ retired' = upto
         /\ mem' \in [Byte -> Nat]
         /\ stale' \in BOOLEAN
         /\ owed' \subseteq owed
BY DrainedMemType DEF Drain, StillOwed, ReadsStale, TypeOK

(* TypeOK is inductive.                                                    *)
LEMMA NextType ==
  ASSUME TypeOK, [Next]_vars
  PROVE  TypeOK'
<1> DEFINE Log == /\ issued' \in [Pipe -> Seq(Entry)]
                  /\ retired' \in [Pipe -> Nat]
                  /\ \A p \in Pipe : retired'[p] <= Len(issued'[p])
<1>1. ASSUME NEW ins \in Instr, IssueInOrder(ins) PROVE TypeOK'
  <2>1. Log
    BY <1>1 DEF IssueInOrder, TypeOK
  <2>2. mem' \in [Byte -> Nat] /\ prog' \in [Byte -> Nat]
    BY <1>1, WrittenType DEF IssueInOrder, Complete, TypeOK
  <2>3. stale' \in BOOLEAN
    BY <1>1 DEF IssueInOrder, Complete, TypeOK
  <2> QED BY <1>1, <2>1, <2>2, <2>3 DEF IssueInOrder, Issue, TypeOK
<1>2. ASSUME NEW ins \in Instr, IssueDeferred(ins) PROVE TypeOK'
  <2> DEFINE e == [kind |-> "effect", op |-> ins.op, reads |-> ins.reads,
                   writes |-> ins.writes, raw |-> ins.raw, id |-> count + 1,
                   expect |-> [b \in Byte |-> IF b \in Bytes(ins.reads) THEN prog[b] ELSE 0]]
  <2>1. e \in Entry
    <3>1. ins \in Instruction /\ prog \in [Byte -> Nat] /\ count + 1 \in Nat
      BY InstrAssumption DEF TypeOK
    <3>2. e.expect \in [Byte -> Nat]
      BY <3>1
    <3> QED BY <3>1, <3>2 DEF Entry, Instruction
  <2>2. issued' = [issued EXCEPT ![ins.pipe] = Append(@, e)] /\ retired' = retired
    BY <1>2 DEF IssueDeferred
  <2> HIDE DEF e
  <2>3. ins.pipe \in Pipe
    BY InstrAssumption DEF Instruction
  <2>4. LogExtends
    BY <2>1, <2>2, <2>3, AppendExtends
  <2>5. Log
    BY <2>2, <2>4, CursorsInLogs, StayIsDrain
  <2>6. missing' \subseteq STRING \X STRING
    BY <1>2, CheckHazardsType DEF IssueDeferred
  <2>7. prog' \in [Byte -> Nat]
    BY <1>2, WrittenType DEF IssueDeferred, TypeOK
  <2>8. /\ count' = count + 1
        /\ UNCHANGED <<inOrder, status, blockedOn, retired, flagSem, waits, mem,
                       stale, owed, capWarned>>
    BY <1>2 DEF IssueDeferred, Issue
  <2> QED BY <2>5, <2>6, <2>7, <2>8 DEF TypeOK
<1>3. ASSUME NEW ins \in Instr, IssueNow(ins) PROVE TypeOK'
  <2> DEFINE P == IF ins.how = "direct" THEN {ins.pipe} ELSE {}
             upto == UpToEnd(P)
             seg == SegmentOf(ins.pipe, Len(issued[ins.pipe]))
  <2>1. /\ retired' = upto
        /\ flagSem' = DrainedFlags(upto)
        /\ CheckHazards(ins)
        /\ Complete(DrainedMem(upto), ins, stale \/ ReadsStale(upto))
        /\ LeaveMarker(ins, upto[ins.pipe])
        /\ owed' = StillOwed(upto) \cup
                     (IF CheckSync THEN Owings(ins.pipe, seg, ins) ELSE {})
    BY <1>3 DEF IssueNow
  <2>2. DrainTo(upto)
    BY UpToEndIsDrain
  <2> HIDE DEF upto, P
  <2>3. ins.pipe \in Pipe /\ upto[ins.pipe] \in Nat
    BY <2>2, InstrAssumption DEF Instruction, DrainTo
  <2>4. LogExtends /\ capWarned' \in BOOLEAN
    BY <2>1, <2>3, LeaveMarkerExtends
  <2>5. Log
    BY <2>1, <2>2, <2>4, CursorsInLogs
  <2>6. flagSem' \in [Key -> Nat]
    BY <2>1, <2>2, DrainedFlagsType
  <2>7. missing' \subseteq STRING \X STRING
    BY <2>1, CheckHazardsType
  <2>8. mem' \in [Byte -> Nat]
    BY <2>1, <2>2, DrainedMemType, WrittenType DEF Complete
  <2>9. stale' \in BOOLEAN
    BY <2>1 DEF Complete
  <2>10. seg \in Nat
    <3>1. Len(issued[ins.pipe]) \in Int
      BY <2>3 DEF TypeOK
    <3> QED BY <3>1, SegmentType
  <2> HIDE DEF seg
  <2>11. owed' \subseteq [pipe : Pipe, seg : Nat, op : STRING, raw : BOOLEAN,
                          write : BOOLEAN, byte : Byte]
    BY <2>1, <2>10, OwingsType DEF StillOwed, TypeOK
  <2>12. prog' \in [Byte -> Nat]
    BY <1>3, WrittenType DEF IssueNow, TypeOK
  <2>13. count' = count + 1 /\ UNCHANGED <<inOrder, status, blockedOn, waits>>
    BY <1>3 DEF IssueNow, Issue
  <2> HIDE DEF P
  <2> QED BY <2>4, <2>5, <2>6, <2>7, <2>8, <2>9, <2>11, <2>12, <2>13 DEF TypeOK
<1>4. ASSUME NEW k \in Key, SetFlag(k) PROVE TypeOK'
  <2> DEFINE e == [kind |-> "token", key |-> k]
  <2>1. k.set \in Pipe /\ e \in Entry
    BY KeyAssumption DEF Entry
  <2>2. issued' = [issued EXCEPT ![k.set] = Append(@, e)]
    BY <1>4 DEF SetFlag
  <2> HIDE DEF e
  <2>3. LogExtends /\ Len(issued'[k.set]) = Len(issued[k.set]) + 1
    BY <2>1, <2>2, AppendExtends
  <2>4. flagSem' \in [Key -> Nat]
    BY <1>4 DEF SetFlag, TypeOK
  <2>5. /\ count' = count + 1
        /\ UNCHANGED <<inOrder, status, blockedOn, waits, missing, mem, prog, stale,
                       owed, capWarned>>
    BY <1>4 DEF SetFlag, Issue
  <2>6. CASE retired' = retired
    <3>1. Log
      BY <2>3, <2>6, CursorsInLogs, StayIsDrain
    <3> QED BY <2>4, <2>5, <3>1 DEF TypeOK
  <2>7. CASE retired' = [retired EXCEPT ![k.set] = @ + 1]
    <3>1. \A p \in Pipe : Len(issued[p]) \in Nat /\ Len(issued'[p]) \in Nat
      BY <2>3 DEF TypeOK, LogExtends
    <3>2. Log
      BY <2>1, <2>3, <2>7, <3>1 DEF TypeOK, LogExtends
    <3> QED BY <2>4, <2>5, <3>2 DEF TypeOK
  <2> QED BY <1>4, <2>6, <2>7 DEF SetFlag
<1>5. ASSUME NEW k \in Key, WaitRaised(k) PROVE TypeOK'
  BY <1>5 DEF WaitRaised, TypeOK
<1>6. ASSUME NEW k \in Key, WaitDrains(k) PROVE TypeOK'
  <2> DEFINE upto == UpToToken(k)
  <2>1. /\ DrainTo(upto)
        /\ upto[k.set] \in InFlight(k.set)
        /\ IsToken(k.set, upto[k.set], k)
    BY <1>6, UpToTokenIsDrain DEF WaitDrains
  <2>2. Drain(upto) /\ flagSem' = [DrainedFlags(upto) EXCEPT ![k] = @ - 1]
    BY <1>6 DEF WaitDrains
  <2> HIDE DEF upto
  <2>3. /\ retired' = upto /\ mem' \in [Byte -> Nat]
        /\ stale' \in BOOLEAN /\ owed' \subseteq owed
    BY <2>1, <2>2, DrainType
  <2>4. Log
    BY <1>6, <2>1, <2>3, CursorsInLogs, UnchangedExtends DEF WaitDrains
  <2>5. DrainedFlags(upto)[k] > 0
    <3> DEFINE T == {i \in (retired[k.set] + 1) .. upto[k.set] : IsToken(k.set, i, k)}
    <3>1. k.set \in Pipe
      BY KeyAssumption
    <3>2. retired[k.set] + 1 \in Int /\ upto[k.set] \in Int
      BY <2>1, <3>1 DEF TypeOK, DrainTo
    <3>3. IsFiniteSet(T) /\ Cardinality(T) \in Nat
      BY <3>2, TokensFinite
    <3>4. upto[k.set] \in T
      BY <2>1, <3>2 DEF InFlight
    <3>5. Cardinality(T) # 0
      BY <3>3, <3>4, FS_EmptySet
    <3>6. DrainedFlags(upto)[k] = flagSem[k] + Cardinality(T)
      BY DEF DrainedFlags
    <3> HIDE DEF T
    <3>7. flagSem[k] \in Nat
      BY DEF TypeOK
    <3> QED BY <3>3, <3>5, <3>6, <3>7
  <2>6. flagSem' \in [Key -> Nat]
    <3>1. DrainedFlags(upto) \in [Key -> Nat]
      BY <2>1, DrainedFlagsType
    <3> QED BY <2>2, <2>5, <3>1
  <2> QED BY <1>6, <2>3, <2>4, <2>6 DEF WaitDrains, TypeOK
<1>7. ASSUME NEW k \in Key, WaitBlocks(k) PROVE TypeOK'
  BY <1>7 DEF WaitBlocks, TypeOK
<1>8. ASSUME NEW P, PipeBarrier(P) PROVE TypeOK'
  <2>1. DrainTo(UpToEnd(P))
    BY UpToEndIsDrain
  <2>2. /\ retired' = UpToEnd(P) /\ mem' \in [Byte -> Nat]
        /\ stale' \in BOOLEAN /\ owed' \subseteq owed
    BY <1>8, <2>1, DrainType DEF PipeBarrier
  <2>3. Log
    BY <1>8, <2>1, <2>2, CursorsInLogs, UnchangedExtends DEF PipeBarrier
  <2>4. flagSem' \in [Key -> Nat]
    BY <1>8, <2>1, DrainedFlagsType DEF PipeBarrier
  <2> QED BY <1>8, <2>2, <2>3, <2>4 DEF PipeBarrier, TypeOK
<1>9. ASSUME Return PROVE TypeOK'
  <2>1. DrainTo(UpToEnd(Pipe))
    BY UpToEndIsDrain
  <2>2. /\ retired' = UpToEnd(Pipe) /\ mem' \in [Byte -> Nat]
        /\ stale' \in BOOLEAN /\ owed' \subseteq owed
    BY <1>9, <2>1, DrainType DEF Return
  <2>3. Log
    BY <1>9, <2>1, <2>2, CursorsInLogs, UnchangedExtends DEF Return
  <2>4. flagSem' \in [Key -> Nat]
    BY <1>9, <2>1, DrainedFlagsType DEF Return
  <2> QED BY <1>9, <2>2, <2>3, <2>4 DEF Return, TypeOK
<1>10. CASE UNCHANGED vars
  BY <1>10 DEF vars, TypeOK
<1> QED BY <1>1, <1>2, <1>3, <1>4, <1>5, <1>6, <1>7, <1>8, <1>9, <1>10 DEF Next

(* The initial state is well typed.                                        *)
LEMMA InitType ==
  ASSUME Init
  PROVE  TypeOK
<1>1. /\ issued \in [Pipe -> Seq(Entry)] /\ retired \in [Pipe -> Nat]
      /\ \A p \in Pipe : retired[p] <= Len(issued[p])
  BY DEF Init
<1>2. /\ flagSem \in [Key -> Nat] /\ waits \in [Key -> Nat]
      /\ mem \in [Byte -> Nat] /\ prog \in [Byte -> Nat]
  BY DEF Init
<1> QED BY <1>1, <1>2 DEF Init, TypeOK

(* TypeOK is inductive as it stands: the semaphores in particular never    *)
(* go below zero, although execWaitFlag decrements them after a drain      *)
(* without testing them again.                                             *)
THEOREM TypeCorrect == Spec => []TypeOK
<1>1. Init => TypeOK
  BY InitType
<1>2. TypeOK /\ [Next]_vars => TypeOK'
  BY NextType
<1> QED BY <1>1, <1>2, PTL DEF Spec

-----------------------------------------------------------------------------
(***************************************************************************)
(* Counting tokens.                                                        *)
(***************************************************************************)

(* Growing a log leaves the tokens of what was there.                      *)
LEMMA TokensKept ==
  ASSUME TypeOK, LogExtends, NEW k \in Key, NEW n \in Nat, n <= Len(issued[k.set])
  PROVE  TokensUpTo(k, n)' = TokensUpTo(k, n)
<1>1. k.set \in Pipe /\ Len(issued[k.set]) \in Nat
  BY KeyAssumption DEF TypeOK
<1>2. \A i \in 1 .. n : IsToken(k.set, i, k)' <=> IsToken(k.set, i, k)
  BY <1>1 DEF LogExtends, IsToken
<1> QED BY <1>2 DEF TokensUpTo

(* The tokens up to n are those up to m and those after it.                *)
LEMMA TokensSplit ==
  ASSUME NEW k \in Key, NEW m \in Nat, NEW n \in Nat, m <= n
  PROVE  /\ Cardinality(TokensUpTo(k, m)) \in Nat
         /\ Cardinality(TokensUpTo(k, n)) =
              Cardinality(TokensUpTo(k, m)) +
              Cardinality({i \in (m + 1) .. n : IsToken(k.set, i, k)})
<1> DEFINE A == {i \in 1 .. m : IsToken(k.set, i, k)}
           B == {i \in (m + 1) .. n : IsToken(k.set, i, k)}
<1>1. /\ IsFiniteSet(A) /\ Cardinality(A) \in Nat
      /\ IsFiniteSet(B) /\ Cardinality(B) \in Nat
  <2>1. 1 \in Int /\ m \in Int /\ n \in Int /\ m + 1 \in Int
    OBVIOUS
  <2> QED BY <2>1, TokensFinite
<1>2. A \cup B = {i \in 1 .. n : IsToken(k.set, i, k)} /\ A \cap B = {}
  OBVIOUS
<1> HIDE DEF A, B
<1>3. Cardinality(A \cup B) = Cardinality(A) + Cardinality(B)
  BY <1>1, <1>2, FS_Union, FS_EmptySet
<1> QED BY <1>1, <1>2, <1>3 DEF TokensUpTo, A, B

(* A longer stretch of a log has no fewer tokens of a flag.                *)
LEMMA TokensMonotone ==
  ASSUME NEW k \in Key, NEW m \in Nat, NEW n \in Nat, m <= n
  PROVE  Cardinality(TokensUpTo(k, m)) <= Cardinality(TokensUpTo(k, n))
<1>1. Cardinality({i \in (m + 1) .. n : IsToken(k.set, i, k)}) \in Nat
  <2>1. m + 1 \in Int /\ n \in Int
    OBVIOUS
  <2> QED BY <2>1, TokensFinite
<1> QED BY <1>1, TokensSplit

(* A drain raises a flag once for each of its tokens it pops.              *)
LEMMA DrainConserves ==
  ASSUME TypeOK, NEW upto, DrainTo(upto), NEW k \in Key
  PROVE  DrainedFlags(upto)[k] + Cardinality(TokensUpTo(k, retired[k.set])) =
           flagSem[k] + Cardinality(TokensUpTo(k, upto[k.set]))
<1> DEFINE B == {i \in (retired[k.set] + 1) .. upto[k.set] : IsToken(k.set, i, k)}
<1>1. k.set \in Pipe
  BY KeyAssumption
<1>2. retired[k.set] \in Nat /\ upto[k.set] \in Nat /\ retired[k.set] <= upto[k.set]
  BY <1>1 DEF TypeOK, DrainTo
<1>3. Cardinality(B) \in Nat
  <2>1. retired[k.set] + 1 \in Int /\ upto[k.set] \in Int
    BY <1>2
  <2> QED BY <2>1, TokensFinite
<1>4. /\ Cardinality(TokensUpTo(k, retired[k.set])) \in Nat
      /\ Cardinality(TokensUpTo(k, upto[k.set])) =
           Cardinality(TokensUpTo(k, retired[k.set])) + Cardinality(B)
  BY <1>2, TokensSplit
<1>5. DrainedFlags(upto)[k] = flagSem[k] + Cardinality(B)
  BY DEF DrainedFlags
<1>6. flagSem[k] \in Nat
  BY DEF TypeOK
<1> HIDE DEF B
<1> QED BY <1>3, <1>4, <1>5, <1>6

(* A step that drains to upto, lets the logs grow and takes w[k] raises of *)
(* flag k keeps the books of that flag.                                    *)
LEMMA BooksBalance ==
  ASSUME TypeOK, FlagConservation, LogExtends, NEW upto, DrainTo(upto), retired' = upto,
         NEW k \in Key, NEW w \in Int,
         flagSem'[k] = DrainedFlags(upto)[k] - w, waits'[k] = waits[k] + w
  PROVE  flagSem'[k] + waits'[k] = Cardinality(TokensUpTo(k, retired[k.set])')
<1>1. k.set \in Pipe
  BY KeyAssumption
<1>2. /\ retired[k.set] \in Nat /\ upto[k.set] \in Nat
      /\ retired[k.set] <= upto[k.set] /\ upto[k.set] <= Len(issued[k.set])
  BY <1>1 DEF TypeOK, DrainTo
<1>3. TokensUpTo(k, upto[k.set]) = TokensUpTo(k, retired[k.set])'
  <2> DEFINE n == upto[k.set]
  <2>1. TokensUpTo(k, n)' = TokensUpTo(k, n)
    BY <1>2, TokensKept
  <2>2. retired'[k.set] = n
    OBVIOUS
  <2> QED BY <2>1, <2>2 DEF TokensUpTo, IsToken
<1>4. DrainedFlags(upto)[k] + Cardinality(TokensUpTo(k, retired[k.set])) =
        flagSem[k] + Cardinality(TokensUpTo(k, upto[k.set]))
  BY DrainConserves
<1>5. flagSem[k] + waits[k] = Cardinality(TokensUpTo(k, retired[k.set]))
  BY DEF FlagConservation
<1>6. flagSem[k] \in Nat /\ waits[k] \in Nat /\ DrainedFlags(upto)[k] \in Nat
  BY DrainedFlagsType DEF TypeOK
<1>7. Cardinality(TokensUpTo(k, upto[k.set])) \in Nat
  <2>1. 1 \in Int /\ upto[k.set] \in Int
    BY <1>2
  <2> QED BY <2>1, TokensFinite DEF TokensUpTo
<1> QED BY <1>3, <1>4, <1>5, <1>6, <1>7

-----------------------------------------------------------------------------
(* In order, nothing is ever left queued: an operation completes where it  *)
(* stands and a set_flag raises its flag at once.                          *)
InOrderIsQuiet == inOrder => \A p \in Pipe : retired[p] = Len(issued[p])

(* Only a parked core is on a flag.                                        *)
ParkedIsBlocked == blockedOn # {} => status = "BlockedOnFlag"

IInv == /\ TypeOK
        /\ FlagConservation
        /\ InOrderIsQuiet
        /\ ParkedIsBlocked
        /\ ParksOnlyWhenUnset

(* A log that grows while nothing is popped, raised or taken.              *)
LEMMA GrowthBalances ==
  ASSUME TypeOK, FlagConservation, LogExtends, UNCHANGED <<retired, flagSem, waits>>
  PROVE  FlagConservation'
<1> SUFFICES ASSUME NEW k \in Key
             PROVE  flagSem'[k] + waits'[k] = Cardinality(TokensUpTo(k, retired[k.set])')
  BY DEF FlagConservation
<1> DEFINE n == retired[k.set]
<1>1. n \in Nat /\ n <= Len(issued[k.set])
  BY KeyAssumption DEF TypeOK
<1>2. TokensUpTo(k, n)' = TokensUpTo(k, n)
  BY <1>1, TokensKept
<1>3. TokensUpTo(k, retired[k.set])' = TokensUpTo(k, n)
  BY <1>2 DEF TokensUpTo, IsToken
<1> QED BY <1>3 DEF FlagConservation

(* A set_flag in order pops its token and raises its flag in one step.     *)
LEMMA SetInOrderBalances ==
  ASSUME TypeOK, FlagConservation, InOrderIsQuiet, inOrder, NEW s \in Key, SetFlag(s)
  PROVE  FlagConservation'
<1>1. s.set \in Pipe /\ [kind |-> "token", key |-> s] \in Entry
  BY KeyAssumption DEF Entry
<1>2. PICK n \in Nat : n = Len(issued[s.set])
  BY <1>1 DEF TypeOK
<1>3. /\ LogExtends
      /\ issued'[s.set][n + 1] = [kind |-> "token", key |-> s]
  <2>1. issued' = [issued EXCEPT ![s.set] = Append(@, [kind |-> "token", key |-> s])]
    BY DEF SetFlag
  <2> QED BY <1>1, <1>2, <2>1, AppendExtends
<1>4. /\ retired' = [retired EXCEPT ![s.set] = n + 1] /\ retired[s.set] = n
      /\ flagSem' = [flagSem EXCEPT ![s] = @ + 1]
      /\ waits' = waits
  BY <1>1, <1>2 DEF SetFlag, InOrderIsQuiet, TypeOK
<1> SUFFICES ASSUME NEW k \in Key
             PROVE  flagSem'[k] + waits'[k] = Cardinality(TokensUpTo(k, retired[k.set])')
  BY DEF FlagConservation
<1>5. PICK m \in Nat : m = retired[k.set]
  BY KeyAssumption DEF TypeOK
<1>6. m <= Len(issued[k.set]) /\ flagSem[k] \in Nat /\ waits[k] \in Nat
  BY <1>5, KeyAssumption DEF TypeOK
<1>7. TokensUpTo(k, m)' = TokensUpTo(k, m)
  BY <1>3, <1>6, TokensKept
<1>8. flagSem[k] + waits[k] = Cardinality(TokensUpTo(k, m))
  BY <1>5 DEF FlagConservation
<1>9. CASE k.set # s.set
  <2>1. retired'[k.set] = m /\ k # s
    BY <1>4, <1>5, <1>9, KeyAssumption DEF TypeOK
  <2>2. TokensUpTo(k, retired[k.set])' = TokensUpTo(k, m)'
    BY <2>1 DEF TokensUpTo, IsToken
  <2>3. flagSem'[k] = flagSem[k]
    BY <1>4, <2>1 DEF TypeOK
  <2> QED BY <1>4, <1>7, <1>8, <2>2, <2>3
<1>10. CASE k.set = s.set
  <2>1. m = n /\ retired'[k.set] = n + 1
    BY <1>1, <1>4, <1>5, <1>10 DEF TypeOK
  <2>2. IsToken(k.set, n + 1, k)' <=> k = s
    BY <1>3, <1>10 DEF IsToken
  <2>3. TokensUpTo(k, m) = {i \in 1 .. n : IsToken(k.set, i, k)'}
    BY <1>7, <2>1 DEF TokensUpTo
  <2>4. TokensUpTo(k, retired[k.set])' = {i \in 1 .. (n + 1) : IsToken(k.set, i, k)'}
    BY <2>1 DEF TokensUpTo
  <2>5. TokensUpTo(k, retired[k.set])' =
          IF k = s THEN TokensUpTo(k, m) \cup {n + 1} ELSE TokensUpTo(k, m)
    <3>1. \A i : i \in 1 .. (n + 1) <=> i \in 1 .. n \/ i = n + 1
      OBVIOUS
    <3> QED BY <2>2, <2>3, <2>4, <3>1, Zenon
  <2>6. IsFiniteSet(TokensUpTo(k, m)) /\ n + 1 \notin TokensUpTo(k, m)
    <3>1. 1 \in Int /\ m \in Int
      OBVIOUS
    <3>2. n + 1 \notin 1 .. m
      BY <2>1
    <3> QED BY <3>1, <3>2, TokensFinite DEF TokensUpTo
  <2>7. Cardinality(TokensUpTo(k, m) \cup {n + 1}) = Cardinality(TokensUpTo(k, m)) + 1
    BY <2>6, FS_AddElement
  <2>8. flagSem'[k] = IF k = s THEN flagSem[k] + 1 ELSE flagSem[k]
    BY <1>4 DEF TypeOK
  <2> QED BY <1>4, <1>6, <1>8, <2>5, <2>7, <2>8
<1> QED BY <1>9, <1>10

(* FlagConservation is inductive, given the types.                         *)
LEMMA NextConserves ==
  ASSUME TypeOK, FlagConservation, InOrderIsQuiet, [Next]_vars
  PROVE  FlagConservation'
<1>1. ASSUME UNCHANGED <<issued, retired, flagSem, waits>> PROVE FlagConservation'
  BY <1>1 DEF FlagConservation, TokensUpTo, IsToken
<1>2. ASSUME NEW upto, DrainTo(upto), LogExtends, retired' = upto,
             flagSem' = DrainedFlags(upto), waits' = waits
      PROVE  FlagConservation'
  <2> SUFFICES ASSUME NEW k \in Key
               PROVE  flagSem'[k] + waits'[k] = Cardinality(TokensUpTo(k, retired[k.set])')
    BY DEF FlagConservation
  <2>1. flagSem'[k] = DrainedFlags(upto)[k] - 0 /\ waits'[k] = waits[k] + 0
    BY <1>2, DrainedFlagsType DEF TypeOK
  <2>2. DrainTo(upto) /\ LogExtends /\ retired' = upto /\ 0 \in Int
    BY <1>2
  <2> QED BY <2>1, <2>2, BooksBalance, Zenon
<1>3. ASSUME NEW ins \in Instr, IssueInOrder(ins) PROVE FlagConservation'
  BY <1>1, <1>3 DEF IssueInOrder
<1>4. ASSUME NEW ins \in Instr, IssueDeferred(ins) PROVE FlagConservation'
  <2>1. LogExtends
    <3> DEFINE e == [kind |-> "effect", op |-> ins.op, reads |-> ins.reads,
                     writes |-> ins.writes, raw |-> ins.raw, id |-> count + 1,
                     expect |-> [b \in Byte |-> IF b \in Bytes(ins.reads) THEN prog[b] ELSE 0]]
    <3>1. ins \in Instruction /\ e.expect \in [Byte -> Nat] /\ count + 1 \in Nat
      BY InstrAssumption DEF TypeOK
    <3>2. ins.pipe \in Pipe /\ e \in Entry
      BY <3>1 DEF Entry, Instruction
    <3>3. issued' = [issued EXCEPT ![ins.pipe] = Append(@, e)]
      BY <1>4 DEF IssueDeferred
    <3> HIDE DEF e
    <3> QED BY <3>2, <3>3, AppendExtends
  <2> QED BY <1>4, <2>1, GrowthBalances DEF IssueDeferred
<1>5. ASSUME NEW ins \in Instr, IssueNow(ins) PROVE FlagConservation'
  <2> DEFINE P == IF ins.how = "direct" THEN {ins.pipe} ELSE {}
             upto == UpToEnd(P)
  <2>1. /\ retired' = upto /\ flagSem' = DrainedFlags(upto) /\ waits' = waits
        /\ LeaveMarker(ins, upto[ins.pipe])
    BY <1>5 DEF IssueNow
  <2>2. DrainTo(upto)
    BY UpToEndIsDrain
  <2> HIDE DEF upto, P
  <2>3. upto[ins.pipe] \in Nat
    BY <2>2, InstrAssumption DEF Instruction, DrainTo
  <2>4. LogExtends
    BY <2>1, <2>3, LeaveMarkerExtends
  <2> QED BY <1>2, <2>1, <2>2, <2>4
<1>6. ASSUME NEW k \in Key, SetFlag(k) PROVE FlagConservation'
  <2>1. CASE inOrder
    BY <1>6, <2>1, SetInOrderBalances
  <2>2. CASE ~inOrder
    <3> DEFINE e == [kind |-> "token", key |-> k]
    <3>1. k.set \in Pipe /\ e \in Entry
      BY KeyAssumption DEF Entry
    <3>2. issued' = [issued EXCEPT ![k.set] = Append(@, e)]
      BY <1>6 DEF SetFlag
    <3> HIDE DEF e
    <3>3. LogExtends
      BY <3>1, <3>2, AppendExtends
    <3> QED BY <1>6, <2>2, <3>3, GrowthBalances DEF SetFlag
  <2> QED BY <2>1, <2>2
<1>7. ASSUME NEW k \in Key, WaitRaised(k) PROVE FlagConservation'
  <2> SUFFICES ASSUME NEW j \in Key
               PROVE  flagSem'[j] + waits'[j] = Cardinality(TokensUpTo(j, retired[j.set])')
    BY DEF FlagConservation
  <2>1. TokensUpTo(j, retired[j.set])' = TokensUpTo(j, retired[j.set])
    BY <1>7 DEF WaitRaised, TokensUpTo, IsToken
  <2>2. flagSem'[j] + waits'[j] = flagSem[j] + waits[j]
    BY <1>7 DEF WaitRaised, TypeOK
  <2> QED BY <2>1, <2>2 DEF FlagConservation
<1>8. ASSUME NEW k \in Key, WaitDrains(k) PROVE FlagConservation'
  <2> DEFINE upto == UpToToken(k)
  <2>1. DrainTo(upto)
    BY <1>8, UpToTokenIsDrain DEF WaitDrains
  <2>2. /\ retired' = upto /\ flagSem' = [DrainedFlags(upto) EXCEPT ![k] = @ - 1]
        /\ waits' = [waits EXCEPT ![k] = @ + 1]
    BY <1>8 DEF WaitDrains, Drain
  <2>3. LogExtends
    BY <1>8, UnchangedExtends DEF WaitDrains
  <2> HIDE DEF upto
  <2>4. DrainedFlags(upto) \in [Key -> Nat] /\ waits \in [Key -> Nat]
    BY <2>1, DrainedFlagsType DEF TypeOK
  <2> SUFFICES ASSUME NEW j \in Key
               PROVE  flagSem'[j] + waits'[j] = Cardinality(TokensUpTo(j, retired[j.set])')
    BY DEF FlagConservation
  <2>5. CASE j = k
    <3>1. flagSem'[j] = DrainedFlags(upto)[j] - 1 /\ waits'[j] = waits[j] + 1
      BY <2>2, <2>4, <2>5
    <3> QED BY <2>1, <2>2, <2>3, <3>1, BooksBalance
  <2>6. CASE j # k
    <3>1. flagSem'[j] = DrainedFlags(upto)[j] - 0 /\ waits'[j] = waits[j] + 0
      BY <2>2, <2>4, <2>6
    <3> QED BY <2>1, <2>2, <2>3, <3>1, BooksBalance
  <2> QED BY <2>5, <2>6
<1>9. ASSUME NEW k \in Key, WaitBlocks(k) PROVE FlagConservation'
  BY <1>1, <1>9 DEF WaitBlocks
<1>10. ASSUME NEW P, PipeBarrier(P) PROVE FlagConservation'
  <2>1. DrainTo(UpToEnd(P)) /\ LogExtends
    BY <1>10, UpToEndIsDrain, UnchangedExtends DEF PipeBarrier
  <2> QED BY <1>2, <1>10, <2>1 DEF PipeBarrier, Drain
<1>11. ASSUME Return PROVE FlagConservation'
  <2>1. DrainTo(UpToEnd(Pipe)) /\ LogExtends
    BY <1>11, UpToEndIsDrain, UnchangedExtends DEF Return
  <2> QED BY <1>2, <1>11, <2>1 DEF Return, Drain
<1>12. CASE UNCHANGED vars
  BY <1>1, <1>12 DEF vars
<1> QED BY <1>3, <1>4, <1>5, <1>6, <1>7, <1>8, <1>9, <1>10, <1>11, <1>12 DEF Next

(* In order, every step leaves the queues empty.                           *)
LEMMA NextQuiet ==
  ASSUME TypeOK, InOrderIsQuiet, [Next]_vars
  PROVE  InOrderIsQuiet'
<1> SUFFICES ASSUME inOrder' PROVE \A p \in Pipe : retired'[p] = Len(issued'[p])
  BY DEF InOrderIsQuiet
<1>1. inOrder
  BY DEF Next, vars, IssueInOrder, IssueDeferred, IssueNow, SetFlag, Issue, WaitRaised,
         WaitDrains, WaitBlocks, PipeBarrier, Return
<1>2. \A p \in Pipe : retired[p] = Len(issued[p])
  BY <1>1 DEF InOrderIsQuiet
<1>3. ASSUME UNCHANGED <<issued, retired>> PROVE \A p \in Pipe : retired'[p] = Len(issued'[p])
  BY <1>2, <1>3
<1>4. ASSUME NEW P, retired' = UpToEnd(P), issued' = issued
      PROVE  \A p \in Pipe : retired'[p] = Len(issued'[p])
  BY <1>2, <1>4 DEF UpToEnd
<1>5. ASSUME NEW k \in Key, SetFlag(k) PROVE \A p \in Pipe : retired'[p] = Len(issued'[p])
  <2>1. k.set \in Pipe /\ [kind |-> "token", key |-> k] \in Entry
    BY KeyAssumption DEF Entry
  <2>2. issued' = [issued EXCEPT ![k.set] = Append(@, [kind |-> "token", key |-> k])]
    BY <1>5 DEF SetFlag
  <2>3. Len(issued'[k.set]) = Len(issued[k.set]) + 1
    BY <2>1, <2>2, AppendExtends
  <2>4. retired' = [retired EXCEPT ![k.set] = @ + 1]
    BY <1>1, <1>5 DEF SetFlag
  <2>5. \A p \in Pipe : p # k.set => issued'[p] = issued[p]
    BY <2>2 DEF TypeOK
  <2> QED BY <1>2, <2>1, <2>3, <2>4, <2>5 DEF TypeOK
<1>6. ASSUME NEW k \in Key, WaitDrains(k) PROVE FALSE
  <2>1. k.set \in Pipe
    BY KeyAssumption
  <2>2. InFlight(k.set) = {}
    BY <1>2, <2>1 DEF InFlight, TypeOK
  <2> QED BY <1>6, <2>2 DEF WaitDrains, HasToken
<1>7. ASSUME NEW ins \in Instr, IssueInOrder(ins)
      PROVE  \A p \in Pipe : retired'[p] = Len(issued'[p])
  BY <1>3, <1>7 DEF IssueInOrder
<1>8. ASSUME NEW ins \in Instr, IssueDeferred(ins) \/ IssueNow(ins) PROVE FALSE
  BY <1>1, <1>8 DEF IssueDeferred, IssueNow
<1>9. ASSUME NEW k \in Key, WaitRaised(k) \/ WaitBlocks(k)
      PROVE  \A p \in Pipe : retired'[p] = Len(issued'[p])
  BY <1>3, <1>9 DEF WaitRaised, WaitBlocks
<1>10. ASSUME NEW P, PipeBarrier(P) PROVE \A p \in Pipe : retired'[p] = Len(issued'[p])
  BY <1>4, <1>10 DEF PipeBarrier, Drain
<1>11. ASSUME Return PROVE \A p \in Pipe : retired'[p] = Len(issued'[p])
  BY <1>4, <1>11 DEF Return, Drain
<1>12. CASE UNCHANGED vars
  BY <1>3, <1>12 DEF vars
<1> QED BY <1>5, <1>6, <1>7, <1>8, <1>9, <1>10, <1>11, <1>12 DEF Next

(* Nothing left queued for the flag and no raise left to take.             *)
LEMMA ParkingSpendsAll ==
  ASSUME TypeOK, FlagConservation, NEW k \in Key, flagSem[k] <= 0, ~HasToken(k)
  PROVE  waits[k] = Cardinality(TokensUpTo(k, Len(issued[k.set])))
<1>1. /\ retired[k.set] \in Nat /\ Len(issued[k.set]) \in Nat
      /\ retired[k.set] <= Len(issued[k.set])
  BY KeyAssumption DEF TypeOK
<1>2. TokensUpTo(k, Len(issued[k.set])) = TokensUpTo(k, retired[k.set])
  BY <1>1 DEF TokensUpTo, HasToken, InFlight
<1>3. flagSem[k] = 0 /\ waits[k] \in Nat
  BY DEF TypeOK
<1>4. flagSem[k] + waits[k] = Cardinality(TokensUpTo(k, retired[k.set]))
  BY DEF FlagConservation
<1> QED BY <1>2, <1>3, <1>4

(* A core that is parked stays parked, and its flag stays spent.           *)
LEMMA NextParks ==
  ASSUME TypeOK, FlagConservation, ParkedIsBlocked, ParksOnlyWhenUnset, [Next]_vars
  PROVE  ParkedIsBlocked' /\ ParksOnlyWhenUnset'
<1>1. CASE status = "Runnable" /\ blockedOn' = blockedOn
  BY <1>1 DEF ParkedIsBlocked, ParksOnlyWhenUnset
<1>2. ASSUME NEW k \in Key, WaitBlocks(k) PROVE ParkedIsBlocked' /\ ParksOnlyWhenUnset'
  <2>1. waits[k] = Cardinality(TokensUpTo(k, Len(issued[k.set])))
    BY <1>2, ParkingSpendsAll DEF WaitBlocks
  <2>2. waits'[k] = Cardinality(TokensUpTo(k, Len(issued[k.set])))'
    BY <1>2, <2>1 DEF WaitBlocks, TokensUpTo, IsToken
  <2> QED BY <1>2, <2>2 DEF WaitBlocks, ParkedIsBlocked, ParksOnlyWhenUnset
<1>3. CASE UNCHANGED vars
  BY <1>3 DEF vars, ParkedIsBlocked, ParksOnlyWhenUnset, TokensUpTo, IsToken
<1>4. \/ status = "Runnable" /\ blockedOn' = blockedOn
      \/ \E k \in Key : WaitBlocks(k)
      \/ UNCHANGED vars
  BY DEF Next, IssueInOrder, IssueDeferred, IssueNow, SetFlag, Issue, WaitRaised,
         WaitDrains, PipeBarrier, Return
<1> QED BY <1>1, <1>2, <1>3, <1>4

(* At the start nothing is raised, waited for or pushed.                   *)
LEMMA InitConserves ==
  ASSUME Init
  PROVE  FlagConservation
<1> SUFFICES ASSUME NEW k \in Key
             PROVE  flagSem[k] + waits[k] = Cardinality(TokensUpTo(k, retired[k.set]))
  BY DEF FlagConservation
<1>1. flagSem[k] = 0 /\ waits[k] = 0 /\ retired[k.set] = 0
  BY KeyAssumption DEF Init
<1>2. TokensUpTo(k, retired[k.set]) = {}
  BY <1>1 DEF TokensUpTo
<1> QED BY <1>1, <1>2, FS_EmptySet

(* The conjunction is inductive.                                           *)
LEMMA Inductive == Spec => []IInv
<1>1. Init => IInv
  <2> SUFFICES ASSUME Init PROVE IInv
    OBVIOUS
  <2>1. TypeOK
    BY InitType
  <2>2. FlagConservation
    BY InitConserves
  <2>3. InOrderIsQuiet
    BY DEF Init, InOrderIsQuiet
  <2>4. ParkedIsBlocked /\ ParksOnlyWhenUnset
    BY DEF Init, ParkedIsBlocked, ParksOnlyWhenUnset
  <2> QED BY <2>1, <2>2, <2>3, <2>4 DEF IInv
<1>2. IInv /\ [Next]_vars => IInv'
  BY NextType, NextConserves, NextQuiet, NextParks DEF IInv
<1> QED BY <1>1, <1>2, PTL DEF Spec

(* Every raise is paid for by one token and every wait by one raise, for   *)
(* every set of pipes, flags and operations: execWaitFlag's drain, the     *)
(* barriers, direct accesses and the return all keep the same books.       *)
THEOREM FlagsConserved == Spec => []FlagConservation
<1>1. IInv => FlagConservation
  BY DEF IInv
<1> QED BY <1>1, Inductive, PTL

(* Balanced books order the waits: a raise comes from a token before the   *)
(* cursor, and what is queued lies behind it.                              *)
LEMMA ConservedIsOrdered ==
  ASSUME TypeOK, FlagConservation
  PROVE  FlagOrder
<1> SUFFICES ASSUME NEW k \in Key, NEW i \in InFlight(k.set)
             PROVE  waits[k] <= Cardinality(TokensUpTo(k, i))
  BY DEF FlagOrder
<1>1. retired[k.set] \in Nat /\ Len(issued[k.set]) \in Nat
  BY KeyAssumption DEF TypeOK
<1>2. i \in Nat /\ retired[k.set] <= i
  BY <1>1 DEF InFlight
<1>3. /\ Cardinality(TokensUpTo(k, retired[k.set])) <= Cardinality(TokensUpTo(k, i))
      /\ Cardinality(TokensUpTo(k, retired[k.set])) \in Nat
      /\ Cardinality(TokensUpTo(k, i)) \in Nat
  <2>1. i + 0 \in Nat /\ i <= i
    BY <1>2
  <2> QED BY <1>1, <1>2, <2>1, TokensMonotone, TokensSplit
<1>4. flagSem[k] \in Nat /\ waits[k] \in Nat
  BY DEF TypeOK
<1>5. flagSem[k] + waits[k] = Cardinality(TokensUpTo(k, retired[k.set]))
  BY DEF FlagConservation
<1> QED BY <1>3, <1>4, <1>5

(* The n-th wait_flag never passes while an effect issued before the n-th  *)
(* set_flag is outstanding on the setting pipe.                            *)
THEOREM WaitsAreOrdered == Spec => []FlagOrder
<1>1. IInv => FlagOrder
  BY ConservedIsOrdered DEF IInv
<1> QED BY <1>1, Inductive, PTL

(* A core parks on a wait_flag only when it has spent every set it issued  *)
(* itself, so a park on an intra-core flag is final.                       *)
THEOREM ParkingIsFinal == Spec => []ParksOnlyWhenUnset
<1>1. IInv => ParksOnlyWhenUnset
  BY DEF IInv
<1> QED BY <1>1, Inductive, PTL
=============================================================================
