----------------------------- MODULE OrderProofs -----------------------------
(***************************************************************************)
(* Why the lazy commit order of PipeEngine is a sound test of a kernel's   *)
(* flags (LazyMatchesProgramOrder), and why the markers a scalar access    *)
(* leaves say exactly which orderings it still owes (MarkersExact).        *)
(*                                                                         *)
(* The first argument is about the effects that wait in the queues.  As    *)
(* long as no MISSING SYNC was reported, no two of them on different pipes *)
(* conflict, so for each byte at most one pipe has writers waiting, in the *)
(* order of the program; memory, once they have landed on it, is that of   *)
(* the program, and each waiting effect will find the bytes it expects     *)
(* once those ahead of it have landed (Orderly).  Whatever part of the     *)
(* queues a drain pops, what is left has the same property.                *)
(***************************************************************************)
EXTENDS PipeEngineProofs

InQueues  == UNION {{p} \X InFlight(p) : p \in Pipe}
Waiting == {x \in InQueues : At(x).kind = "effect"}

Ahead(x) == {y \in Waiting : PoppedBefore(y, x)}

WritesAt(x, b) == b \in Bytes(At(x).writes)
ReadsAt(x, b)  == b \in Bytes(At(x).reads)

(* An effect that waits is not on the scalar pipe, is not raw, and was not *)
(* issued by an operation of another pipe.                                 *)
OfItsPipe ==
  \A x \in Waiting :
    /\ x[1] # PipeS /\ ~At(x).raw
    /\ \A ins \in Instr : At(x).op = ins.op => ins.pipe = x[1]

(* No two effects that wait on different pipes conflict.                   *)
NoOvertaking ==
  \A x, y \in Waiting : x[1] # y[1] =>
    \A b \in Byte : WritesAt(x, b) => ~WritesAt(y, b) /\ ~ReadsAt(y, b)

(* The effects that wait lead to the memory of the program, ...            *)
LeadsToProg == \A b \in Byte : prog[b] = Landed(Waiting, b)

(* ... and each will read what the program order gave it.                  *)
FindsExpected ==
  \A x \in Waiting : \A b \in Byte :
    ReadsAt(x, b) => At(x).expect[b] = Landed(Ahead(x), b)

Orderly == NoOvertaking /\ LeadsToProg /\ FindsExpected /\ ~stale

DoneIsEmpty == status = "Done" => InQueues = {}

OrderInv ==
  /\ TypeOK /\ InOrderIsQuiet /\ OfItsPipe /\ DoneIsEmpty
  /\ CheckSync /\ missing = {} => Orderly

-----------------------------------------------------------------------------
(* What lands on a byte is the number of its last writer.  The operators   *)
(* name the logs and the memory they are about, for they are needed before *)
(* and after a step.                                                       *)
EntryOf(log, x) == log[x[1]][x[2]]

WritersIn(log, X, b) ==
  {x \in X : EntryOf(log, x).kind = "effect" /\ b \in Bytes(EntryOf(log, x).writes)}

LastOf(W) == CHOOSE x \in W : \A y \in W : ~PoppedBefore(x, y)

LandedOn(log, m, X, b) ==
  IF WritersIn(log, X, b) = {} THEN m[b] ELSE EntryOf(log, LastOf(WritersIn(log, X, b))).id

(* What lands, as a function of the log: this log or the next one.         *)
LEMMA LandedIsLandedOn ==
  ASSUME NEW X, NEW b
  PROVE  /\ Landed(X, b) = LandedOn(issued, mem, X, b)
         /\ Landed(X, b)' = LandedOn(issued', mem', X, b)
BY DEF Landed, LandedOn, WritersIn, EntryOf, LastOf, At

(* Positions on one pipe up to some bound                                  *)
OnePipe(W, p, n) == W \in SUBSET (Nat \X Nat) /\ \A y \in W : y[1] = p /\ y[2] <= n

(* The writer CHOOSE picks is the one no other of its pipe was issued      *)
(* after.                                                                  *)
LEMMA LastIs ==
  ASSUME NEW W, NEW p, NEW n, OnePipe(W, p, n), NEW w \in W, \A y \in W : y[2] <= w[2]
  PROVE  LastOf(W) = w
<1>1. \A y \in W : y = <<p, y[2]>> /\ y[2] \in Nat /\ p \in Nat
  BY DEF OnePipe
<1>2. \A y \in W : ~PoppedBefore(w, y)
  BY <1>1 DEF PoppedBefore
<1>3. LastOf(W) \in W /\ \A y \in W : ~PoppedBefore(LastOf(W), y)
  BY <1>2 DEF LastOf
<1>4. ~PoppedBefore(LastOf(W), w)
  BY <1>3
<1>5. LastOf(W)[2] = w[2]
  BY <1>1, <1>3, <1>4 DEF PoppedBefore
<1> QED BY <1>1, <1>3, <1>5

(* There is such a writer, whenever there is one at all.                   *)
LEMMA LastExists ==
  ASSUME NEW W, W # {}, NEW p, NEW n \in Nat, OnePipe(W, p, n)
  PROVE  LastOf(W) \in W /\ \A y \in W : y[2] <= LastOf(W)[2]
<1> DEFINE I == {y[2] : y \in W}
<1>1. I \in SUBSET Nat /\ I # {} /\ \A i \in I : i <= n
  BY DEF OnePipe
<1>2. PICK i \in I : \A j \in I : j <= i
  <2> HIDE DEF I
  <2> QED BY <1>1, GreatestNatural
<1>3. PICK w \in W : i = w[2]
  OBVIOUS
<1>4. \A y \in W : y[2] <= w[2]
  BY <1>2, <1>3
<1>5. LastOf(W) = w
  BY <1>4, LastIs
<1> QED BY <1>4, <1>5

(* The bytes of ranges are bytes of the arena.                             *)
LEMMA BytesAreBytes ==
  ASSUME NEW R \in SUBSET ByteRange
  PROVE  Bytes(R) \subseteq Byte
BY PipeAssumption DEF Bytes, ByteRange, Byte

(* Positions in the queues are pairs of numbers.                           *)
LEMMA QueuedFacts ==
  ASSUME TypeOK, NEW x \in InQueues
  PROVE  /\ x = <<x[1], x[2]>> /\ x[1] \in Pipe /\ x[1] \in Nat
         /\ x[2] \in Nat /\ x[2] \in InFlight(x[1]) /\ x[2] \in 1 .. Len(issued[x[1]])
         /\ retired[x[1]] \in Nat /\ retired[x[1]] < x[2]
         /\ At(x) \in Entry
<1>1. x = <<x[1], x[2]>> /\ x[1] \in Pipe /\ x[2] \in InFlight(x[1])
  BY DEF InQueues
<1>2. /\ Len(issued[x[1]]) \in Nat /\ retired[x[1]] \in Nat
      /\ retired[x[1]] <= Len(issued[x[1]])
  BY <1>1 DEF TypeOK
<1>3. x[2] \in 1 .. Len(issued[x[1]]) /\ retired[x[1]] < x[2]
  BY <1>1, <1>2 DEF InFlight
<1>4. At(x) \in Entry
  BY <1>1, <1>3, LogEntry DEF At
<1> QED BY <1>1, <1>2, <1>3, <1>4, PipeAssumption DEF Pipe

(* While nothing overtakes, the writers of a byte that wait are on one     *)
(* pipe: that of any of them, and that of any effect that reads the byte.  *)
LEMMA WritersOnOnePipe ==
  ASSUME TypeOK, NoOvertaking, NEW x \in Waiting, NEW b \in Byte,
         WritesAt(x, b) \/ ReadsAt(x, b), NEW X \in SUBSET Waiting
  PROVE  OnePipe(WritersIn(issued, X, b), x[1], Len(issued[x[1]]))
<1> DEFINE W == WritersIn(issued, X, b)
<1>1. \A y \in W : y \in Waiting /\ y \in InQueues /\ WritesAt(y, b)
  BY DEF WritersIn, WritesAt, EntryOf, At, Waiting
<1>2. \A y \in W : y[1] = x[1]
  BY <1>1 DEF NoOvertaking
<1>3. \A y \in W : y \in Nat \X Nat /\ y[2] <= Len(issued[y[1]])
  <2> TAKE y \in W
  <2>1. y = <<y[1], y[2]>> /\ y[1] \in Nat /\ y[2] \in Nat /\ y[2] \in 1 .. Len(issued[y[1]])
    BY <1>1, QueuedFacts
  <2>2. y[1] \in Pipe /\ Len(issued[y[1]]) \in Nat
    BY <1>1, QueuedFacts DEF TypeOK
  <2> QED BY <2>1, <2>2
<1> QED BY <1>2, <1>3 DEF OnePipe

-----------------------------------------------------------------------------
(* A step that issues no effect: the logs keep the effects they have.      *)
EffectsStay ==
  \A p \in Pipe :
    /\ Len(issued'[p]) \in Nat /\ Len(issued[p]) <= Len(issued'[p])
    /\ \A i \in 1 .. Len(issued[p]) :
         /\ issued'[p][i].kind = issued[p][i].kind
         /\ issued[p][i].kind = "effect" => issued'[p][i] = issued[p][i]
    /\ \A i \in 1 .. Len(issued'[p]) :
         Len(issued[p]) < i => issued'[p][i].kind # "effect"

Beyond(X, upto) == {x \in X : upto[x[1]] < x[2]}

(* What a drain leaves waiting is what lies beyond it.                     *)
LEMMA WaitingAfter ==
  ASSUME TypeOK, EffectsStay, NEW upto, DrainTo(upto), retired' = upto
  PROVE  /\ Waiting' = Beyond(Waiting, upto)
         /\ \A x \in Waiting : At(x)' = At(x)
<1>1. \A p \in Pipe : /\ retired[p] \in Nat /\ upto[p] \in Nat /\ Len(issued[p]) \in Nat
                      /\ retired[p] <= upto[p] /\ upto[p] <= Len(issued[p])
  BY DEF TypeOK, DrainTo
<1>2. ASSUME NEW x \in Waiting PROVE At(x)' = At(x)
  <2>1. x \in InQueues /\ At(x).kind = "effect"
    BY DEF Waiting
  <2>2. x[1] \in Pipe /\ x[2] \in 1 .. Len(issued[x[1]])
    BY <2>1, QueuedFacts
  <2> QED BY <2>1, <2>2 DEF EffectsStay, At
<1>3. ASSUME NEW x \in Beyond(Waiting, upto) PROVE x \in Waiting'
  <2>1. x \in Waiting /\ x \in InQueues /\ upto[x[1]] < x[2] /\ At(x).kind = "effect"
    BY DEF Beyond, Waiting
  <2>2. /\ x = <<x[1], x[2]>> /\ x[1] \in Pipe /\ x[2] \in Nat
        /\ x[2] \in 1 .. Len(issued[x[1]])
    BY <2>1, QueuedFacts
  <2>3. x[2] \in InFlight(x[1])'
    BY <2>1, <2>2, <1>1 DEF InFlight, EffectsStay
  <2>4. x \in InQueues'
    BY <2>2, <2>3 DEF InQueues
  <2> QED BY <2>1, <2>4, <1>2 DEF Waiting
<1>4. ASSUME NEW x \in Waiting' PROVE x \in Beyond(Waiting, upto)
  <2>1. /\ x = <<x[1], x[2]>> /\ x[1] \in Pipe
        /\ x[2] \in (upto[x[1]] + 1) .. Len(issued'[x[1]])
        /\ issued'[x[1]][x[2]].kind = "effect"
    BY DEF Waiting, InQueues, InFlight, At
  <2>2. x[2] \in 1 .. Len(issued'[x[1]]) /\ x[2] \in Nat /\ upto[x[1]] < x[2]
    BY <2>1, <1>1 DEF EffectsStay
  <2>3. x[2] \in 1 .. Len(issued[x[1]])
    BY <2>1, <2>2, <1>1 DEF EffectsStay
  <2>4. At(x).kind = "effect"
    BY <2>1, <2>3 DEF EffectsStay, At
  <2>5. x[2] \in InFlight(x[1])
    BY <2>1, <2>2, <2>3, <1>1 DEF InFlight
  <2>6. x \in InQueues
    BY <2>1, <2>5 DEF InQueues
  <2> QED BY <2>2, <2>4, <2>6 DEF Waiting, Beyond
<1> QED BY <1>2, <1>3, <1>4

(* The effects a drain pops are the ones that wait before its end.         *)
LEMMA PoppedWaiting ==
  ASSUME TypeOK, NEW upto, DrainTo(upto)
  PROVE  \A x : /\ x \in Popped(upto) => x \in InQueues /\ x[2] <= upto[x[1]]
                /\ x \in InQueues /\ x[2] <= upto[x[1]] => x \in Popped(upto)
<1>1. \A p \in Pipe : /\ retired[p] \in Nat /\ upto[p] \in Nat /\ Len(issued[p]) \in Nat
                      /\ retired[p] <= upto[p] /\ upto[p] <= Len(issued[p])
  BY DEF TypeOK, DrainTo
<1>2. ASSUME NEW x \in Popped(upto) PROVE x \in InQueues /\ x[2] <= upto[x[1]]
  <2>1. /\ x = <<x[1], x[2]>> /\ x[1] \in Pipe
        /\ x[2] \in (retired[x[1]] + 1) .. upto[x[1]]
    BY DEF Popped
  <2>2. x[2] \in InFlight(x[1]) /\ x[2] <= upto[x[1]]
    BY <2>1, <1>1 DEF InFlight
  <2> QED BY <2>1, <2>2 DEF InQueues
<1>3. ASSUME NEW x \in InQueues, x[2] <= upto[x[1]] PROVE x \in Popped(upto)
  <2>1. /\ x = <<x[1], x[2]>> /\ x[1] \in Pipe /\ x[2] \in Nat /\ retired[x[1]] < x[2]
        /\ retired[x[1]] \in Nat
    BY QueuedFacts
  <2>2. x[2] \in (retired[x[1]] + 1) .. upto[x[1]]
    BY <2>1, <1>1, <1>3
  <2> QED BY <2>1, <2>2 DEF Popped
<1> QED BY <1>2, <1>3

(* The value a set of effects leads to on a byte is the same before a      *)
(* drain and after it, if all the writers it pops are of the set.          *)
LEMMA DrainLands ==
  ASSUME TypeOK, NEW upto, DrainTo(upto), \A x \in Waiting : At(x)' = At(x),
         NEW X \in SUBSET Waiting, NEW b \in Byte, NEW p \in Pipe,
         OnePipe(WritersIn(issued, X, b), p, Len(issued[p])),
         WritersIn(issued, Popped(upto), b) \subseteq X,
         mem'[b] = DrainedMem(upto)[b]
  PROVE  LandedOn(issued', mem', Beyond(X, upto), b) = Landed(X, b)
<1> DEFINE W == WritersIn(issued, X, b)
           R == {y \in W : upto[y[1]] < y[2]}
           Y == Beyond(X, upto)
<1>1. \A x \in Waiting : At(x)' = At(x)
  OBVIOUS
<1>2. WritersIn(issued', Y, b) = R
  BY <1>1 DEF WritersIn, EntryOf, At, Beyond
<1>3. \A y \in W : y \in Waiting /\ y \in InQueues /\ y[1] \in Pipe /\ y[2] \in Nat
  <2> TAKE y \in W
  <2>1. y \in Waiting /\ y \in InQueues
    BY DEF WritersIn, Waiting
  <2> QED BY <2>1, QueuedFacts
<1>4. Landed(X, b) = LandedOn(issued, mem, X, b)
  BY LandedIsLandedOn
<1>5. CASE R = {}
  <2>1. \A y \in W : y[2] <= upto[y[1]]
    BY <1>3, <1>5 DEF DrainTo
  <2>2. \A y \in W : y \in Popped(upto)
    BY <2>1, <1>3, PoppedWaiting
  <2>3. WritersIn(issued, Popped(upto), b) = W
    BY <2>2 DEF WritersIn
  <2>4. Landed(Popped(upto), b) = Landed(X, b)
    BY <2>3, <1>4, LandedIsLandedOn DEF LandedOn
  <2>5. LandedOn(issued', mem', Y, b) = mem'[b]
    BY <1>2, <1>5 DEF LandedOn
  <2> QED BY <2>4, <2>5 DEF DrainedMem
<1>6. CASE R # {}
  <2>1. W # {} /\ Len(issued[p]) \in Nat
    BY <1>6 DEF TypeOK
  <2>2. LastOf(W) \in W /\ \A y \in W : y[2] <= LastOf(W)[2]
    BY <2>1, LastExists
  <2>3. OnePipe(R, p, Len(issued[p]))
    BY DEF OnePipe
  <2>4. LastOf(W) \in R
    <3>1. PICK y \in R : TRUE
      BY <1>6
    <3>2. y[1] = p /\ LastOf(W)[1] = p /\ y[2] <= LastOf(W)[2] /\ upto[p] \in Nat
      BY <2>2 DEF OnePipe, DrainTo
    <3>3. y[2] \in Nat /\ LastOf(W)[2] \in Nat
      BY <1>3, <2>2
    <3> HIDE DEF W
    <3> QED BY <2>2, <3>1, <3>2, <3>3
  <2>5. LastOf(R) = LastOf(W)
    <3> HIDE DEF W
    <3> QED BY <2>2, <2>3, <2>4, LastIs
  <2>6. LastOf(W) \in Waiting
    BY <1>3, <2>2
  <2>7. EntryOf(issued', LastOf(W)) = EntryOf(issued, LastOf(W))
    BY <2>6, <1>1 DEF EntryOf, At
  <2> HIDE DEF W, R
  <2>8. LandedOn(issued', mem', Y, b) = EntryOf(issued', LastOf(W)).id
    BY <1>2, <1>6, <2>5 DEF LandedOn
  <2>9. Landed(X, b) = EntryOf(issued, LastOf(W)).id
    BY <1>4, <2>1 DEF LandedOn, W
  <2> QED BY <2>7, <2>8, <2>9
<1> QED BY <1>5, <1>6

(* Some pipe has all the writers of a byte that wait.                      *)
LEMMA WritersOfWaiting ==
  ASSUME TypeOK, NoOvertaking, NEW b \in Byte
  PROVE  \E p \in Pipe : OnePipe(WritersIn(issued, Waiting, b), p, Len(issued[p]))
<1>1. CASE WritersIn(issued, Waiting, b) = {}
  BY <1>1, PipeAssumption DEF OnePipe, Pipe
<1>2. CASE WritersIn(issued, Waiting, b) # {}
  <2>1. PICK x \in WritersIn(issued, Waiting, b) : TRUE
    BY <1>2
  <2>2. x \in Waiting /\ WritesAt(x, b)
    BY <2>1 DEF WritersIn, WritesAt, EntryOf, At
  <2>3. x[1] \in Pipe
    BY <2>2, QueuedFacts DEF Waiting
  <2> QED BY <2>2, <2>3, WritersOnOnePipe
<1> QED BY <1>1, <1>2

(* The writers a drain pops, of a byte that an effect beyond it reads or   *)
(* writes, were all ahead of that effect.                                  *)
LEMMA PoppedWritersAhead ==
  ASSUME TypeOK, NoOvertaking, NEW upto, DrainTo(upto),
         NEW x \in Beyond(Waiting, upto), NEW b \in Byte, WritesAt(x, b) \/ ReadsAt(x, b)
  PROVE  WritersIn(issued, Popped(upto), b) \subseteq Ahead(x)
<1> SUFFICES ASSUME NEW y \in WritersIn(issued, Popped(upto), b) PROVE y \in Ahead(x)
  OBVIOUS
<1>1. y \in Popped(upto) /\ At(y).kind = "effect" /\ WritesAt(y, b)
  BY DEF WritersIn, WritesAt, EntryOf, At
<1>2. y \in Waiting /\ y[2] <= upto[y[1]]
  BY <1>1, PoppedWaiting DEF Waiting
<1>3. x \in Waiting /\ upto[x[1]] < x[2]
  BY DEF Beyond
<1>4. y[1] = x[1]
  BY <1>1, <1>2, <1>3 DEF NoOvertaking
<1>5. x[1] \in Pipe /\ x[2] \in Nat /\ y[2] \in Nat
  BY <1>2, <1>3, QueuedFacts DEF Waiting
<1>6. upto[x[1]] \in Nat
  BY <1>5 DEF DrainTo
<1>7. y[2] < x[2]
  BY <1>2, <1>3, <1>4, <1>5, <1>6
<1> QED BY <1>2, <1>4, <1>7 DEF Ahead, PoppedBefore

(* A drain, and the completion of an operation that writes bytes no effect *)
(* beyond the drain touches, keep the queues orderly.                      *)
LEMMA RestIsOrderly ==
  ASSUME TypeOK, NoOvertaking, LeadsToProg, FindsExpected, EffectsStay,
         NEW upto, DrainTo(upto), retired' = upto, NEW B, NEW v,
         \A b \in Byte : mem'[b] = IF b \in B THEN v ELSE DrainedMem(upto)[b],
         \A b \in Byte : prog'[b] = IF b \in B THEN v ELSE prog[b],
         \A x \in Beyond(Waiting, upto) : \A b \in B : ~WritesAt(x, b) /\ ~ReadsAt(x, b)
  PROVE  NoOvertaking' /\ LeadsToProg' /\ FindsExpected'
<1>1. Waiting' = Beyond(Waiting, upto) /\ \A x \in Waiting : At(x)' = At(x)
  BY WaitingAfter
<1>2. Beyond(Waiting, upto) \subseteq Waiting
  BY DEF Beyond
<1>3. NoOvertaking'
  BY <1>1, <1>2 DEF NoOvertaking, WritesAt, ReadsAt
<1>4. ASSUME NEW b \in Byte PROVE (prog[b] = Landed(Waiting, b))'
  <2>1. CASE b \in B
    <3>1. WritersIn(issued', Beyond(Waiting, upto), b) = {}
      BY <1>1, <1>2, <2>1 DEF WritersIn, EntryOf, WritesAt, At
    <3>2. Landed(Waiting, b)' = LandedOn(issued', mem', Beyond(Waiting, upto), b)
      BY <1>1 DEF Landed, LandedOn, WritersIn, EntryOf, LastOf, At
    <3>3. Landed(Waiting, b)' = v
      BY <2>1, <3>1, <3>2 DEF LandedOn
    <3> QED BY <2>1, <3>3
  <2>2. CASE b \notin B
    <3>1. PICK p \in Pipe : OnePipe(WritersIn(issued, Waiting, b), p, Len(issued[p]))
      BY WritersOfWaiting
    <3>2. WritersIn(issued, Popped(upto), b) \subseteq Waiting
      BY PoppedWaiting DEF WritersIn, Waiting, EntryOf, At
    <3>3. mem'[b] = DrainedMem(upto)[b]
      BY <2>2
    <3>4. LandedOn(issued', mem', Beyond(Waiting, upto), b) = Landed(Waiting, b)
      BY <1>1, <3>1, <3>2, <3>3, DrainLands
    <3>5. Landed(Waiting, b)' = LandedOn(issued', mem', Beyond(Waiting, upto), b)
      BY <1>1 DEF Landed, LandedOn, WritersIn, EntryOf, LastOf, At
    <3> QED BY <2>2, <3>4, <3>5 DEF LeadsToProg
  <2> QED BY <2>1, <2>2
<1>5. ASSUME NEW x \in Waiting', NEW b \in Byte, ReadsAt(x, b)'
      PROVE  At(x)'.expect[b] = Landed(Ahead(x), b)'
  <2>1. x \in Beyond(Waiting, upto) /\ x \in Waiting /\ At(x)' = At(x)
    BY <1>1, <1>2, <1>5
  <2>2. ReadsAt(x, b)
    BY <1>5, <2>1 DEF ReadsAt
  <2>3. b \notin B
    BY <2>1, <2>2
  <2>4. Ahead(x)' = Beyond(Ahead(x), upto)
    BY <1>1 DEF Ahead, Beyond, PoppedBefore
  <2>5. Ahead(x) \subseteq Waiting /\ x[1] \in Pipe
    BY <2>1, QueuedFacts DEF Ahead, Waiting
  <2>6. OnePipe(WritersIn(issued, Ahead(x), b), x[1], Len(issued[x[1]]))
    BY <2>1, <2>2, <2>5, WritersOnOnePipe
  <2>7. WritersIn(issued, Popped(upto), b) \subseteq Ahead(x)
    BY <2>1, <2>2, PoppedWritersAhead
  <2>8. mem'[b] = DrainedMem(upto)[b]
    BY <2>3
  <2>9. LandedOn(issued', mem', Beyond(Ahead(x), upto), b) = Landed(Ahead(x), b)
    BY <1>1, <2>5, <2>6, <2>7, <2>8, DrainLands
  <2>10. Landed(Ahead(x), b)' = LandedOn(issued', mem', Beyond(Ahead(x), upto), b)
    BY <2>4 DEF Landed, LandedOn, WritersIn, EntryOf, LastOf, At
  <2> QED BY <2>1, <2>2, <2>9, <2>10 DEF FindsExpected
<1> QED BY <1>3, <1>4, <1>5 DEF LeadsToProg, FindsExpected

(* What is drained finds the bytes it expects.                             *)
LEMMA DrainReadsFresh ==
  ASSUME TypeOK, NoOvertaking, FindsExpected, NEW upto, DrainTo(upto)
  PROVE  ~ReadsStale(upto)
<1> SUFFICES ASSUME NEW x \in Popped(upto), At(x).kind = "effect",
                    NEW b \in Bytes(At(x).reads)
             PROVE  Landed({y \in Popped(upto) : PoppedBefore(y, x)}, b) = At(x).expect[b]
  BY DEF ReadsStale
<1> DEFINE Z == {y \in Popped(upto) : PoppedBefore(y, x)}
<1>1. x \in InQueues /\ x[2] <= upto[x[1]] /\ x \in Waiting
  BY PoppedWaiting DEF Waiting
<1>2. x[1] \in Pipe /\ x[2] \in Nat /\ At(x) \in Entry
  BY <1>1, QueuedFacts
<1>3. b \in Byte /\ ReadsAt(x, b)
  BY <1>2, EntryFields, BytesAreBytes DEF ReadsAt
<1>4. ASSUME NEW y \in WritersIn(issued, Ahead(x), b) PROVE y \in Z
  <2>1. y \in Waiting /\ y \in InQueues /\ PoppedBefore(y, x) /\ WritesAt(y, b)
    BY DEF WritersIn, Ahead, Waiting, WritesAt, EntryOf, At
  <2>2. y[1] = x[1]
    BY <1>1, <1>3, <2>1 DEF NoOvertaking
  <2>3. y[2] \in Nat /\ upto[x[1]] \in Nat /\ y[1] \in Nat
    BY <1>2, <2>1, QueuedFacts DEF DrainTo
  <2>4. y[2] < x[2]
    BY <2>1, <2>2, <2>3 DEF PoppedBefore
  <2>5. y[2] <= upto[y[1]]
    BY <1>1, <1>2, <2>2, <2>3, <2>4
  <2> QED BY <2>1, <2>5, PoppedWaiting
<1>5. ASSUME NEW y \in Z, At(y).kind = "effect" PROVE y \in Ahead(x)
  BY <1>5, PoppedWaiting DEF Ahead, Waiting
<1>6. WritersIn(issued, Z, b) = WritersIn(issued, Ahead(x), b)
  BY <1>4, <1>5 DEF WritersIn, EntryOf, At
<1> HIDE DEF Z
<1>7. Landed(Z, b) = Landed(Ahead(x), b)
  BY <1>6, LandedIsLandedOn DEF LandedOn
<1> QED BY <1>1, <1>3, <1>7 DEF FindsExpected, Z

(* A byte no effect beyond a drain writes holds, after the drain, what the *)
(* program gave it.                                                        *)
LEMMA DrainedIsProg ==
  ASSUME TypeOK, LeadsToProg, NEW upto, DrainTo(upto), NEW b \in Byte,
         \A x \in Beyond(Waiting, upto) : ~WritesAt(x, b)
  PROVE  DrainedMem(upto)[b] = prog[b]
<1>1. ASSUME NEW x \in WritersIn(issued, Waiting, b) PROVE x \in Popped(upto)
  <2>1. x \in Waiting /\ x \in InQueues /\ WritesAt(x, b)
    BY DEF WritersIn, Waiting, WritesAt, EntryOf, At
  <2>2. ~(upto[x[1]] < x[2])
    BY <2>1 DEF Beyond
  <2>3. x[1] \in Pipe /\ x[2] \in Nat
    BY <2>1, QueuedFacts
  <2>4. upto[x[1]] \in Nat
    BY <2>3 DEF DrainTo
  <2> QED BY <2>1, <2>2, <2>3, <2>4, PoppedWaiting
<1>2. ASSUME NEW x \in WritersIn(issued, Popped(upto), b) PROVE x \in Waiting
  BY PoppedWaiting DEF WritersIn, Waiting, EntryOf, At
<1>3. WritersIn(issued, Popped(upto), b) = WritersIn(issued, Waiting, b)
  BY <1>1, <1>2 DEF WritersIn
<1>4. Landed(Popped(upto), b) = Landed(Waiting, b)
  BY <1>3, LandedIsLandedOn DEF LandedOn
<1> QED BY <1>4 DEF LeadsToProg, DrainedMem

-----------------------------------------------------------------------------
(* checkPipeHazards saw nothing to report: the operation conflicts with    *)
(* no effect that waits on another pipe.                                   *)
LEMMA NothingToReport ==
  ASSUME TypeOK, OfItsPipe, CheckSync, NEW ins \in Instr, CheckHazards(ins), missing' = {},
         NEW x \in Waiting, x[1] # ins.pipe, NEW b
  PROVE  /\ missing = {}
         /\ WritesAt(x, b) => b \notin Bytes(ins.writes) /\ b \notin Bytes(ins.reads)
         /\ ReadsAt(x, b) => b \notin Bytes(ins.writes)
<1>1. missing = {} /\ NewHazards(ins, retired, missing) = {}
  <2>1. missing' = Reported(ins, retired, missing)
    BY DEF CheckHazards
  <2> QED BY <2>1 DEF Reported
<1>2. ~At(x).raw /\ At(x).op # ins.op
  BY DEF OfItsPipe
<1>3. x \in InQueues /\ At(x).kind = "effect"
  BY DEF Waiting
<1>4. /\ x = <<x[1], x[2]>> /\ x[1] \in Pipe
      /\ x[2] \in (retired[x[1]] + 1) .. Len(issued[x[1]])
  BY <1>3, QueuedFacts DEF InFlight
<1>5. x \in UNION {{p} \X ((retired[p] + 1) .. Len(issued[p])) : p \in Pipe \ {ins.pipe}}
  BY <1>4
<1>6. ~Conflict(At(x), ins)
  BY <1>1, <1>5 DEF NewHazards
<1>7. /\ Bytes(At(x).reads) \cap Bytes(ins.writes) = {}
      /\ Bytes(At(x).writes) \cap Bytes(ins.writes) = {}
      /\ Bytes(At(x).writes) \cap Bytes(ins.reads) = {}
  BY <1>2, <1>3, <1>6 DEF Conflict
<1> QED BY <1>1, <1>7 DEF WritesAt, ReadsAt

-----------------------------------------------------------------------------
(* The two ways a log changes, entry by entry: one is pushed, ...          *)
Pushed(q, e) ==
  \A p \in Pipe :
    /\ p # q => issued'[p] = issued[p]
    /\ p = q => /\ Len(issued'[p]) = Len(issued[p]) + 1
                /\ issued'[p][Len(issued[p]) + 1] = e
                /\ \A j \in 1 .. Len(issued[p]) : issued'[p][j] = issued[p][j]

(* ... or one is replaced where it stands.                                 *)
Replaced(q, i, e) ==
  \A p \in Pipe :
    /\ p # q => issued'[p] = issued[p]
    /\ p = q => /\ Len(issued'[p]) = Len(issued[p])
                /\ \A j \in 1 .. Len(issued[p]) :
                     issued'[p][j] = IF j = i THEN e ELSE issued[p][j]

(* An append to the log of a pipe pushes.                                  *)
LEMMA AppendPushes ==
  ASSUME TypeOK, NEW q \in Pipe, NEW e \in Entry,
         issued' = [issued EXCEPT ![q] = Append(@, e)]
  PROVE  Pushed(q, e)
<1>1. issued \in [Pipe -> Seq(Entry)] /\ issued[q] \in Seq(Entry)
  BY DEF TypeOK
<1>2. \A p \in Pipe : issued'[p] = IF p = q THEN Append(issued[q], e) ELSE issued[p]
  BY <1>1
<1>3. /\ Len(Append(issued[q], e)) = Len(issued[q]) + 1
      /\ \A i \in 1 .. Len(issued[q]) : Append(issued[q], e)[i] = issued[q][i]
      /\ Append(issued[q], e)[Len(issued[q]) + 1] = e
  BY <1>1, AppendProperties
<1> QED BY <1>2, <1>3 DEF Pushed

(* A candidate is a marker behind the last token of its pipe.              *)
LEMMA CandidateFacts ==
  ASSUME TypeOK, NEW ins \in Instr, NEW i \in Candidates(ins)
  PROVE  LET e == issued[ins.pipe][i]
         IN  /\ ins.pipe \in Pipe /\ i \in InFlight(ins.pipe)
             /\ i \in 1 .. Len(issued[ins.pipe])
             /\ \A j \in i .. Len(issued[ins.pipe]) : issued[ins.pipe][j].kind # "token"
             /\ e \in Entry /\ e.kind = "marker"
             /\ SoleRange(e) /\ SoleRange(ins)
             /\ e.op = ins.op /\ e.raw = ins.raw /\ (e.writes # {}) = (ins.writes # {})
             /\ Touches(TheRange(ins), TheRange(e))
<1>1. ins.pipe \in Pipe
  BY InstrAssumption DEF Instruction
<1>2. i \in InFlight(ins.pipe) /\ i \in 1 .. Len(issued[ins.pipe])
  BY <1>1 DEF Candidates, InFlight, TypeOK
<1>3. issued[ins.pipe][i] \in Entry
  BY <1>1, <1>2, LogEntry
<1> QED BY <1>1, <1>2, <1>3 DEF Candidates

(* A marker is widened where it stands, ...                                *)
LEMMA WidenReplaces ==
  ASSUME TypeOK, NEW ins \in Instr, NEW i \in Candidates(ins),
         issued' = [issued EXCEPT ![ins.pipe][i] = Widened(@, ins)]
  PROVE  /\ Replaced(ins.pipe, i, Widened(issued[ins.pipe][i], ins))
         /\ Widened(issued[ins.pipe][i], ins).kind = "marker"
<1> DEFINE p == ins.pipe
           w == Widened(issued[p][i], ins)
<1>1. p \in Pipe /\ i \in 1 .. Len(issued[p]) /\ issued[p] \in Seq(Entry)
  BY CandidateFacts DEF TypeOK
<1>2. w \in Entry /\ w.kind = "marker"
  BY CandidateFacts, WidenedIsEntry
<1>3. issued' = [issued EXCEPT ![p] = [issued[p] EXCEPT ![i] = w]]
  OBVIOUS
<1> HIDE DEF w
<1>4. /\ Len([issued[p] EXCEPT ![i] = w]) = Len(issued[p])
      /\ \A j \in 1 .. Len(issued[p]) :
           [issued[p] EXCEPT ![i] = w][j] = IF j = i THEN w ELSE issued[p][j]
  BY <1>1, <1>2, ExceptSeq
<1>5. \A q \in Pipe : issued'[q] = IF q = p THEN [issued[p] EXCEPT ![i] = w] ELSE issued[q]
  BY <1>1, <1>3 DEF TypeOK
<1> QED BY <1>2, <1>4, <1>5 DEF Replaced, w

(* ... or one is pushed, or nothing is queued: without the sync check and  *)
(* past the cap.                                                           *)
LEMMA LeaveMarkerCases ==
  ASSUME TypeOK, NEW ins \in Instr, NEW base \in Nat, LeaveMarker(ins, base)
  PROVE  \/ issued' = issued /\ (capWarned => capWarned') /\ (CheckSync => capWarned')
         \/ /\ CheckSync /\ capWarned' = capWarned
            /\ \E i \in Candidates(ins) :
                 /\ base < i
                 /\ issued' = [issued EXCEPT ![ins.pipe][i] = Widened(@, ins)]
         \/ /\ CheckSync /\ capWarned' = capWarned
            /\ Pushed(ins.pipe, Marker(ins))
<1> DEFINE p == ins.pipe
           found == {i \in Candidates(ins) : i > base}
           last == CHOOSE i \in found : \A j \in found : j <= i
<1>1. p \in Pipe /\ Len(issued[p]) \in Nat
  BY InstrAssumption DEF Instruction, TypeOK
<1>2. CASE ~CheckSync
  BY <1>2 DEF LeaveMarker
<1>3. CASE CheckSync /\ found # {}
  <2>1. found \in SUBSET Nat /\ \A i \in found : i <= Len(issued[p])
    BY <1>1, CandidateFacts
  <2>2. \E i \in found : \A j \in found : j <= i
    <3> HIDE DEF found
    <3> QED BY <1>1, <1>3, <2>1, GreatestNatural
  <2>3. last \in found
    BY <2>2
  <2>4. issued' = [issued EXCEPT ![p][last] = Widened(@, ins)] /\ capWarned' = capWarned
    BY <1>3 DEF LeaveMarker
  <2> HIDE DEF last
  <2>5. last \in Candidates(ins) /\ base < last
    BY <2>1, <2>3
  <2> QED BY <1>3, <2>4, <2>5
<1>4. CASE CheckSync /\ found = {} /\ Len(issued[p]) - base >= MaxMarkers
  BY <1>4 DEF LeaveMarker
<1>5. CASE CheckSync /\ found = {} /\ ~(Len(issued[p]) - base >= MaxMarkers)
  <2>1. issued' = [issued EXCEPT ![p] = Append(@, Marker(ins))] /\ capWarned' = capWarned
    BY <1>5 DEF LeaveMarker
  <2> QED BY <1>1, <1>5, <2>1, MarkerIsEntry, AppendPushes
<1> QED BY <1>2, <1>3, <1>4, <1>5

(* The effects of the log stay where they are when it does not change,     *)
LEMMA UnchangedStays ==
  ASSUME TypeOK, issued' = issued
  PROVE  EffectsStay
BY DEF TypeOK, EffectsStay

(* when a token or a marker is pushed,                                     *)
LEMMA PushedStays ==
  ASSUME TypeOK, NEW q \in Pipe, NEW e, Pushed(q, e), e.kind # "effect"
  PROVE  EffectsStay
<1> SUFFICES ASSUME NEW p \in Pipe
             PROVE  /\ Len(issued'[p]) \in Nat /\ Len(issued[p]) <= Len(issued'[p])
                    /\ \A i \in 1 .. Len(issued[p]) :
                         /\ issued'[p][i].kind = issued[p][i].kind
                         /\ issued[p][i].kind = "effect" => issued'[p][i] = issued[p][i]
                    /\ \A i \in 1 .. Len(issued'[p]) :
                         Len(issued[p]) < i => issued'[p][i].kind # "effect"
  BY DEF EffectsStay
<1>1. Len(issued[p]) \in Nat
  BY DEF TypeOK
<1>2. CASE p # q
  BY <1>1, <1>2 DEF Pushed
<1>3. CASE p = q
  BY <1>1, <1>3 DEF Pushed
<1> QED BY <1>2, <1>3

(* and when a token or a marker is replaced where it stands.               *)
LEMMA ReplacedStays ==
  ASSUME TypeOK, NEW q \in Pipe, NEW i \in 1 .. Len(issued[q]), NEW e, Replaced(q, i, e),
         e.kind = issued[q][i].kind, e.kind # "effect"
  PROVE  EffectsStay
<1> SUFFICES ASSUME NEW p \in Pipe
             PROVE  /\ Len(issued'[p]) \in Nat /\ Len(issued[p]) <= Len(issued'[p])
                    /\ \A j \in 1 .. Len(issued[p]) :
                         /\ issued'[p][j].kind = issued[p][j].kind
                         /\ issued[p][j].kind = "effect" => issued'[p][j] = issued[p][j]
                    /\ \A j \in 1 .. Len(issued'[p]) :
                         Len(issued[p]) < j => issued'[p][j].kind # "effect"
  BY DEF EffectsStay
<1>1. Len(issued[p]) \in Nat
  BY DEF TypeOK
<1>2. CASE p # q
  BY <1>1, <1>2 DEF Replaced
<1>3. CASE p = q
  BY <1>1, <1>3 DEF Replaced
<1> QED BY <1>2, <1>3

(* Leaving a marker, or widening one, changes no effect.                   *)
LEMMA LeaveMarkerStays ==
  ASSUME TypeOK, NEW ins \in Instr, NEW base \in Nat, LeaveMarker(ins, base)
  PROVE  EffectsStay
<1>1. ins.pipe \in Pipe /\ Marker(ins).kind # "effect"
  BY InstrAssumption DEF Instruction, Marker
<1>2. ASSUME NEW i \in Candidates(ins),
             issued' = [issued EXCEPT ![ins.pipe][i] = Widened(@, ins)]
      PROVE  EffectsStay
  <2> DEFINE w == Widened(issued[ins.pipe][i], ins)
  <2>1. Replaced(ins.pipe, i, w) /\ w.kind = "marker"
    BY <1>2, WidenReplaces
  <2>2. i \in 1 .. Len(issued[ins.pipe]) /\ issued[ins.pipe][i].kind = "marker"
    BY CandidateFacts
  <2> HIDE DEF w
  <2> QED BY <1>1, <2>1, <2>2, ReplacedStays
<1> QED BY <1>1, <1>2, LeaveMarkerCases, UnchangedStays, PushedStays

-----------------------------------------------------------------------------
(* The same writers, with the same entries, lead to the same value.        *)
LEMMA SameWriters ==
  ASSUME NEW X, NEW Y, NEW b, NEW p, NEW n \in Nat,
         WritersIn(issued', Y, b) = WritersIn(issued, X, b),
         OnePipe(WritersIn(issued, X, b), p, n),
         \A x \in WritersIn(issued, X, b) : EntryOf(issued', x) = EntryOf(issued, x),
         mem'[b] = mem[b]
  PROVE  LandedOn(issued', mem', Y, b) = Landed(X, b)
<1> DEFINE W == WritersIn(issued, X, b)
<1>1. CASE W = {}
  BY <1>1, LandedIsLandedOn DEF LandedOn
<1>2. CASE W # {}
  <2> HIDE DEF W
  <2>1. LastOf(W) \in W
    BY <1>2, LastExists DEF W
  <2>2. EntryOf(issued', LastOf(W)) = EntryOf(issued, LastOf(W))
    BY <2>1 DEF W
  <2> QED BY <1>2, <2>2, LandedIsLandedOn DEF LandedOn, W
<1> QED BY <1>1, <1>2

(* A drain that pops nothing leaves memory alone.                          *)
LEMMA NothingDrained ==
  ASSUME TypeOK
  PROVE  /\ DrainTo(retired)
         /\ \A b \in Byte : DrainedMem(retired)[b] = mem[b]
<1>1. Popped(retired) = {}
  BY DEF Popped, TypeOK
<1> QED BY <1>1, StayIsDrain DEF DrainedMem, Landed

(* Of a step that only drains, and perhaps pushes a token, nothing can     *)
(* disturb the order.                                                      *)
LEMMA DrainStep ==
  ASSUME OrderInv, EffectsStay, NEW upto, DrainTo(upto), retired' = upto,
         \A b \in Byte : mem'[b] = DrainedMem(upto)[b], prog' = prog, missing' = missing,
         stale' => stale \/ ReadsStale(upto)
  PROVE  OfItsPipe' /\ (CheckSync /\ missing = {} => Orderly)'
<1>1. Waiting' \subseteq Waiting /\ \A x \in Waiting : At(x)' = At(x)
  BY WaitingAfter DEF OrderInv, Beyond
<1>2. OfItsPipe'
  BY <1>1 DEF OrderInv, OfItsPipe
<1>3. ASSUME CheckSync, missing' = {} PROVE Orderly'
  <2>1. TypeOK /\ NoOvertaking /\ LeadsToProg /\ FindsExpected /\ ~stale
    BY <1>3 DEF OrderInv, Orderly
  <2>2. NoOvertaking' /\ LeadsToProg' /\ FindsExpected'
    <3> SUFFICES ASSUME NEW B, B = {}, NEW v
                 PROVE  NoOvertaking' /\ LeadsToProg' /\ FindsExpected'
      OBVIOUS
    <3>1. \A b \in Byte : mem'[b] = IF b \in B THEN v ELSE DrainedMem(upto)[b]
      OBVIOUS
    <3>2. \A b \in Byte : prog'[b] = IF b \in B THEN v ELSE prog[b]
      OBVIOUS
    <3>3. \A x \in Beyond(Waiting, upto) : \A b \in B : ~WritesAt(x, b) /\ ~ReadsAt(x, b)
      OBVIOUS
    <3> QED BY <2>1, <3>1, <3>2, <3>3, RestIsOrderly
  <2>3. ~stale'
    BY <2>1, DrainReadsFresh
  <2> QED BY <2>2, <2>3 DEF Orderly
<1> QED BY <1>2, <1>3

(* With nothing queued, before and after, only memory matters.             *)
LEMMA QuietStep ==
  ASSUME TypeOK, InOrderIsQuiet, [Next]_vars, inOrder, inOrder'
  PROVE  /\ InQueues = {} /\ InQueues' = {}
         /\ LeadsToProg => \A b \in Byte : mem[b] = prog[b]
         /\ (\A b \in Byte : mem'[b] = prog'[b]) /\ ~stale' => Orderly'
         /\ OfItsPipe'
<1>1. TypeOK' /\ InOrderIsQuiet'
  BY NextType, NextQuiet
<1>2. InQueues = {} /\ Waiting = {}
  BY DEF TypeOK, InOrderIsQuiet, InQueues, InFlight, Waiting
<1>3. InQueues' = {} /\ Waiting' = {}
  BY <1>1 DEF TypeOK, InOrderIsQuiet, InQueues, InFlight, Waiting
<1>4. LeadsToProg => \A b \in Byte : mem[b] = prog[b]
  BY <1>2 DEF LeadsToProg, Landed
<1>5. ASSUME \A b \in Byte : mem'[b] = prog'[b], ~stale' PROVE Orderly'
  <2>1. \A b \in Byte : Landed(Waiting, b)' = mem'[b]
    BY <1>3 DEF Landed
  <2> QED BY <1>3, <1>5, <2>1 DEF Orderly, NoOvertaking, LeadsToProg, FindsExpected
<1>6. OfItsPipe'
  BY <1>3 DEF OfItsPipe
<1> QED BY <1>2, <1>3, <1>4, <1>5, <1>6

(* Effects that join the queues, at places N behind all that waits on      *)
(* their pipes, once the queues have been drained.                         *)
Joining(N, upto) ==
  /\ Waiting' = Beyond(Waiting, upto) \cup N
  /\ \A x \in Waiting : At(x)' = At(x)
  /\ \A z \in N : /\ z \in Nat \X Nat
                  /\ \A x \in Waiting : x[1] = z[1] => x[2] < z[2]
                  /\ \A y \in N : y[1] = z[1] => y = z

(* What joins that way, as one operation v of the program, keeps the       *)
(* queues orderly.                                                         *)
LEMMA JoinStep ==
  ASSUME TypeOK, NoOvertaking, LeadsToProg, FindsExpected,
         NEW upto, DrainTo(upto), NEW N, Joining(N, upto), NEW v,
         \A z, x \in Waiting' : z \in N /\ z[1] # x[1] =>
           \A b \in Byte : /\ WritesAt(z, b)' => ~WritesAt(x, b)' /\ ~ReadsAt(x, b)'
                           /\ ReadsAt(z, b)' => ~WritesAt(x, b)',
         \A b \in Byte : mem'[b] = DrainedMem(upto)[b],
         \A b \in Byte : prog'[b] = IF \E z \in N : WritesAt(z, b)' THEN v ELSE prog[b],
         \A z \in N : /\ At(z)'.id = v
                      /\ \A b \in Byte : ReadsAt(z, b)' => At(z)'.expect[b] = prog[b]
  PROVE  NoOvertaking' /\ LeadsToProg' /\ FindsExpected'
<1> DEFINE R == Beyond(Waiting, upto)
<1>1. Waiting' = R \cup N /\ R \subseteq Waiting
  BY DEF Joining, Beyond
<1>2. \A x \in Waiting : At(x)' = At(x) /\ EntryOf(issued', x) = EntryOf(issued, x)
  BY DEF Joining, EntryOf, At
<1>3. \A x \in Waiting : x \in Nat \X Nat
  BY QueuedFacts DEF Waiting
<1>4. ASSUME NEW z \in N, NEW x \in R PROVE x[1] = z[1] => x[2] < z[2]
  BY <1>1 DEF Joining
<1>5. \A x \in Waiting : \A b : /\ WritesAt(x, b)' <=> WritesAt(x, b)
                                /\ ReadsAt(x, b)' <=> ReadsAt(x, b)
  BY <1>2 DEF WritesAt, ReadsAt
<1>6. NoOvertaking'
  <2> SUFFICES ASSUME NEW x \in Waiting', NEW y \in Waiting', x[1] # y[1],
                      NEW b \in Byte, WritesAt(x, b)'
               PROVE  ~WritesAt(y, b)' /\ ~ReadsAt(y, b)'
    BY DEF NoOvertaking
  <2>1. CASE x \in N
    BY <2>1
  <2>2. CASE y \in N
    BY <2>2
  <2>3. CASE x \in R /\ y \in R
    BY <1>1, <1>5, <2>3 DEF NoOvertaking
  <2> QED BY <1>1, <2>1, <2>2, <2>3
<1>7. \A x, b : x \in WritersIn(issued', Waiting', b) <=> x \in Waiting' /\ WritesAt(x, b)'
  BY DEF WritersIn, WritesAt, EntryOf, At, Waiting
<1>8. ASSUME NEW b \in Byte PROVE LandedOn(issued', mem', R, b) = prog[b]
  <2>1. PICK p \in Pipe : OnePipe(WritersIn(issued, Waiting, b), p, Len(issued[p]))
    BY WritersOfWaiting
  <2>2. WritersIn(issued, Popped(upto), b) \subseteq Waiting
    BY PoppedWaiting DEF WritersIn, Waiting, EntryOf, At
  <2>3. LandedOn(issued', mem', R, b) = Landed(Waiting, b)
    BY <1>2, <2>1, <2>2, DrainLands
  <2> QED BY <2>3 DEF LeadsToProg
<1>9. ASSUME NEW b, NEW X \in SUBSET Waiting', NEW Y \in SUBSET R,
             \A x \in X : WritesAt(x, b)' => x \in Y, \A x \in Y : WritesAt(x, b)' => x \in X
      PROVE  LandedOn(issued', mem', X, b) = LandedOn(issued', mem', Y, b)
  <2>1. WritersIn(issued', X, b) = WritersIn(issued', Y, b)
    BY <1>9 DEF WritersIn, WritesAt, EntryOf, At
  <2> QED BY <2>1 DEF LandedOn
<1>10. ASSUME NEW b \in Byte PROVE LandedOn(issued', mem', Waiting', b) = prog'[b]
  <2>1. CASE \A z \in N : ~WritesAt(z, b)'
    <3>1. LandedOn(issued', mem', Waiting', b) = LandedOn(issued', mem', R, b)
      <4> DEFINE X == Waiting'
      <4>1. X \in SUBSET Waiting' /\ X = R \cup N /\ R \in SUBSET R
        BY <1>1
      <4> HIDE DEF X, R
      <4>2. /\ \A x \in X : WritesAt(x, b)' => x \in R
            /\ \A x \in R : WritesAt(x, b)' => x \in X
        BY <2>1, <4>1
      <4>3. LandedOn(issued', mem', X, b) = LandedOn(issued', mem', R, b)
        BY <1>9, <4>1, <4>2
      <4> QED BY <4>3 DEF X
    <3> QED BY <1>8, <2>1, <3>1
  <2>2. ASSUME NEW z \in N, WritesAt(z, b)' PROVE LandedOn(issued', mem', Waiting', b) = prog'[b]
    <3> DEFINE W == WritersIn(issued', Waiting', b)
    <3>1. z \in W /\ z \in Waiting' /\ z \in Nat \X Nat
      BY <1>1, <1>7, <2>2 DEF Joining
    <3>2. ASSUME NEW y \in W PROVE y[1] = z[1] /\ y[2] <= z[2] /\ y \in Nat \X Nat
      <4>1. y \in Waiting' /\ WritesAt(y, b)'
        BY <1>7
      <4>2. y[1] = z[1]
        BY <2>2, <3>1, <4>1
      <4>3. CASE y \in N
        BY <3>1, <4>2, <4>3 DEF Joining
      <4>4. CASE y \in R
        <5>1. y[2] < z[2] /\ y \in Nat \X Nat
          BY <1>1, <1>3, <1>4, <4>2, <4>4
        <5> QED BY <3>1, <4>2, <5>1
      <4> QED BY <1>1, <4>1, <4>3, <4>4
    <3> HIDE DEF W
    <3>3. LastOf(W) = z
      <4>1. OnePipe(W, z[1], z[2])
        BY <3>2 DEF OnePipe
      <4> QED BY <3>1, <3>2, <4>1, LastIs
    <3>4. LandedOn(issued', mem', Waiting', b) = EntryOf(issued', z).id
      BY <3>1, <3>3 DEF LandedOn, W
    <3>5. EntryOf(issued', z).id = v
      BY DEF EntryOf, At
    <3> QED BY <2>2, <3>4, <3>5
  <2> QED BY <2>1, <2>2
<1>11. LeadsToProg'
  <2> SUFFICES ASSUME NEW b \in Byte PROVE prog'[b] = Landed(Waiting, b)'
    BY DEF LeadsToProg
  <2>1. Landed(Waiting, b)' = LandedOn(issued', mem', Waiting', b)
    BY DEF Landed, LandedOn, WritersIn, EntryOf, LastOf, At
  <2> QED BY <1>10, <2>1
<1>12. ASSUME NEW x \in R, NEW b \in Byte, ReadsAt(x, b)'
       PROVE  At(x)'.expect[b] = Landed(Ahead(x), b)'
  <2>1. x \in Waiting /\ x \in Waiting' /\ ReadsAt(x, b) /\ upto[x[1]] < x[2]
    BY <1>1, <1>5, <1>12 DEF Beyond
  <2>2. Ahead(x) \in SUBSET Waiting /\ x[1] \in Pipe
    BY <2>1, QueuedFacts DEF Ahead, Waiting
  <2>3. OnePipe(WritersIn(issued, Ahead(x), b), x[1], Len(issued[x[1]]))
    BY <2>1, <2>2, WritersOnOnePipe
  <2>4. WritersIn(issued, Popped(upto), b) \subseteq Ahead(x)
    BY <2>1, PoppedWritersAhead
  <2>5. LandedOn(issued', mem', Beyond(Ahead(x), upto), b) = Landed(Ahead(x), b)
    BY <1>2, <2>2, <2>3, <2>4, DrainLands
  <2>6. Beyond(Ahead(x), upto) \in SUBSET R
    BY <2>2 DEF Beyond
  <2>7. ASSUME NEW y \in Ahead(x)', WritesAt(y, b)' PROVE y \in Beyond(Ahead(x), upto)
    <3>1. y \in Waiting' /\ PoppedBefore(y, x)
      BY DEF Ahead, PoppedBefore
    <3>2. y \notin N
      <4> SUFFICES ASSUME y \in N PROVE FALSE
        OBVIOUS
      <4>1. y[1] = x[1]
        BY <1>12, <2>1, <2>7, <3>1
      <4>2. x[2] < y[2] /\ y \in Nat \X Nat /\ x \in Nat \X Nat
        BY <1>3, <2>1, <4>1 DEF Joining
      <4> QED BY <3>1, <4>1, <4>2 DEF PoppedBefore
    <3>3. y \in R
      BY <1>1, <3>1, <3>2
    <3> QED BY <3>1, <3>3 DEF Beyond, Ahead
  <2>8. ASSUME NEW y \in Beyond(Ahead(x), upto) PROVE y \in Ahead(x)'
    <3>1. y \in R /\ PoppedBefore(y, x)
      BY DEF Beyond, Ahead
    <3> QED BY <1>1, <3>1 DEF Ahead, PoppedBefore
  <2>9. LandedOn(issued', mem', Ahead(x)', b) = LandedOn(issued', mem', Beyond(Ahead(x), upto), b)
    <3> DEFINE X == Ahead(x)'
               Y == Beyond(Ahead(x), upto)
    <3>1. X \in SUBSET Waiting'
      BY DEF Ahead
    <3>2. /\ \A y \in X : WritesAt(y, b)' => y \in Y
          /\ \A y \in Y : WritesAt(y, b)' => y \in X
      BY <2>7, <2>8
    <3> HIDE DEF X, Y
    <3>3. LandedOn(issued', mem', X, b) = LandedOn(issued', mem', Y, b)
      BY <1>9, <2>6, <3>1, <3>2 DEF Y
    <3> QED BY <3>3 DEF X, Y
  <2>10. Landed(Ahead(x), b)' = LandedOn(issued', mem', Ahead(x)', b)
    BY DEF Landed, LandedOn, WritersIn, EntryOf, LastOf, At
  <2>11. At(x)'.expect[b] = Landed(Ahead(x), b)
    BY <1>2, <2>1 DEF FindsExpected
  <2> QED BY <2>5, <2>9, <2>10, <2>11
<1>13. ASSUME NEW z \in N, NEW b \in Byte, ReadsAt(z, b)'
       PROVE  At(z)'.expect[b] = Landed(Ahead(z), b)'
  <2>1. z \in Waiting' /\ z \in Nat \X Nat /\ At(z)'.expect[b] = prog[b]
    BY <1>1, <1>13 DEF Joining
  <2>2. ASSUME NEW y \in Waiting', WritesAt(y, b)' PROVE y[1] = z[1]
    BY <1>13, <2>1, <2>2
  <2>3. ASSUME NEW y \in Ahead(z)', WritesAt(y, b)' PROVE y \in R
    <3>1. y \in Waiting' /\ PoppedBefore(y, z)
      BY DEF Ahead, PoppedBefore
    <3>2. y # z
      BY <2>1, <3>1 DEF PoppedBefore
    <3>3. y[1] = z[1]
      BY <2>2, <2>3, <3>1
    <3>4. y \notin N
      BY <3>2, <3>3 DEF Joining
    <3> QED BY <1>1, <3>1, <3>4
  <2>4. ASSUME NEW y \in R, WritesAt(y, b)' PROVE y \in Ahead(z)'
    <3>1. y \in Waiting' /\ y \in Waiting
      BY <1>1
    <3>2. y[1] = z[1]
      BY <2>2, <2>4, <3>1
    <3>3. PoppedBefore(y, z)
      BY <1>4, <3>2 DEF PoppedBefore
    <3> QED BY <3>1, <3>3 DEF Ahead, PoppedBefore
  <2>5. LandedOn(issued', mem', Ahead(z)', b) = LandedOn(issued', mem', R, b)
    <3> DEFINE X == Ahead(z)'
    <3>1. X \in SUBSET Waiting' /\ R \in SUBSET R
      BY DEF Ahead
    <3>2. /\ \A y \in X : WritesAt(y, b)' => y \in R
          /\ \A y \in R : WritesAt(y, b)' => y \in X
      BY <2>3, <2>4
    <3> HIDE DEF X, R
    <3>3. LandedOn(issued', mem', X, b) = LandedOn(issued', mem', R, b)
      BY <1>9, <3>1, <3>2
    <3> QED BY <3>3 DEF X
  <2>6. Landed(Ahead(z), b)' = LandedOn(issued', mem', Ahead(z)', b)
    BY DEF Landed, LandedOn, WritersIn, EntryOf, LastOf, At
  <2> QED BY <1>8, <2>1, <2>5, <2>6
<1>14. FindsExpected'
  <2> SUFFICES ASSUME NEW x \in Waiting', NEW b \in Byte, ReadsAt(x, b)'
               PROVE  At(x)'.expect[b] = Landed(Ahead(x), b)'
    BY DEF FindsExpected
  <2> QED BY <1>1, <1>12, <1>13
<1> QED BY <1>6, <1>11, <1>14

(* A deferred operation that checkPipeHazards lets by joins the queues.    *)
LEMMA DeferredStep ==
  ASSUME OrderInv, NEW ins \in Instr, IssueDeferred(ins)
  PROVE  OfItsPipe' /\ (CheckSync /\ missing = {} => Orderly)'
<1> SUFFICES ASSUME NEW n, n = Len(issued[ins.pipe]) + 1
             PROVE  OfItsPipe' /\ (CheckSync /\ missing = {} => Orderly)'
  OBVIOUS
<1> DEFINE q == ins.pipe
           z == <<q, n>>
           e == [kind |-> "effect", op |-> ins.op, reads |-> ins.reads,
                 writes |-> ins.writes, raw |-> ins.raw, id |-> count + 1,
                 expect |-> [b \in Byte |-> IF b \in Bytes(ins.reads) THEN prog[b] ELSE 0]]
<1>1. TypeOK /\ OfItsPipe
  BY DEF OrderInv
<1>2. q \in Pipe /\ Len(issued[q]) \in Nat /\ retired[q] \in Nat /\ retired[q] <= Len(issued[q])
  BY <1>1, InstrAssumption DEF Instruction, TypeOK
<1>3. e \in Entry
  <2>1. ins \in Instruction /\ prog \in [Byte -> Nat] /\ count + 1 \in Nat
    BY <1>1, InstrAssumption DEF TypeOK
  <2>2. e.expect \in [Byte -> Nat]
    BY <2>1
  <2> QED BY <2>1, <2>2 DEF Entry, Instruction
<1>4. /\ issued' = [issued EXCEPT ![q] = Append(@, e)] /\ CheckHazards(ins)
      /\ prog' = Written(prog, ins) /\ ins.how = "deferred"
      /\ retired' = retired /\ mem' = mem /\ stale' = stale
  BY DEF IssueDeferred
<1>5. e.kind = "effect" /\ e.id = count + 1 /\ e.reads = ins.reads /\ e.writes = ins.writes
  OBVIOUS
<1>6. e.op = ins.op /\ e.raw = ins.raw
      /\ \A b \in Byte : b \in Bytes(ins.reads) => e.expect[b] = prog[b]
  OBVIOUS
<1> HIDE DEF e
<1>7. Pushed(q, e)
  BY <1>1, <1>2, <1>3, <1>4, AppendPushes
<1>8. ASSUME NEW x \in Waiting
      PROVE  /\ At(x)' = At(x) /\ x \in Waiting' /\ retired[x[1]] < x[2]
             /\ (x[1] = q => x[2] < n) /\ x \in Nat \X Nat
  <2>1. x \in InQueues /\ At(x).kind = "effect"
    BY DEF Waiting
  <2>2. /\ x = <<x[1], x[2]>> /\ x[1] \in Pipe /\ x[2] \in Nat /\ x[1] \in Nat
        /\ x[2] \in InFlight(x[1]) /\ x[2] \in 1 .. Len(issued[x[1]])
        /\ retired[x[1]] < x[2]
    BY <1>1, <2>1, QueuedFacts
  <2>3. Len(issued[x[1]]) \in Nat
    BY <1>1, <2>2 DEF TypeOK
  <2>4. x[1] = q => x[2] < n
    BY <1>2, <2>2, <2>3
  <2>5. At(x)' = At(x)
    BY <1>7, <2>2 DEF At, Pushed
  <2>6. x[2] \in InFlight(x[1])'
    BY <1>4, <1>7, <2>2, <2>3 DEF InFlight, Pushed
  <2>7. x \in Waiting'
    BY <2>1, <2>2, <2>5, <2>6 DEF Waiting, InQueues
  <2> QED BY <2>2, <2>4, <2>5, <2>7
<1>9. z \in Waiting' /\ At(z)' = e /\ z \in Nat \X Nat
  <2>1. At(z)' = e
    BY <1>2, <1>7 DEF At, Pushed
  <2>2. n \in InFlight(q)' /\ n \in Nat /\ q \in Nat
    BY <1>2, <1>4, <1>7, PipeAssumption DEF InFlight, Pushed, Pipe
  <2> QED BY <1>2, <1>5, <2>1, <2>2 DEF Waiting, InQueues
<1>10. ASSUME NEW x \in Waiting' PROVE x \in Waiting \/ x = z
  <2>1. /\ x = <<x[1], x[2]>> /\ x[1] \in Pipe
        /\ x[2] \in (retired[x[1]] + 1) .. Len(issued'[x[1]]) /\ At(x)'.kind = "effect"
    BY <1>4 DEF Waiting, InQueues, InFlight
  <2>2. /\ retired[x[1]] \in Nat /\ Len(issued[x[1]]) \in Nat
    BY <1>1, <2>1 DEF TypeOK
  <2>3. CASE x[1] = q /\ x[2] = n
    BY <2>1, <2>3
  <2>4. CASE ~(x[1] = q /\ x[2] = n)
    <3>1. x[2] \in (retired[x[1]] + 1) .. Len(issued[x[1]])
      BY <1>2, <1>7, <2>1, <2>2, <2>4 DEF Pushed
    <3>2. At(x)' = At(x)
      BY <1>7, <2>1, <2>2, <3>1 DEF At, Pushed
    <3> QED BY <2>1, <3>1, <3>2 DEF Waiting, InQueues, InFlight
  <2> QED BY <2>3, <2>4
<1>11. OfItsPipe'
  <2> SUFFICES ASSUME NEW x \in Waiting'
               PROVE  /\ x[1] # PipeS /\ ~At(x)'.raw
                      /\ \A j \in Instr : At(x)'.op = j.op => j.pipe = x[1]
    BY DEF OfItsPipe
  <2>1. CASE x \in Waiting
    BY <1>1, <1>8, <2>1 DEF OfItsPipe
  <2>2. CASE x = z
    <3>1. q # PipeS /\ ~ins.raw /\ \A j \in Instr : ins.op = j.op => j.pipe = q
      BY <1>4, InstrAssumption
    <3> QED BY <1>6, <1>9, <2>2, <3>1
  <2> QED BY <1>10, <2>1, <2>2
<1>12. ASSUME CheckSync, missing' = {} PROVE Orderly'
  <2>1. missing = {}
    BY <1>4, <1>12 DEF CheckHazards, Reported
  <2>2. NoOvertaking /\ LeadsToProg /\ FindsExpected /\ ~stale
    BY <1>12, <2>1 DEF OrderInv, Orderly
  <2>3. ASSUME NEW x \in Waiting, x[1] # q, NEW b
        PROVE  /\ WritesAt(x, b) => b \notin Bytes(ins.writes) /\ b \notin Bytes(ins.reads)
               /\ ReadsAt(x, b) => b \notin Bytes(ins.writes)
    BY <1>1, <1>4, <1>12, <2>3, NothingToReport
  <2>4. \A b : /\ WritesAt(z, b)' <=> b \in Bytes(ins.writes)
               /\ ReadsAt(z, b)' <=> b \in Bytes(ins.reads)
    BY <1>5, <1>9 DEF WritesAt, ReadsAt
  <2>5. \A x \in Waiting : \A b : /\ WritesAt(x, b)' <=> WritesAt(x, b)
                                  /\ ReadsAt(x, b)' <=> ReadsAt(x, b)
    BY <1>8 DEF WritesAt, ReadsAt
  <2> DEFINE N == {z}
  <2>6. Joining(N, retired)
    <3>1. Waiting' = Beyond(Waiting, retired) \cup N
      BY <1>8, <1>9, <1>10 DEF Beyond
    <3> QED BY <1>8, <1>9, <3>1 DEF Joining
  <2>7. ASSUME NEW y \in N, NEW x \in Waiting', y[1] # x[1], NEW b \in Byte
        PROVE  /\ WritesAt(y, b)' => ~WritesAt(x, b)' /\ ~ReadsAt(x, b)'
               /\ ReadsAt(y, b)' => ~WritesAt(x, b)'
    BY <1>10, <2>3, <2>4, <2>5, <2>7
  <2>8. DrainTo(retired) /\ \A b \in Byte : mem'[b] = DrainedMem(retired)[b]
    BY <1>1, <1>4, NothingDrained
  <2>9. \A b \in Byte : prog'[b] = IF \E y \in N : WritesAt(y, b)' THEN count + 1 ELSE prog[b]
    BY <1>4, <2>4 DEF Written
  <2>10. \A y \in N : /\ At(y)'.id = count + 1
                      /\ \A b \in Byte : ReadsAt(y, b)' => At(y)'.expect[b] = prog[b]
    BY <1>5, <1>6, <1>9, <2>4
  <2>11. NoOvertaking' /\ LeadsToProg' /\ FindsExpected'
    <3> SUFFICES ASSUME NEW upto, upto = retired, NEW v, v = count + 1
                 PROVE  NoOvertaking' /\ LeadsToProg' /\ FindsExpected'
      OBVIOUS
    <3> HIDE DEF N
    <3> QED BY <1>1, <2>2, <2>6, <2>7, <2>8, <2>9, <2>10, JoinStep
  <2> QED BY <1>4, <2>2, <2>11 DEF Orderly
<1> QED BY <1>11, <1>12

(* An access that completes on the spot: what it reads and writes was on   *)
(* its own pipe, which is drained or carries no effect, or conflicts with  *)
(* nothing that waits.                                                     *)
LEMMA NowStep ==
  ASSUME OrderInv, NEW ins \in Instr, IssueNow(ins)
  PROVE  OfItsPipe' /\ (CheckSync /\ missing = {} => Orderly)'
<1> SUFFICES ASSUME NEW upto, upto = UpToEnd(IF ins.how = "direct" THEN {ins.pipe} ELSE {})
             PROVE  OfItsPipe' /\ (CheckSync /\ missing = {} => Orderly)'
  OBVIOUS
<1>1. TypeOK /\ OfItsPipe /\ ins \in Instruction /\ ins.pipe \in Pipe
  BY InstrAssumption DEF OrderInv, Instruction
<1>2. DrainTo(upto)
  BY <1>1, UpToEndIsDrain
<1>3. /\ retired' = upto /\ CheckHazards(ins) /\ LeaveMarker(ins, upto[ins.pipe])
      /\ Complete(DrainedMem(upto), ins, stale \/ ReadsStale(upto))
      /\ prog' = Written(prog, ins)
  BY DEF IssueNow
<1>4. EffectsStay
  BY <1>1, <1>2, <1>3, LeaveMarkerStays DEF DrainTo
<1>5. Waiting' = Beyond(Waiting, upto) /\ \A x \in Waiting : At(x)' = At(x)
  BY <1>1, <1>2, <1>3, <1>4, WaitingAfter
<1>6. OfItsPipe'
  BY <1>1, <1>5 DEF OfItsPipe, Beyond
<1>7. ASSUME NEW x \in Beyond(Waiting, upto) PROVE x \in Waiting /\ x[1] # ins.pipe
  <2>1. x \in Waiting /\ upto[x[1]] < x[2] /\ x \in InQueues
    BY DEF Beyond, Waiting
  <2>2. x[1] \in Pipe /\ x[2] \in 1 .. Len(issued[x[1]]) /\ Len(issued[x[1]]) \in Nat
    BY <1>1, <2>1, QueuedFacts DEF TypeOK
  <2>3. CASE ins.how = "direct"
    <3>1. upto = [p \in Pipe |-> IF p \in {ins.pipe} THEN Len(issued[p]) ELSE retired[p]]
      BY <2>3 DEF UpToEnd
    <3>2. x[1] = ins.pipe => upto[x[1]] = Len(issued[x[1]])
      BY <2>2, <3>1
    <3> QED BY <2>1, <2>2, <3>2
  <2>4. CASE ins.how = "resident"
    <3>1. ins.pipe = PipeS
      BY <2>4, InstrAssumption
    <3>2. x[1] # PipeS
      BY <1>1, <2>1, InstrAssumption DEF OfItsPipe
    <3> QED BY <2>1, <3>1, <3>2
  <2>5. ins.how \in {"direct", "resident"}
    BY <1>1 DEF IssueNow, Instruction
  <2> QED BY <2>3, <2>4, <2>5
<1>8. ASSUME CheckSync, missing' = {} PROVE Orderly'
  <2>1. missing = {}
    BY <1>3, <1>8 DEF CheckHazards, Reported
  <2>2. NoOvertaking /\ LeadsToProg /\ FindsExpected /\ ~stale
    BY <1>8, <2>1 DEF OrderInv, Orderly
  <2>3. ASSUME NEW x \in Beyond(Waiting, upto), NEW b
        PROVE  /\ WritesAt(x, b) => b \notin Bytes(ins.writes) /\ b \notin Bytes(ins.reads)
               /\ ReadsAt(x, b) => b \notin Bytes(ins.writes)
    BY <1>1, <1>3, <1>7, <1>8, NothingToReport
  <2>4. /\ mem' = Written(DrainedMem(upto), ins)
        /\ stale' => stale \/ ReadsStale(upto)
                       \/ \E b \in Bytes(ins.reads) : DrainedMem(upto)[b] # prog[b]
    BY <1>3 DEF Complete
  <2>5. NoOvertaking' /\ LeadsToProg' /\ FindsExpected'
    <3> SUFFICES ASSUME NEW v, v = count + 1
                 PROVE  NoOvertaking' /\ LeadsToProg' /\ FindsExpected'
      OBVIOUS
    <3> DEFINE B == Bytes(ins.writes)
    <3>1. \A b \in Byte : mem'[b] = IF b \in B THEN v ELSE DrainedMem(upto)[b]
      BY <2>4 DEF Written
    <3>2. \A b \in Byte : prog'[b] = IF b \in B THEN v ELSE prog[b]
      BY <1>3 DEF Written
    <3>3. \A x \in Beyond(Waiting, upto) : \A b \in B : ~WritesAt(x, b) /\ ~ReadsAt(x, b)
      BY <2>3
    <3> HIDE DEF B
    <3> QED BY <1>1, <1>2, <1>3, <1>4, <2>2, <3>1, <3>2, <3>3, RestIsOrderly
  <2>6. ~ReadsStale(upto)
    BY <1>1, <1>2, <2>2, DrainReadsFresh
  <2>7. ASSUME NEW b \in Bytes(ins.reads) PROVE DrainedMem(upto)[b] = prog[b]
    <3>1. b \in Byte
      BY <1>1, BytesAreBytes DEF Instruction
    <3>2. \A x \in Beyond(Waiting, upto) : ~WritesAt(x, b)
      BY <2>3
    <3> QED BY <1>1, <1>2, <2>2, <3>1, <3>2, DrainedIsProg
  <2> QED BY <2>2, <2>4, <2>5, <2>6, <2>7 DEF Orderly
<1> QED BY <1>6, <1>8

(* In order an operation finds the memory of the program and leaves it.    *)
LEMMA InOrderStep ==
  ASSUME OrderInv, NEW ins \in Instr, IssueInOrder(ins)
  PROVE  OfItsPipe' /\ (CheckSync /\ missing = {} => Orderly)'
<1>1. TypeOK /\ InOrderIsQuiet /\ inOrder /\ inOrder' /\ missing' = missing /\ [Next]_vars
  BY DEF OrderInv, IssueInOrder, Issue, Next
<1>2. OfItsPipe'
  BY <1>1, QuietStep
<1>3. ASSUME CheckSync, missing' = {} PROVE Orderly'
  <2>1. LeadsToProg /\ ~stale
    BY <1>1, <1>3 DEF OrderInv, Orderly
  <2>2. \A b \in Byte : mem[b] = prog[b]
    BY <1>1, <2>1, QuietStep
  <2>3. \A b \in Byte : mem'[b] = prog'[b]
    BY <2>2 DEF IssueInOrder, Complete, Written
  <2>4. Bytes(ins.reads) \subseteq Byte
    BY InstrAssumption, BytesAreBytes DEF Instruction
  <2>5. ~stale'
    BY <2>1, <2>2, <2>4 DEF IssueInOrder, Complete
  <2> QED BY <1>1, <2>3, <2>5, QuietStep
<1> QED BY <1>2, <1>3

(* A token carries no data.                                                *)
LEMMA SetStep ==
  ASSUME OrderInv, NEW k \in Key, SetFlag(k)
  PROVE  OfItsPipe' /\ (CheckSync /\ missing = {} => Orderly)'
<1>1. TypeOK /\ InOrderIsQuiet /\ [Next]_vars
  BY DEF OrderInv, Next
<1>2. missing' = missing /\ mem' = mem /\ prog' = prog /\ stale' = stale /\ inOrder' = inOrder
  BY DEF SetFlag, Issue
<1>3. CASE inOrder
  <2>1. OfItsPipe'
    BY <1>1, <1>2, <1>3, QuietStep
  <2>2. ASSUME CheckSync, missing' = {} PROVE Orderly'
    <3>1. LeadsToProg /\ ~stale
      BY <1>2, <2>2 DEF OrderInv, Orderly
    <3>2. \A b \in Byte : mem[b] = prog[b]
      BY <1>1, <1>2, <1>3, <3>1, QuietStep
    <3> QED BY <1>1, <1>2, <1>3, <3>1, <3>2, QuietStep
  <2> QED BY <2>1, <2>2
<1>4. CASE ~inOrder
  <2> DEFINE e == [kind |-> "token", key |-> k]
  <2>1. k.set \in Pipe /\ e \in Entry /\ e.kind # "effect"
    BY KeyAssumption DEF Entry
  <2>2. issued' = [issued EXCEPT ![k.set] = Append(@, e)] /\ retired' = retired
    BY <1>4 DEF SetFlag
  <2> HIDE DEF e
  <2>3. EffectsStay
    BY <1>1, <2>1, <2>2, AppendPushes, PushedStays
  <2>4. DrainTo(retired) /\ \A b \in Byte : mem'[b] = DrainedMem(retired)[b]
    BY <1>1, <1>2, NothingDrained
  <2>5. ASSUME NEW upto, upto = retired
        PROVE  OfItsPipe' /\ (CheckSync /\ missing = {} => Orderly)'
    BY <1>2, <2>2, <2>3, <2>4, <2>5, DrainStep
  <2> QED BY <2>5
<1> QED BY <1>3, <1>4

(* A wait that drains, a barrier and the return are plain drains.          *)
LEMMA PlainDrainStep ==
  ASSUME OrderInv, NEW upto, DrainTo(upto), Drain(upto), UNCHANGED <<issued, prog, missing>>
  PROVE  OfItsPipe' /\ (CheckSync /\ missing = {} => Orderly)'
<1>1. EffectsStay
  BY UnchangedStays DEF OrderInv
<1>2. \A b \in Byte : mem'[b] = DrainedMem(upto)[b]
  BY DEF Drain
<1>3. retired' = upto /\ (stale' => stale \/ ReadsStale(upto))
  BY DEF Drain
<1> QED BY <1>1, <1>2, <1>3, DrainStep

(* A step that leaves queues and memory alone leaves their order alone.    *)
LEMMA IdleStep ==
  ASSUME OrderInv, UNCHANGED <<issued, retired, mem, prog, missing, stale>>
  PROVE  OfItsPipe' /\ (CheckSync /\ missing = {} => Orderly)'
<1>1. TypeOK /\ EffectsStay
  BY UnchangedStays DEF OrderInv
<1>2. DrainTo(retired) /\ \A b \in Byte : mem'[b] = DrainedMem(retired)[b]
  BY <1>1, NothingDrained
<1>3. ASSUME NEW upto, upto = retired
      PROVE  OfItsPipe' /\ (CheckSync /\ missing = {} => Orderly)'
  BY <1>1, <1>2, <1>3, DrainStep
<1> QED BY <1>3

(* Once the kernel has returned, nothing is queued any more.               *)
LEMMA NextDone ==
  ASSUME TypeOK, DoneIsEmpty, [Next]_vars
  PROVE  DoneIsEmpty'
<1>1. CASE Return
  <2>1. \A p \in Pipe : retired'[p] = Len(issued'[p]) /\ Len(issued'[p]) \in Nat
    BY <1>1 DEF Return, Drain, UpToEnd, TypeOK
  <2> QED BY <2>1 DEF DoneIsEmpty, InQueues, InFlight
<1>2. CASE UNCHANGED vars
  BY <1>2 DEF vars, DoneIsEmpty, InQueues, InFlight
<1>3. CASE status' # "Done"
  BY <1>3 DEF DoneIsEmpty
<1>4. Return \/ UNCHANGED vars \/ status' # "Done"
  BY DEF Next, IssueInOrder, IssueDeferred, IssueNow, SetFlag, Issue, WaitRaised,
         WaitDrains, WaitBlocks, PipeBarrier
<1> QED BY <1>1, <1>2, <1>3, <1>4

(* The order invariant is inductive: one case for each action of a core.   *)
LEMMA NextOrder ==
  ASSUME OrderInv, [Next]_vars
  PROVE  OrderInv'
<1> DEFINE Goal == OfItsPipe' /\ (CheckSync /\ missing = {} => Orderly)'
<1>1. TypeOK /\ TypeOK' /\ InOrderIsQuiet' /\ DoneIsEmpty'
  BY NextType, NextQuiet, NextDone DEF OrderInv
<1>2. ASSUME NEW ins \in Instr, IssueInOrder(ins) \/ IssueDeferred(ins) \/ IssueNow(ins)
      PROVE  Goal
  BY <1>2, InOrderStep, DeferredStep, NowStep
<1>3. ASSUME NEW k \in Key, SetFlag(k) PROVE Goal
  BY <1>3, SetStep
<1>4. ASSUME NEW k \in Key, WaitRaised(k) \/ WaitBlocks(k) PROVE Goal
  <2>1. UNCHANGED <<issued, retired, mem, prog, missing, stale>>
    BY <1>4 DEF WaitRaised, WaitBlocks
  <2> QED BY <2>1, IdleStep
<1>5. ASSUME NEW k \in Key, WaitDrains(k) PROVE Goal
  <2> SUFFICES ASSUME NEW upto, upto = UpToToken(k) PROVE Goal
    OBVIOUS
  <2>1. DrainTo(upto) /\ Drain(upto) /\ UNCHANGED <<issued, prog, missing>>
    BY <1>1, <1>5, UpToTokenIsDrain DEF WaitDrains
  <2> QED BY <2>1, PlainDrainStep
<1>6. ASSUME NEW P, PipeBarrier(P) PROVE Goal
  <2> SUFFICES ASSUME NEW upto, upto = UpToEnd(P) PROVE Goal
    OBVIOUS
  <2>1. DrainTo(upto) /\ Drain(upto) /\ UNCHANGED <<issued, prog, missing>>
    BY <1>1, <1>6, UpToEndIsDrain DEF PipeBarrier
  <2> QED BY <2>1, PlainDrainStep
<1>7. ASSUME Return PROVE Goal
  <2> SUFFICES ASSUME NEW upto, upto = UpToEnd(Pipe) PROVE Goal
    OBVIOUS
  <2>1. DrainTo(upto) /\ Drain(upto) /\ UNCHANGED <<issued, prog, missing>>
    BY <1>1, <1>7, UpToEndIsDrain DEF Return
  <2> QED BY <2>1, PlainDrainStep
<1>8. ASSUME UNCHANGED vars PROVE Goal
  <2>1. UNCHANGED <<issued, retired, mem, prog, missing, stale>>
    BY <1>8 DEF vars
  <2> QED BY <2>1, IdleStep
<1>9. Goal
  <2> HIDE DEF Goal
  <2>1. CASE Next
    BY <1>2, <1>3, <1>4, <1>5, <1>6, <1>7, <2>1 DEF Next
  <2> QED BY <1>8, <2>1
<1> QED BY <1>1, <1>9 DEF OrderInv

(* It holds of an empty engine, where nothing has written.                 *)
LEMMA InitOrder ==
  ASSUME Init
  PROVE  OrderInv
<1>1. TypeOK
  BY InitType
<1>2. InQueues = {} /\ Waiting = {}
  BY DEF Init, InQueues, Waiting, InFlight
<1>3. \A b \in Byte : prog[b] = Landed(Waiting, b)
  BY <1>2 DEF Init, Landed
<1>4. Orderly
  BY <1>2, <1>3 DEF Init, Orderly, NoOvertaking, LeadsToProg, FindsExpected
<1>5. InOrderIsQuiet
  BY DEF Init, InOrderIsQuiet
<1> QED BY <1>1, <1>2, <1>4, <1>5 DEF OrderInv, OfItsPipe, DoneIsEmpty

(* Orderly queues are what the property needs.                             *)
LEMMA OrderedIsSound ==
  ASSUME OrderInv
  PROVE  LazyMatchesProgramOrder
<1> SUFFICES ASSUME CheckSync, missing = {}
             PROVE  ~stale /\ (status = "Done" => mem = prog)
  BY DEF LazyMatchesProgramOrder
<1>1. TypeOK /\ LeadsToProg /\ ~stale /\ DoneIsEmpty
  BY DEF OrderInv, Orderly
<1>2. ASSUME status = "Done" PROVE mem = prog
  <2>1. Waiting = {}
    BY <1>1, <1>2 DEF DoneIsEmpty, Waiting
  <2>2. \A b \in Byte : prog[b] = mem[b]
    BY <1>1, <2>1 DEF LeadsToProg, Landed
  <2> QED BY <1>1, <2>2 DEF TypeOK
<1> QED BY <1>1, <1>2

(* No MISSING SYNC report means that the lazy commit order was right: each *)
(* effect read what the program order gave it, and when the kernel returns *)
(* memory holds what the program order leaves there.  For every number of  *)
(* pipes, every set of flags and operations and every program over them.   *)
THEOREM LazyOrderIsSound == Spec => []LazyMatchesProgramOrder
BY InitOrder, NextOrder, OrderedIsSound, PTL DEF Spec

-----------------------------------------------------------------------------
(* The second argument is about the markers.  A segment number only grows  *)
(* along a log, and steps up at a token; the accesses still owed are told  *)
(* apart from the retired ones by it, because a drain cuts a queue at a    *)
(* token or at its end.                                                    *)
LEMMA SegmentMonotone ==
  ASSUME NEW p, NEW i \in Nat, NEW j \in Nat, i <= j
  PROVE  /\ SegmentOf(p, i) \in Nat /\ SegmentOf(p, j) \in Nat
         /\ SegmentOf(p, i) <= SegmentOf(p, j)
         /\ i < j /\ issued[p][j].kind = "token" => SegmentOf(p, i) < SegmentOf(p, j)
         /\ (\A m \in (i + 1) .. j : issued[p][m].kind # "token")
              => SegmentOf(p, i) = SegmentOf(p, j)
<1> DEFINE S == {m \in 1 .. i : issued[p][m].kind = "token"}
           T == {m \in 1 .. j : issued[p][m].kind = "token"}
<1>1. SegmentOf(p, i) = Cardinality(S) /\ SegmentOf(p, j) = Cardinality(T)
  BY DEF SegmentOf
<1>2. IsFiniteSet(T)
  <2>1. IsFiniteSet(1 .. j)
    BY FS_Interval
  <2> QED BY <2>1, FS_Subset
<1>3. S \subseteq T
  OBVIOUS
<1>4. /\ Cardinality(S) \in Nat /\ Cardinality(T) \in Nat /\ Cardinality(S) <= Cardinality(T)
      /\ Cardinality(S) = Cardinality(T) => S = T
  <2> HIDE DEF S, T
  <2> QED BY <1>2, <1>3, FS_Subset, FS_CardinalityType
<1>5. ASSUME i < j, issued[p][j].kind = "token" PROVE S # T
  <2>1. j \in T /\ j \notin S
    BY <1>5
  <2> HIDE DEF S, T
  <2> QED BY <2>1
<1>6. ASSUME \A m \in (i + 1) .. j : issued[p][m].kind # "token" PROVE S = T
  BY <1>6
<1> HIDE DEF S, T
<1>7. i < j /\ issued[p][j].kind = "token" => Cardinality(S) < Cardinality(T)
  BY <1>4, <1>5
<1> QED BY <1>1, <1>4, <1>6, <1>7

(* Entries that keep their kind keep the segments they are in.             *)
LEMMA SegmentsStay ==
  ASSUME NEW p, NEW n \in Nat, \A j \in 1 .. n : issued'[p][j].kind = issued[p][j].kind,
         NEW i \in 0 .. n
  PROVE  SegmentOf(p, i)' = SegmentOf(p, i)
<1>1. {j \in 1 .. i : issued'[p][j].kind = "token"} = {j \in 1 .. i : issued[p][j].kind = "token"}
  OBVIOUS
<1> QED BY <1>1 DEF SegmentOf

Markers == {x \in InQueues : At(x).kind = "marker"}

OwedBy(x) == Owings(x[1], SegmentOf(x[1], x[2]), At(x))

(* What the markers beyond a drain owe                                     *)
Kept(upto) == UNION {OwedBy(x) : x \in Beyond(Markers, upto)}

(* What the markers owe, marker by marker.                                 *)
LEMMA OwingsAre == MarkerOwings = UNION {OwedBy(x) : x \in Markers}
BY DEF MarkerOwings, Markers, OwedBy, InQueues

(* An owing names the pipe and the segment of its marker.                  *)
LEMMA OwingFields ==
  ASSUME NEW p, NEW s, NEW e, NEW a \in Owings(p, s, e)
  PROVE  a.pipe = p /\ a.seg = s
BY DEF Owings, Owing

(* A drain cuts a queue at a token, at its end, or not at all.             *)
CutClean(upto) ==
  \A p \in Pipe : \/ upto[p] = retired[p]
                  \/ upto[p] = Len(issued[p])
                  \/ issued[p][upto[p]].kind = "token"

(* flushPipe drains to the end of its queues,                              *)
LEMMA UpToEndCutsClean ==
  ASSUME TypeOK, NEW P
  PROVE  CutClean(UpToEnd(P))
BY DEF CutClean, UpToEnd

(* and drainTo to the token of the flag it waits for.                      *)
LEMMA UpToTokenCutsClean ==
  ASSUME TypeOK, NEW k \in Key, HasToken(k)
  PROVE  CutClean(UpToToken(k))
<1>1. issued[k.set][UpToToken(k)[k.set]].kind = "token"
  BY UpToTokenIsDrain DEF IsToken
<1>2. \A p \in Pipe : p # k.set => UpToToken(k)[p] = retired[p]
  BY DEF UpToToken, UpToEnd
<1> QED BY <1>1, <1>2 DEF CutClean

(* StillOwed keeps exactly what the markers beyond the drain owe.          *)
LEMMA KeptExact ==
  ASSUME TypeOK, MarkersExact, NEW upto, DrainTo(upto), CutClean(upto)
  PROVE  /\ Kept(upto) \subseteq StillOwed(upto)
         /\ ~capWarned => StillOwed(upto) \subseteq Kept(upto)
<1>1. ASSUME NEW x \in Markers
      PROVE  /\ x[1] \in Pipe /\ x[2] \in Nat /\ upto[x[1]] \in Nat
             /\ Len(issued[x[1]]) \in Nat /\ x[2] <= Len(issued[x[1]])
             /\ upto[x[1]] <= Len(issued[x[1]]) /\ retired[x[1]] < x[2]
             /\ At(x).kind = "marker"
  <2>1. x \in InQueues /\ At(x).kind = "marker"
    BY DEF Markers
  <2>2. x[1] \in Pipe /\ x[2] \in 1 .. Len(issued[x[1]]) /\ x[2] \in Nat /\ retired[x[1]] < x[2]
    BY <2>1, QueuedFacts
  <2>3. /\ upto[x[1]] \in Nat /\ upto[x[1]] <= Len(issued[x[1]]) /\ Len(issued[x[1]]) \in Nat
    BY <2>2 DEF DrainTo, TypeOK
  <2> QED BY <2>1, <2>2, <2>3
<1>2. ASSUME NEW x \in Beyond(Markers, upto), NEW a \in OwedBy(x) PROVE a \in StillOwed(upto)
  <2>1. x \in Markers /\ upto[x[1]] < x[2]
    BY DEF Beyond
  <2>2. a \in owed
    BY <2>1, OwingsAre DEF MarkersExact
  <2>3. a.pipe = x[1] /\ a.seg = SegmentOf(x[1], x[2])
    BY OwingFields DEF OwedBy
  <2>4. upto[x[1]] < Len(issued[x[1]])
    BY <1>1, <2>1
  <2>5. SegmentOf(x[1], upto[x[1]]) <= SegmentOf(x[1], x[2])
    BY <1>1, <2>1, SegmentMonotone
  <2> QED BY <2>2, <2>3, <2>4, <2>5 DEF StillOwed
<1>3. ASSUME ~capWarned, NEW a \in StillOwed(upto) PROVE a \in Kept(upto)
  <2>1. /\ a \in owed /\ upto[a.pipe] < Len(issued[a.pipe])
        /\ SegmentOf(a.pipe, upto[a.pipe]) <= a.seg
    BY DEF StillOwed
  <2>2. PICK x \in Markers : a \in OwedBy(x)
    BY <1>3, <2>1, OwingsAre DEF MarkersExact
  <2>3. a.pipe = x[1] /\ a.seg = SegmentOf(x[1], x[2])
    BY <2>2, OwingFields DEF OwedBy
  <2>4. upto[x[1]] < x[2]
    <3> SUFFICES ASSUME x[2] <= upto[x[1]] PROVE FALSE
      BY <1>1
    <3>1. upto[x[1]] # retired[x[1]] /\ upto[x[1]] # Len(issued[x[1]])
      <4>1. retired[x[1]] \in Nat
        BY <1>1 DEF TypeOK
      <4> QED BY <1>1, <2>1, <2>3, <4>1
    <3>2. issued[x[1]][upto[x[1]]].kind = "token"
      BY <1>1, <3>1 DEF CutClean
    <3>3. x[2] # upto[x[1]]
      BY <1>1, <3>2 DEF At
    <3>4. x[2] < upto[x[1]]
      BY <1>1, <3>3
    <3>5. /\ SegmentOf(x[1], x[2]) < SegmentOf(x[1], upto[x[1]])
          /\ SegmentOf(x[1], x[2]) \in Nat /\ SegmentOf(x[1], upto[x[1]]) \in Nat
      BY <1>1, <3>2, <3>4, SegmentMonotone
    <3> QED BY <2>1, <2>3, <3>5
  <2> QED BY <2>2, <2>4 DEF Kept, Beyond
<1> QED BY <1>2, <1>3 DEF Kept

(* The ranges of an arena are finitely many, so an access with a sole      *)
(* range reads one range or writes one, and does nothing else.             *)
LEMMA ByteRangesFinite == IsFiniteSet(ByteRange)
<1> DEFINE H == 1 .. (MaxAddr + 1)
           f == [x \in Byte \X H |-> [lo |-> x[1], hi |-> x[2]]]
<1>1. IsFiniteSet(Byte) /\ IsFiniteSet(H)
  BY PipeAssumption, FS_Interval DEF Byte
<1>2. IsFiniteSet(Byte \X H)
  BY <1>1, FS_Product
<1>3. f \in Surjection(Byte \X H, ByteRange)
  <2>1. f \in [Byte \X H -> ByteRange]
    BY DEF ByteRange
  <2>2. ASSUME NEW r \in ByteRange PROVE \E x \in Byte \X H : f[x] = r
    <3>1. <<r.lo, r.hi>> \in Byte \X H /\ r = [lo |-> r.lo, hi |-> r.hi]
      BY DEF ByteRange
    <3>2. f[<<r.lo, r.hi>>] = r
      BY <3>1
    <3> QED BY <3>1, <3>2
  <2> QED BY <2>1, <2>2 DEF Surjection
<1> HIDE DEF f, H
<1> QED BY <1>2, <1>3, FS_Surjection

(* An access with a sole range either reads it or writes it.               *)
LEMMA SoleIsOne ==
  ASSUME NEW x, x.reads \in SUBSET ByteRange, x.writes \in SUBSET ByteRange, SoleRange(x)
  PROVE  \/ x.writes = {} /\ x.reads = {TheRange(x)}
         \/ x.reads = {} /\ x.writes = {TheRange(x)}
<1>1. IsFiniteSet(x.reads) /\ IsFiniteSet(x.writes)
  BY ByteRangesFinite, FS_Subset
<1>2. Cardinality(x.reads) \in Nat /\ Cardinality(x.writes) \in Nat
  BY <1>1, FS_CardinalityType
<1>3. \/ Cardinality(x.writes) = 0 /\ Cardinality(x.reads) = 1
      \/ Cardinality(x.reads) = 0 /\ Cardinality(x.writes) = 1
  BY <1>2 DEF SoleRange
<1>4. CASE Cardinality(x.writes) = 0 /\ Cardinality(x.reads) = 1
  <2>1. x.writes = {}
    BY <1>1, <1>4, FS_EmptySet
  <2>2. PICK r : x.reads = {r}
    BY <1>1, <1>4, FS_Singleton
  <2>3. TheRange(x) = r
    BY <2>1, <2>2 DEF TheRange
  <2> QED BY <2>1, <2>2, <2>3
<1>5. CASE Cardinality(x.reads) = 0 /\ Cardinality(x.writes) = 1
  <2>1. x.reads = {}
    BY <1>1, <1>5, FS_EmptySet
  <2>2. PICK r : x.writes = {r}
    BY <1>1, <1>5, FS_Singleton
  <2>3. TheRange(x) = r
    BY <2>1, <2>2 DEF TheRange
  <2> QED BY <2>1, <2>2, <2>3
<1> QED BY <1>3, <1>4, <1>5

(* The hull of two ranges that touch covers their bytes and no other.      *)
LEMMA HullIsUnion ==
  ASSUME NEW r \in ByteRange, NEW s \in ByteRange, Touches(r, s)
  PROVE  Bytes({Hull(s, r)}) = Bytes({s}) \cup Bytes({r})
<1>1. /\ r.lo \in Int /\ r.hi \in Int /\ s.lo \in Int /\ s.hi \in Int
      /\ r.lo <= s.hi /\ s.lo <= r.hi
  BY PipeAssumption DEF ByteRange, Byte, Touches
<1>2. \A x : Bytes({x}) = x.lo .. (x.hi - 1)
  BY DEF Bytes
<1> DEFINE h == Hull(s, r)
<1>3. /\ h.lo = IF s.lo < r.lo THEN s.lo ELSE r.lo
      /\ h.hi = IF s.hi > r.hi THEN s.hi ELSE r.hi
  BY DEF Hull
<1> HIDE DEF h
<1>4. h.lo .. (h.hi - 1) \subseteq (s.lo .. (s.hi - 1)) \cup (r.lo .. (r.hi - 1))
  BY <1>1, <1>3
<1>5. (s.lo .. (s.hi - 1)) \cup (r.lo .. (r.hi - 1)) \subseteq h.lo .. (h.hi - 1)
  BY <1>1, <1>3
<1>6. Bytes({h}) = Bytes({s}) \cup Bytes({r})
  BY <1>2, <1>4, <1>5
<1> QED BY <1>6 DEF h

(* A widened marker owes what it owed and what the new access owes.        *)
LEMMA WidenedOwes ==
  ASSUME TypeOK, NEW ins \in Instr, NEW i \in Candidates(ins), NEW s
  PROVE  Owings(ins.pipe, s, Widened(issued[ins.pipe][i], ins))
           = Owings(ins.pipe, s, issued[ins.pipe][i]) \cup Owings(ins.pipe, s, ins)
<1> DEFINE p == ins.pipe
<1> SUFFICES ASSUME NEW e, e = issued[p][i]
             PROVE  Owings(p, s, Widened(e, ins)) = Owings(p, s, e) \cup Owings(p, s, ins)
  OBVIOUS
<1>1. /\ e \in Entry /\ e.kind = "marker" /\ SoleRange(e) /\ SoleRange(ins)
      /\ e.op = ins.op /\ e.raw = ins.raw /\ (e.writes # {}) = (ins.writes # {})
      /\ Touches(TheRange(ins), TheRange(e))
  BY CandidateFacts
<1>2. /\ e.reads \in SUBSET ByteRange /\ e.writes \in SUBSET ByteRange
      /\ ins.reads \in SUBSET ByteRange /\ ins.writes \in SUBSET ByteRange
  BY <1>1, EntryFields, InstrAssumption DEF Instruction
<1> DEFINE r == TheRange(ins)
           t == TheRange(e)
           w == Widened(e, ins)
<1>3. r \in ByteRange /\ t \in ByteRange
  BY <1>1, <1>2, SoleRangeIsRange
<1>4. Bytes({Hull(t, r)}) = Bytes({t}) \cup Bytes({r})
  BY <1>1, <1>3, HullIsUnion
<1>5. w.op = ins.op /\ w.raw = ins.raw
  BY <1>1 DEF Widened
<1>6. Bytes({}) = {}
  BY DEF Bytes
<1>7. \/ /\ e.writes = {} /\ e.reads = {t} /\ ins.writes = {} /\ ins.reads = {r}
      \/ /\ e.reads = {} /\ e.writes = {t} /\ ins.reads = {} /\ ins.writes = {r}
  <2>1. (e.writes = {} /\ e.reads = {t}) \/ (e.reads = {} /\ e.writes = {t})
    BY <1>1, <1>2, SoleIsOne
  <2>2. (ins.writes = {} /\ ins.reads = {r}) \/ (ins.reads = {} /\ ins.writes = {r})
    BY <1>1, <1>2, SoleIsOne
  <2> QED BY <1>1, <2>1, <2>2
<1>8. CASE e.writes = {} /\ e.reads = {t} /\ ins.writes = {} /\ ins.reads = {r}
  <2>1. w.reads = {Hull(t, r)} /\ w.writes = {}
    BY <1>8 DEF Widened
  <2> HIDE DEF r, t, w
  <2>2. Bytes(w.reads) = Bytes(e.reads) \cup Bytes(ins.reads)
    BY <1>4, <1>8, <2>1
  <2>3. Bytes(w.writes) = {} /\ Bytes(e.writes) = {} /\ Bytes(ins.writes) = {}
    BY <1>6, <1>8, <2>1
  <2>4. Owings(p, s, w) = Owings(p, s, e) \cup Owings(p, s, ins)
    BY <1>1, <1>5, <2>2, <2>3 DEF Owings, Owing
  <2> QED BY <2>4 DEF w
<1>9. CASE e.reads = {} /\ e.writes = {t} /\ ins.reads = {} /\ ins.writes = {r}
  <2>1. w.writes = {Hull(t, r)} /\ w.reads = {}
    BY <1>9 DEF Widened
  <2> HIDE DEF r, t, w
  <2>2. Bytes(w.writes) = Bytes(e.writes) \cup Bytes(ins.writes)
    BY <1>4, <1>9, <2>1
  <2>3. Bytes(w.reads) = {} /\ Bytes(e.reads) = {} /\ Bytes(ins.reads) = {}
    BY <1>6, <1>9, <2>1
  <2>4. Owings(p, s, w) = Owings(p, s, e) \cup Owings(p, s, ins)
    BY <1>1, <1>5, <2>2, <2>3 DEF Owings, Owing
  <2> QED BY <2>4 DEF w
<1> QED BY <1>7, <1>8, <1>9

-----------------------------------------------------------------------------
(* What a position of the logs becomes when a drain pops up to upto and    *)
(* entries keep their kind.                                                *)
KindsStay ==
  \A p \in Pipe :
    /\ Len(issued'[p]) \in Nat /\ Len(issued[p]) <= Len(issued'[p])
    /\ \A i \in 1 .. Len(issued[p]) : issued'[p][i].kind = issued[p][i].kind

(* Positions beyond the drain stay as they were, the rest of the queue is  *)
(* what this step pushed.                                                  *)
LEMMA QueuedAfter ==
  ASSUME TypeOK, KindsStay, NEW upto, DrainTo(upto), retired' = upto
  PROVE  /\ \A x \in Beyond(InQueues, upto) :
              /\ x \in InQueues' /\ At(x)'.kind = At(x).kind
              /\ SegmentOf(x[1], x[2])' = SegmentOf(x[1], x[2])
         /\ \A x \in InQueues' :
              \/ x \in Beyond(InQueues, upto)
              \/ /\ x = <<x[1], x[2]>> /\ x[1] \in Pipe
                 /\ Len(issued[x[1]]) < x[2] /\ x[2] \in 1 .. Len(issued'[x[1]])
<1>1. ASSUME NEW x \in Beyond(InQueues, upto)
      PROVE  /\ x \in InQueues' /\ At(x)'.kind = At(x).kind
             /\ SegmentOf(x[1], x[2])' = SegmentOf(x[1], x[2])
  <2>1. x \in InQueues /\ upto[x[1]] < x[2]
    BY DEF Beyond
  <2>2. /\ x = <<x[1], x[2]>> /\ x[1] \in Pipe /\ x[2] \in Nat
        /\ x[2] \in 1 .. Len(issued[x[1]])
    BY <2>1, QueuedFacts
  <2>3. /\ upto[x[1]] \in Nat /\ Len(issued[x[1]]) \in Nat /\ Len(issued'[x[1]]) \in Nat
        /\ Len(issued[x[1]]) <= Len(issued'[x[1]])
    BY <2>2 DEF DrainTo, TypeOK, KindsStay
  <2>4. x[2] \in (upto[x[1]] + 1) .. Len(issued'[x[1]])
    BY <2>1, <2>2, <2>3
  <2>5. x \in InQueues'
    BY <2>2, <2>4 DEF InQueues, InFlight
  <2>6. At(x)'.kind = At(x).kind
    BY <2>2 DEF KindsStay, At
  <2>7. \A j \in 1 .. Len(issued[x[1]]) : issued'[x[1]][j].kind = issued[x[1]][j].kind
    BY <2>2 DEF KindsStay
  <2>8. SegmentOf(x[1], x[2])' = SegmentOf(x[1], x[2])
    <3>1. x[2] \in 0 .. Len(issued[x[1]])
      BY <2>2
    <3> QED BY <2>3, <2>7, <3>1, SegmentsStay
  <2> QED BY <2>5, <2>6, <2>8
<1>2. ASSUME NEW x \in InQueues'
      PROVE  \/ x \in Beyond(InQueues, upto)
             \/ /\ x = <<x[1], x[2]>> /\ x[1] \in Pipe
                /\ Len(issued[x[1]]) < x[2] /\ x[2] \in 1 .. Len(issued'[x[1]])
  <2>1. /\ x = <<x[1], x[2]>> /\ x[1] \in Pipe
        /\ x[2] \in (upto[x[1]] + 1) .. Len(issued'[x[1]])
    BY DEF InQueues, InFlight
  <2>2. /\ upto[x[1]] \in Nat /\ Len(issued[x[1]]) \in Nat /\ Len(issued'[x[1]]) \in Nat
        /\ retired[x[1]] \in Nat /\ retired[x[1]] <= upto[x[1]]
    BY <2>1 DEF DrainTo, TypeOK, KindsStay
  <2>3. CASE x[2] <= Len(issued[x[1]])
    <3>1. x[2] \in InFlight(x[1]) /\ upto[x[1]] < x[2]
      BY <2>1, <2>2, <2>3 DEF InFlight
    <3> QED BY <2>1, <3>1 DEF InQueues, Beyond
  <2>4. CASE ~(x[2] <= Len(issued[x[1]]))
    BY <2>1, <2>2, <2>4
  <2> QED BY <2>3, <2>4
<1> QED BY <1>1, <1>2

(* A marker beyond the drain is still queued afterwards.                   *)
LEMMA MarkersAfter ==
  ASSUME TypeOK, KindsStay, NEW upto, DrainTo(upto), retired' = upto
  PROVE  Beyond(Markers, upto) \subseteq Markers'
BY QueuedAfter DEF Markers, Beyond

(* Kinds stay when the log does not change,                                *)
LEMMA UnchangedKinds ==
  ASSUME TypeOK, issued' = issued
  PROVE  KindsStay
BY DEF TypeOK, KindsStay

(* when an entry is pushed,                                                *)
LEMMA PushedKinds ==
  ASSUME TypeOK, NEW q \in Pipe, NEW e, Pushed(q, e)
  PROVE  KindsStay
<1> SUFFICES ASSUME NEW p \in Pipe
             PROVE  /\ Len(issued'[p]) \in Nat /\ Len(issued[p]) <= Len(issued'[p])
                    /\ \A i \in 1 .. Len(issued[p]) : issued'[p][i].kind = issued[p][i].kind
  BY DEF KindsStay
<1>1. Len(issued[p]) \in Nat
  BY DEF TypeOK
<1>2. CASE p # q
  BY <1>1, <1>2 DEF Pushed
<1>3. CASE p = q
  BY <1>1, <1>3 DEF Pushed
<1> QED BY <1>2, <1>3

(* and when an entry is replaced by one of its kind.                       *)
LEMMA ReplacedKinds ==
  ASSUME TypeOK, NEW q \in Pipe, NEW i \in 1 .. Len(issued[q]), NEW e, Replaced(q, i, e),
         e.kind = issued[q][i].kind
  PROVE  KindsStay
<1> SUFFICES ASSUME NEW p \in Pipe
             PROVE  /\ Len(issued'[p]) \in Nat /\ Len(issued[p]) <= Len(issued'[p])
                    /\ \A j \in 1 .. Len(issued[p]) : issued'[p][j].kind = issued[p][j].kind
  BY DEF KindsStay
<1>1. Len(issued[p]) \in Nat
  BY DEF TypeOK
<1>2. CASE p # q
  BY <1>1, <1>2 DEF Replaced
<1>3. CASE p = q
  BY <1>1, <1>3 DEF Replaced
<1> QED BY <1>2, <1>3

(* What the markers owe after a step: what those beyond the drain owed,    *)
(* and what the step added.                                                *)
LEMMA OwingsAfter ==
  ASSUME TypeOK, KindsStay, NEW upto, DrainTo(upto), retired' = upto, NEW Add,
         \A x \in Beyond(Markers, upto) :
           OwedBy(x) \subseteq OwedBy(x)' /\ OwedBy(x)' \subseteq OwedBy(x) \cup Add,
         \A x \in Markers' : /\ x[1] \in Pipe
                             /\ Len(issued[x[1]]) < x[2] => OwedBy(x)' \subseteq Add,
         Add # {} => \E x \in Markers' : Add \subseteq OwedBy(x)'
  PROVE  MarkerOwings' = Kept(upto) \cup Add
<1>1. MarkerOwings' = UNION {OwedBy(x)' : x \in Markers'}
  BY DEF MarkerOwings, Markers, OwedBy, InQueues
<1>2. \A x \in Beyond(Markers, upto) : x \in Markers'
  BY MarkersAfter
<1>3. ASSUME NEW x \in Markers', ~(Len(issued[x[1]]) < x[2]) PROVE x \in Beyond(Markers, upto)
  <2>1. x \in InQueues' /\ At(x)'.kind = "marker"
    BY DEF Markers
  <2>2. x \in Beyond(InQueues, upto)
    BY <1>3, <2>1, QueuedAfter
  <2>3. At(x).kind = "marker"
    BY <2>1, <2>2, QueuedAfter
  <2> QED BY <2>2, <2>3 DEF Beyond, Markers
<1>4. ASSUME NEW x \in Markers' PROVE OwedBy(x)' \subseteq Kept(upto) \cup Add
  BY <1>3 DEF Kept
<1>5. ASSUME NEW x \in Beyond(Markers, upto) PROVE OwedBy(x) \subseteq UNION {OwedBy(y)' : y \in Markers'}
  BY <1>2
<1>6. Add \subseteq UNION {OwedBy(y)' : y \in Markers'}
  OBVIOUS
<1>7. Kept(upto) \subseteq UNION {OwedBy(y)' : y \in Markers'}
  BY <1>5 DEF Kept
<1> QED BY <1>1, <1>4, <1>6, <1>7

(* Of a step that adds no marker and widens none                           *)
LEMMA SameMarkers ==
  ASSUME TypeOK, KindsStay, NEW upto, DrainTo(upto), retired' = upto,
         \A x \in Beyond(Markers, upto) : At(x)' = At(x),
         \A x \in Markers' : x[1] \in Pipe /\ ~(Len(issued[x[1]]) < x[2])
  PROVE  MarkerOwings' = Kept(upto)
<1>1. \A x \in Beyond(Markers, upto) : OwedBy(x)' = OwedBy(x)
  <2> TAKE x \in Beyond(Markers, upto)
  <2>1. x \in Beyond(InQueues, upto)
    BY DEF Beyond, Markers
  <2> QED BY <2>1, QueuedAfter DEF OwedBy
<1>2. ASSUME NEW Add, Add = {} PROVE MarkerOwings' = Kept(upto) \cup Add
  <2>1. \A x \in Beyond(Markers, upto) :
          OwedBy(x) \subseteq OwedBy(x)' /\ OwedBy(x)' \subseteq OwedBy(x) \cup Add
    BY <1>1
  <2>2. \A x \in Markers' : /\ x[1] \in Pipe
                            /\ Len(issued[x[1]]) < x[2] => OwedBy(x)' \subseteq Add
    OBVIOUS
  <2> QED BY <1>2, <2>1, <2>2, OwingsAfter
<1>3. MarkerOwings' = Kept(upto) \cup {}
  BY <1>2
<1> QED BY <1>3

(* After a step that only drains, the markers owe what those beyond the    *)
(* drain owed.                                                             *)
LEMMA DrainedMarkers ==
  ASSUME TypeOK, issued' = issued, NEW upto, DrainTo(upto), retired' = upto
  PROVE  MarkerOwings' = Kept(upto)
<1>1. KindsStay
  BY UnchangedKinds
<1>2. \A x \in Markers' : x[1] \in Pipe /\ ~(Len(issued[x[1]]) < x[2])
  <2> SUFFICES ASSUME NEW x \in Markers' PROVE x[1] \in Pipe /\ ~(Len(issued[x[1]]) < x[2])
    OBVIOUS
  <2>1. x[1] \in Pipe /\ x[2] \in InFlight(x[1])'
    BY DEF Markers, InQueues
  <2>2. upto[x[1]] \in Nat /\ Len(issued[x[1]]) \in Nat
    BY <2>1 DEF DrainTo, TypeOK
  <2> QED BY <2>1, <2>2 DEF InFlight
<1>3. \A x \in Beyond(Markers, upto) : At(x)' = At(x)
  BY DEF At
<1> QED BY <1>1, <1>2, <1>3, SameMarkers

(* Pushing what is no marker adds nothing, ...                             *)
LEMMA PushedOther ==
  ASSUME TypeOK, NEW q \in Pipe, NEW e, Pushed(q, e), e.kind # "marker", retired' = retired
  PROVE  MarkerOwings' = MarkerOwings
<1> SUFFICES ASSUME NEW upto, upto = retired PROVE MarkerOwings' = MarkerOwings
  OBVIOUS
<1>1. KindsStay /\ DrainTo(upto)
  BY PushedKinds, StayIsDrain
<1>2. ASSUME NEW x \in Markers PROVE /\ x \in Beyond(Markers, upto) /\ At(x)' = At(x)
  <2>1. x \in InQueues
    BY DEF Markers
  <2>2. x[1] \in Pipe /\ x[2] \in 1 .. Len(issued[x[1]]) /\ retired[x[1]] < x[2]
    BY <2>1, QueuedFacts
  <2> QED BY <2>2 DEF Beyond, At, Pushed
<1>3. ASSUME NEW x \in Markers' PROVE x[1] \in Pipe /\ ~(Len(issued[x[1]]) < x[2])
  <2>1. x[1] \in Pipe /\ x[2] \in InFlight(x[1])' /\ At(x)'.kind = "marker"
    BY DEF Markers, InQueues
  <2>2. retired[x[1]] \in Nat /\ Len(issued[x[1]]) \in Nat
    BY <2>1 DEF TypeOK
  <2>3. CASE x[1] = q
    <3>1. x[2] \in (retired[q] + 1) .. (Len(issued[q]) + 1)
      BY <2>1, <2>3 DEF InFlight, Pushed
    <3>2. x[2] # Len(issued[q]) + 1
      BY <2>1, <2>3 DEF At, Pushed
    <3> QED BY <2>1, <2>2, <2>3, <3>1, <3>2
  <2>4. CASE x[1] # q
    BY <2>1, <2>2, <2>4 DEF InFlight, Pushed
  <2> QED BY <2>3, <2>4
<1>4. MarkerOwings' = Kept(upto)
  BY <1>1, <1>2, <1>3, SameMarkers DEF Beyond
<1>5. Beyond(Markers, upto) = Markers
  BY <1>2 DEF Beyond
<1> QED BY <1>4, <1>5, OwingsAre DEF Kept

(* ... pushing a marker adds what it owes, ...                             *)
LEMMA PushedMarker ==
  ASSUME TypeOK, NEW q \in Pipe, NEW e, Pushed(q, e), e.kind = "marker",
         NEW upto, DrainTo(upto), retired' = upto
  PROVE  MarkerOwings' = Kept(upto) \cup Owings(q, SegmentOf(q, Len(issued[q])), e)
<1> SUFFICES ASSUME NEW n, n = Len(issued[q]) + 1,
                    NEW Add, Add = Owings(q, SegmentOf(q, Len(issued[q])), e)
             PROVE  MarkerOwings' = Kept(upto) \cup Add
  OBVIOUS
<1> DEFINE z == <<q, n>>
<1>1. KindsStay
  BY PushedKinds
<1>2. /\ Len(issued[q]) \in Nat /\ n \in Nat /\ upto[q] \in Nat /\ upto[q] < n
      /\ Len(issued'[q]) = n /\ issued'[q][n] = e
  BY DEF TypeOK, Pushed, DrainTo
<1>3. At(z)' = e
  BY <1>2 DEF At
<1>4. z \in Markers'
  <2>1. n \in InFlight(q)'
    BY <1>2 DEF InFlight
  <2> QED BY <1>3, <2>1 DEF Markers, InQueues
<1>5. OwedBy(z)' = Add
  <2>1. SegmentOf(q, n)' = SegmentOf(q, Len(issued[q]))
    <3>1. {j \in 1 .. n : issued'[q][j].kind = "token"}
            = {j \in 1 .. Len(issued[q]) : issued[q][j].kind = "token"}
      BY <1>2 DEF Pushed
    <3> QED BY <3>1 DEF SegmentOf
  <2> QED BY <1>3, <2>1 DEF OwedBy
<1>6. ASSUME NEW x \in Beyond(Markers, upto) PROVE OwedBy(x)' = OwedBy(x)
  <2>1. x \in InQueues /\ x \in Beyond(InQueues, upto)
    BY DEF Beyond, Markers
  <2>2. x[1] \in Pipe /\ x[2] \in 1 .. Len(issued[x[1]])
    BY <2>1, QueuedFacts
  <2>3. At(x)' = At(x)
    BY <2>2 DEF At, Pushed
  <2> QED BY <1>1, <2>1, <2>3, QueuedAfter DEF OwedBy
<1>7. ASSUME NEW x \in Markers', Len(issued[x[1]]) < x[2] PROVE x = z
  <2>1. x = <<x[1], x[2]>> /\ x[1] \in Pipe /\ x[2] \in InFlight(x[1])'
    BY DEF Markers, InQueues
  <2>2. upto[x[1]] \in Nat /\ Len(issued[x[1]]) \in Nat
    BY <2>1 DEF TypeOK, DrainTo
  <2>3. CASE x[1] = q
    BY <1>2, <1>7, <2>1, <2>2, <2>3 DEF InFlight
  <2>4. CASE x[1] # q
    BY <1>7, <2>1, <2>2, <2>4 DEF InFlight, Pushed
  <2> QED BY <2>3, <2>4
<1>8. \A x \in Markers' : x[1] \in Pipe
  BY DEF Markers, InQueues
<1> HIDE DEF z
<1> QED BY <1>1, <1>4, <1>5, <1>6, <1>7, <1>8, OwingsAfter

(* ... and widening one adds what the access owes.                         *)
LEMMA WidenedMarker ==
  ASSUME TypeOK, NEW ins \in Instr, NEW i \in Candidates(ins),
         issued' = [issued EXCEPT ![ins.pipe][i] = Widened(@, ins)],
         NEW upto, DrainTo(upto), retired' = upto, upto[ins.pipe] < i
  PROVE  MarkerOwings'
           = Kept(upto) \cup Owings(ins.pipe, SegmentOf(ins.pipe, Len(issued[ins.pipe])), ins)
<1> SUFFICES ASSUME NEW Add,
                    Add = Owings(ins.pipe, SegmentOf(ins.pipe, Len(issued[ins.pipe])), ins)
             PROVE  MarkerOwings' = Kept(upto) \cup Add
  OBVIOUS
<1> DEFINE q == ins.pipe
           z == <<q, i>>
<1>1. /\ q \in Pipe /\ i \in InFlight(q) /\ i \in 1 .. Len(issued[q])
      /\ issued[q][i].kind = "marker"
      /\ \A j \in i .. Len(issued[q]) : issued[q][j].kind # "token"
  BY CandidateFacts
<1>2. /\ Replaced(q, i, Widened(issued[q][i], ins))
      /\ Widened(issued[q][i], ins).kind = "marker"
  BY WidenReplaces
<1>3. KindsStay
  <2> SUFFICES ASSUME NEW e, e = Widened(issued[q][i], ins) PROVE KindsStay
    OBVIOUS
  <2> QED BY <1>1, <1>2, ReplacedKinds
<1>4. z \in Beyond(Markers, upto)
  BY <1>1 DEF Beyond, Markers, InQueues, At
<1>5. SegmentOf(q, i) = SegmentOf(q, Len(issued[q]))
  <2>1. i \in Nat /\ Len(issued[q]) \in Nat /\ i <= Len(issued[q])
    BY <1>1 DEF TypeOK
  <2>2. \A m \in (i + 1) .. Len(issued[q]) : issued[q][m].kind # "token"
    BY <1>1, <2>1
  <2> QED BY <2>1, <2>2, SegmentMonotone
<1>6. OwedBy(z)' = OwedBy(z) \cup Add
  <2>1. z \in Beyond(InQueues, upto)
    BY <1>4 DEF Beyond, Markers
  <2>2. SegmentOf(q, i)' = SegmentOf(q, i)
    <3> DEFINE x == z
    <3>1. SegmentOf(x[1], x[2])' = SegmentOf(x[1], x[2])
      BY <1>3, <2>1, QueuedAfter
    <3> QED BY <3>1
  <2>3. issued'[q][i] = Widened(issued[q][i], ins)
    BY <1>1, <1>2 DEF Replaced
  <2>4. OwedBy(z)' = Owings(q, SegmentOf(q, i), Widened(issued[q][i], ins))
    BY <2>2, <2>3 DEF OwedBy, At
  <2>5. OwedBy(z) = Owings(q, SegmentOf(q, i), issued[q][i])
    BY DEF OwedBy, At
  <2> QED BY <1>5, <2>4, <2>5, WidenedOwes
<1>7. ASSUME NEW x \in Beyond(Markers, upto), x # z PROVE OwedBy(x)' = OwedBy(x)
  <2>1. x \in InQueues /\ x \in Beyond(InQueues, upto)
    BY DEF Beyond, Markers
  <2>2. x = <<x[1], x[2]>> /\ x[1] \in Pipe /\ x[2] \in 1 .. Len(issued[x[1]])
    BY <2>1, QueuedFacts
  <2>3. ~(x[1] = q /\ x[2] = i)
    BY <1>7, <2>2
  <2>4. At(x)' = At(x)
    BY <1>2, <2>2, <2>3 DEF At, Replaced
  <2> QED BY <1>3, <2>1, <2>4, QueuedAfter DEF OwedBy
<1>8. ASSUME NEW x \in Markers' PROVE x[1] \in Pipe /\ ~(Len(issued[x[1]]) < x[2])
  <2>1. x[1] \in Pipe /\ x[2] \in InFlight(x[1])'
    BY DEF Markers, InQueues
  <2>2. upto[x[1]] \in Nat
    BY <2>1 DEF DrainTo
  <2>3. Len(issued[x[1]]) \in Nat
    BY <2>1 DEF TypeOK
  <2>4. Len(issued'[x[1]]) = Len(issued[x[1]])
    BY <1>2, <2>1 DEF Replaced
  <2> QED BY <2>1, <2>2, <2>3, <2>4 DEF InFlight
<1>9. z \in Markers'
  BY <1>3, <1>4, MarkersAfter
<1> HIDE DEF z
<1> QED BY <1>3, <1>6, <1>7, <1>8, <1>9, OwingsAfter

-----------------------------------------------------------------------------
(* Dropping what is drained and owing what a new marker owes, on both      *)
(* sides of the equation, keeps it.                                        *)
LEMMA DrainKeepsExact ==
  ASSUME TypeOK, MarkersExact, NEW upto, DrainTo(upto), CutClean(upto), NEW Add,
         owed' = StillOwed(upto) \cup Add, MarkerOwings' = Kept(upto) \cup Add,
         capWarned => capWarned'
  PROVE  MarkersExact'
<1>1. /\ Kept(upto) \subseteq StillOwed(upto)
      /\ ~capWarned => StillOwed(upto) \subseteq Kept(upto)
  BY KeptExact
<1> QED BY <1>1 DEF MarkersExact

(* An instruction that executes at once after a marker is left,            *)
LEMMA NowKeepsExact ==
  ASSUME TypeOK, MarkersExact, NEW ins \in Instr, IssueNow(ins)
  PROVE  MarkersExact'
<1> SUFFICES ASSUME NEW upto, upto = UpToEnd(IF ins.how = "direct" THEN {ins.pipe} ELSE {}),
                    NEW Add, Add = Owings(ins.pipe, SegmentOf(ins.pipe, Len(issued[ins.pipe])), ins)
             PROVE  MarkersExact'
  OBVIOUS
<1>1. DrainTo(upto) /\ CutClean(upto) /\ ins.pipe \in Pipe /\ upto[ins.pipe] \in Nat
  <2>1. DrainTo(upto) /\ CutClean(upto)
    BY UpToEndIsDrain, UpToEndCutsClean
  <2> QED BY <2>1, InstrAssumption DEF Instruction, DrainTo
<1>2. /\ retired' = upto /\ LeaveMarker(ins, upto[ins.pipe])
      /\ owed' = StillOwed(upto) \cup (IF CheckSync THEN Add ELSE {})
  BY DEF IssueNow
<1>3. /\ Kept(upto) \subseteq StillOwed(upto)
      /\ ~capWarned => StillOwed(upto) \subseteq Kept(upto)
  BY <1>1, KeptExact
<1>4. CASE issued' = issued /\ (capWarned => capWarned') /\ (CheckSync => capWarned')
  <2>1. MarkerOwings' = Kept(upto)
    BY <1>1, <1>2, <1>4, DrainedMarkers
  <2> QED BY <1>2, <1>3, <1>4, <2>1 DEF MarkersExact
<1>5. ASSUME CheckSync, capWarned' = capWarned, NEW i \in Candidates(ins), upto[ins.pipe] < i,
             issued' = [issued EXCEPT ![ins.pipe][i] = Widened(@, ins)]
      PROVE  MarkersExact'
  <2>1. MarkerOwings' = Kept(upto) \cup Add
    BY <1>1, <1>2, <1>5, WidenedMarker
  <2> QED BY <1>2, <1>3, <1>5, <2>1 DEF MarkersExact
<1>6. CASE CheckSync /\ capWarned' = capWarned /\ Pushed(ins.pipe, Marker(ins))
  <2> SUFFICES ASSUME NEW e, e = Marker(ins) PROVE MarkersExact'
    OBVIOUS
  <2>1. e.kind = "marker" /\ Pushed(ins.pipe, e)
    BY <1>6 DEF Marker
  <2>2. Owings(ins.pipe, SegmentOf(ins.pipe, Len(issued[ins.pipe])), e) = Add
    BY DEF Owings, Owing, Marker
  <2>3. MarkerOwings' = Kept(upto) \cup Add
    BY <1>1, <1>2, <2>1, <2>2, PushedMarker
  <2> QED BY <1>2, <1>3, <1>6, <2>3 DEF MarkersExact
<1> QED BY <1>1, <1>2, <1>4, <1>5, <1>6, LeaveMarkerCases

(* and a step that only drains, keep the markers exact;                    *)
LEMMA PlainDrainKeepsExact ==
  ASSUME TypeOK, MarkersExact, NEW upto, DrainTo(upto), CutClean(upto), Drain(upto),
         UNCHANGED <<issued, capWarned>>
  PROVE  MarkersExact'
<1>1. MarkerOwings' = Kept(upto) /\ owed' = StillOwed(upto)
  BY DrainedMarkers DEF Drain
<1>2. /\ Kept(upto) \subseteq StillOwed(upto)
      /\ ~capWarned => StillOwed(upto) \subseteq Kept(upto)
  BY KeptExact
<1> QED BY <1>1, <1>2 DEF MarkersExact

(* so does every step of the engine.                                       *)
LEMMA NextExact ==
  ASSUME TypeOK, InOrderIsQuiet, MarkersExact, [Next]_vars
  PROVE  MarkersExact'
<1>1. ASSUME UNCHANGED <<owed, capWarned>>, MarkerOwings' = MarkerOwings PROVE MarkersExact'
  BY <1>1 DEF MarkersExact
<1>2. ASSUME UNCHANGED <<issued, retired>> PROVE MarkerOwings' = MarkerOwings
  BY <1>2 DEF MarkerOwings, InFlight, SegmentOf, At
<1>3. ASSUME NEW ins \in Instr, IssueInOrder(ins) PROVE MarkersExact'
  BY <1>1, <1>2, <1>3 DEF IssueInOrder
<1>4. ASSUME NEW ins \in Instr, IssueDeferred(ins) PROVE MarkersExact'
  <2> DEFINE e == [kind |-> "effect", op |-> ins.op, reads |-> ins.reads,
                   writes |-> ins.writes, raw |-> ins.raw, id |-> count + 1,
                   expect |-> [b \in Byte |-> IF b \in Bytes(ins.reads) THEN prog[b] ELSE 0]]
  <2>1. e \in Entry /\ e.kind # "marker"
    <3>1. ins \in Instruction /\ prog \in [Byte -> Nat] /\ count + 1 \in Nat
      BY InstrAssumption DEF TypeOK
    <3>2. e.expect \in [Byte -> Nat]
      BY <3>1
    <3> QED BY <3>1, <3>2 DEF Entry, Instruction
  <2>2. /\ issued' = [issued EXCEPT ![ins.pipe] = Append(@, e)] /\ retired' = retired
        /\ UNCHANGED <<owed, capWarned>>
    BY <1>4 DEF IssueDeferred
  <2> HIDE DEF e
  <2>3. ins.pipe \in Pipe
    BY InstrAssumption DEF Instruction
  <2>4. MarkerOwings' = MarkerOwings
    BY <2>1, <2>2, <2>3, AppendPushes, PushedOther
  <2> QED BY <1>1, <2>2, <2>4
<1>5. ASSUME NEW ins \in Instr, IssueNow(ins) PROVE MarkersExact'
  BY <1>5, NowKeepsExact
<1>6. ASSUME NEW k \in Key, SetFlag(k) PROVE MarkersExact'
  <2>1. UNCHANGED <<owed, capWarned, inOrder>>
    BY <1>6 DEF SetFlag, Issue
  <2>2. CASE inOrder
    <3>1. InQueues = {} /\ InQueues' = {}
      BY <2>1, <2>2, QuietStep
    <3>2. MarkerOwings = {} /\ MarkerOwings' = {}
      BY <3>1 DEF MarkerOwings, InQueues
    <3> QED BY <1>1, <2>1, <3>2
  <2>3. CASE ~inOrder
    <3> DEFINE e == [kind |-> "token", key |-> k]
    <3>1. k.set \in Pipe /\ e \in Entry /\ e.kind # "marker"
      BY KeyAssumption DEF Entry
    <3>2. issued' = [issued EXCEPT ![k.set] = Append(@, e)] /\ retired' = retired
      BY <1>6, <2>3 DEF SetFlag
    <3> HIDE DEF e
    <3>3. MarkerOwings' = MarkerOwings
      BY <3>1, <3>2, AppendPushes, PushedOther
    <3> QED BY <1>1, <2>1, <3>3
  <2> QED BY <2>2, <2>3
<1>7. ASSUME NEW k \in Key, WaitRaised(k) \/ WaitBlocks(k) PROVE MarkersExact'
  <2>1. UNCHANGED <<owed, capWarned, issued, retired>>
    BY <1>7 DEF WaitRaised, WaitBlocks
  <2> QED BY <1>1, <1>2, <2>1
<1>8. ASSUME NEW k \in Key, WaitDrains(k) PROVE MarkersExact'
  <2> SUFFICES ASSUME NEW upto, upto = UpToToken(k) PROVE MarkersExact'
    OBVIOUS
  <2>1. DrainTo(upto) /\ CutClean(upto) /\ Drain(upto) /\ UNCHANGED <<issued, capWarned>>
    BY <1>8, UpToTokenIsDrain, UpToTokenCutsClean DEF WaitDrains
  <2> QED BY <2>1, PlainDrainKeepsExact
<1>9. ASSUME NEW P, PipeBarrier(P) PROVE MarkersExact'
  <2> SUFFICES ASSUME NEW upto, upto = UpToEnd(P) PROVE MarkersExact'
    OBVIOUS
  <2>1. DrainTo(upto) /\ CutClean(upto) /\ Drain(upto) /\ UNCHANGED <<issued, capWarned>>
    BY <1>9, UpToEndIsDrain, UpToEndCutsClean DEF PipeBarrier
  <2> QED BY <2>1, PlainDrainKeepsExact
<1>10. ASSUME Return PROVE MarkersExact'
  <2> SUFFICES ASSUME NEW upto, upto = UpToEnd(Pipe) PROVE MarkersExact'
    OBVIOUS
  <2>1. DrainTo(upto) /\ CutClean(upto) /\ Drain(upto) /\ UNCHANGED <<issued, capWarned>>
    BY <1>10, UpToEndIsDrain, UpToEndCutsClean DEF Return
  <2> QED BY <2>1, PlainDrainKeepsExact
<1>11. ASSUME UNCHANGED vars PROVE MarkersExact'
  BY <1>1, <1>2, <1>11 DEF vars
<1>12. CASE Next
  BY <1>3, <1>4, <1>5, <1>6, <1>7, <1>8, <1>9, <1>10, <1>12 DEF Next
<1> QED BY <1>11, <1>12

(* The markers in the queues owe exactly what the scalar accesses that no  *)
(* drain has retired owe, byte by byte and segment by segment: coalescing  *)
(* neither loses an ordering nor invents one, and a marker is lost only    *)
(* past the cap, which is reported.                                        *)
THEOREM MarkersAreExact == Spec => []MarkersExact
<1>1. Init => TypeOK /\ InOrderIsQuiet /\ MarkersExact
  <2> SUFFICES ASSUME Init PROVE TypeOK /\ InOrderIsQuiet /\ MarkersExact
    OBVIOUS
  <2>1. TypeOK /\ InOrderIsQuiet
    BY InitOrder DEF OrderInv
  <2>2. MarkerOwings = {}
    BY DEF Init, MarkerOwings, InFlight
  <2> QED BY <2>1, <2>2 DEF MarkersExact, Init
<1>2. TypeOK /\ InOrderIsQuiet /\ MarkersExact /\ [Next]_vars
        => (TypeOK /\ InOrderIsQuiet /\ MarkersExact)'
  BY NextType, NextQuiet, NextExact
<1> QED BY <1>1, <1>2, PTL DEF Spec

=============================================================================
