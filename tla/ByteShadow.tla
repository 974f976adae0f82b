------------------------------ MODULE ByteShadow ------------------------------
(* What shadow memory promises: a history of its own for each byte.  This  *)
(* is the map the intervals of src/lib/Memory.cpp compress, "so a 8 MB     *)
(* tensor costs one entry, not eight million" (Memory.h:104).              *)
EXTENDS AccessHistory

CONSTANT Size                \* bytes of the arena

VARIABLES hist,              \* the history of each byte
          call,              \* the arguments of the last call
          race               \* the report of the last access, or None
vars == << hist, call, race >>

Byte == 0 .. Size - 1

Init == hist = [b \in Byte |-> Fresh] /\ call = None /\ race = None

(* An access of [lo, hi) enters the history of each of its bytes and       *)
(* reports the lowest byte where it races, with following bytes of the     *)
(* very same history.                                                      *)
Access(lo, hi, isWrite, r) ==
  LET hit == {b \in Byte : lo <= b /\ b < hi /\ Conflict(hist[b], isWrite, r)}
  IN /\ call' = [lo |-> lo, hi |-> hi, isWrite |-> isWrite, record |-> r]
     /\ hist' = [b \in Byte |-> IF lo <= b /\ b < hi THEN Touched(hist[b], isWrite, r)
                                                      ELSE hist[b]]
     /\ \/ hit = {} /\ race' = None
        \/ \E b \in hit, top \in 1 .. hi :
             /\ \A c \in hit : b <= c
             /\ b < top
             /\ \A c \in b .. top - 1 : hist[c] = hist[b]
             /\ race' = [lo |-> b, hi |-> top, prior |-> Culprit(hist[b], r),
                         second |-> r, secondIsWrite |-> isWrite]

(* A buffer is freed: its bytes start afresh.                              *)
Invalidate(lo, hi) ==
  /\ call' = [lo |-> lo, hi |-> hi]
  /\ hist' = [b \in Byte |-> IF lo <= b /\ b < hi THEN Fresh ELSE hist[b]]
  /\ UNCHANGED race

Next ==
  \E lo \in 0 .. Size : \E hi \in lo .. Size :
    \/ \E isWrite \in BOOLEAN, r \in Record : Access(lo, hi, isWrite, r)
    \/ Invalidate(lo, hi)

Spec == Init /\ [][Next]_vars
=============================================================================
