----------------------------- MODULE ShadowMemory -----------------------------
(* The interval map of the race detector: class ShadowMemory of            *)
(* src/include/bishengir/Tools/Interp/Memory.h and src/lib/Memory.cpp.     *)
(* An interval [start, end) stands for bytes with one history; an access   *)
(* splits the intervals it covers in part and fills the gaps between them. *)
EXTENDS AccessHistory

CONSTANT Size                \* bytes of the arena

ASSUME SizeAssumption == Size \in Nat

VARIABLES entries,           \* start |-> [end, entry], an ordered map in the code
          call,              \* the arguments of the last call
          race               \* what the last access returned, or None
vars == << entries, call, race >>

Byte == 0 .. Size - 1
Interval == [end : 1 .. Size, entry : Entry]

(* entries.lower_bound(lo) up to entries.lower_bound(hi).                  *)
Within(es, lo, hi) == {s \in DOMAIN es : lo <= s /\ s < hi}

-----------------------------------------------------------------------------
(* The interval splitAt finds: the last to start at or before pos, unless  *)
(* it starts just there or ends before.                                    *)
Cut(es, pos) ==
  {s \in DOMAIN es : /\ s < pos /\ pos < es[s].end
                     /\ \A t \in DOMAIN es : t <= pos => t <= s}

MutSplitAtKeepsEnd(es, pos) ==
  IF Cut(es, pos) = {}
  THEN es
  ELSE [s \in DOMAIN es \cup {pos} |->
          IF s = pos THEN es[CHOOSE c \in Cut(es, pos) : TRUE] ELSE es[s]]
SplitAt(es, pos) ==
  IF Cut(es, pos) = {}
  THEN es
  ELSE [s \in DOMAIN es \cup {pos} |->
          IF s = pos THEN es[CHOOSE c \in Cut(es, pos) : TRUE]
          ELSE IF s \in Cut(es, pos) THEN [es[s] EXCEPT !.end = pos]
          ELSE es[s]]

(* Where the walk of access meets no interval: at lo or at an end.         *)
MutGapsPastTheEnd(es, lo, hi) ==
  {g \in {lo} \cup {es[s].end : s \in Within(es, lo, hi)} : g <= hi /\ g \notin DOMAIN es}
Gaps(es, lo, hi) ==
  {g \in {lo} \cup {es[s].end : s \in Within(es, lo, hi)} : g < hi /\ g \notin DOMAIN es}

GapEnd(es, g, hi) == Least({hi} \cup {s \in DOMAIN es : g < s /\ s < hi})

Filled(es, lo, hi) ==
  [s \in DOMAIN es \cup Gaps(es, lo, hi) |->
     IF s \in DOMAIN es THEN es[s] ELSE [end |-> GapEnd(es, s, hi), entry |-> Fresh]]

(* The intervals that make up [lo, hi) when the walk records the access.   *)
Cover(es, lo, hi) == Filled(SplitAt(SplitAt(es, lo), hi), lo, hi)

-----------------------------------------------------------------------------
Init == entries = << >> /\ call = None /\ race = None

(* ShadowMemory::access: the first interval with a conflict is reported,   *)
(* every one records the access.                                           *)
Access(lo, hi, isWrite, r) ==
  LET es  == Cover(entries, lo, hi)
      hit == {s \in Within(es, lo, hi) : Conflict(es[s].entry, isWrite, r)}
  IN /\ lo < hi
     /\ call' = [lo |-> lo, hi |-> hi, isWrite |-> isWrite, record |-> r]
     /\ entries' = [s \in DOMAIN es |->
                      IF s \in Within(es, lo, hi)
                      THEN [es[s] EXCEPT !.entry = Touched(es[s].entry, isWrite, r)]
                      ELSE es[s]]
     /\ \/ hit = {} /\ race' = None
        \/ \E s \in hit :
             /\ \A t \in hit : s <= t
             /\ race' = [lo |-> s, hi |-> es[s].end, prior |-> Culprit(es[s].entry, r),
                         second |-> r, secondIsWrite |-> isWrite]

(* access of an empty range.                                               *)
AccessNothing(lo, hi, isWrite, r) ==
  /\ hi <= lo
  /\ call' = [lo |-> lo, hi |-> hi, isWrite |-> isWrite, record |-> r]
  /\ race' = None
  /\ UNCHANGED entries

MutInvalidateWholeIntervals(lo, hi) ==
  /\ lo < hi
  /\ call' = [lo |-> lo, hi |-> hi]
  /\ entries' = [s \in DOMAIN entries \ Within(entries, lo, hi) |-> entries[s]]
  /\ UNCHANGED race
(* ShadowMemory::invalidate.                                               *)
Invalidate(lo, hi) ==
  LET es == SplitAt(SplitAt(entries, lo), hi)
  IN /\ lo < hi
     /\ call' = [lo |-> lo, hi |-> hi]
     /\ entries' = [s \in DOMAIN es \ Within(es, lo, hi) |-> es[s]]
     /\ UNCHANGED race

InvalidateNothing(lo, hi) ==
  /\ hi <= lo
  /\ call' = [lo |-> lo, hi |-> hi]
  /\ UNCHANGED << entries, race >>

Next ==
  \E lo \in 0 .. Size : \E hi \in lo .. Size :
    \/ \E isWrite \in BOOLEAN, r \in Record :
         Access(lo, hi, isWrite, r) \/ AccessNothing(lo, hi, isWrite, r)
    \/ Invalidate(lo, hi)
    \/ InvalidateNothing(lo, hi)

Spec == Init /\ [][Next]_vars

-----------------------------------------------------------------------------
(* Type invariant: intervals lie in the arena and record valid accesses.   *)
TypeOK == DOMAIN entries \subseteq Byte /\ entries \in [DOMAIN entries -> Interval]

Apart(es) ==
  \A s \in DOMAIN es :
    s < es[s].end /\ \A t \in DOMAIN es : s < t => es[s].end <= t

(* No interval is empty or runs into the next: what lower_bound and        *)
(* splitAt take for granted, after any sequence of splits, fills and       *)
(* erasures.                                                               *)
Disjoint == Apart(entries)

(* "At most one record per core, so the history is bounded by the core     *)
(* count" (Memory.cpp:131), and a write leaves no reads of before it.      *)
OneReadPerCore ==
  \A s \in DOMAIN entries :
    LET reads == entries[s].entry.reads
    IN \A i, j \in DOMAIN reads : reads[i].core = reads[j].core => i = j

(* The history an interval map gives a byte.                               *)
Holder(es, b) == {s \in DOMAIN es : s <= b /\ b < es[s].end}
HistoryOf(es, b) ==
  IF Holder(es, b) = {} THEN Fresh ELSE es[CHOOSE s \in Holder(es, b) : TRUE].entry

Bytes == INSTANCE ByteShadow WITH hist <- [b \in Byte |-> HistoryOf(entries, b)]

(* The interval map is a byte map: whatever ranges are accessed and        *)
(* forgotten, each byte has the history of its own accesses, and the       *)
(* report is the race of the lowest racing byte.                           *)
ImplementsBytes == Bytes!Spec
=============================================================================
