---------------------------- MODULE AccessHistory ----------------------------
(* What the race detector remembers about a byte, and what it makes of a   *)
(* new access: ShadowEntry and the body of the loop in ShadowMemory::access *)
(* (src/include/bishengir/Tools/Interp/Memory.h, src/lib/Memory.cpp).      *)
(* A record stands for an AccessRecord; its fields core and clock decide a *)
(* verdict here, raw and atomic only later, in filterAndReportRace.        *)
EXTENDS Naturals, Sequences

CONSTANTS Record,            \* the accesses that may be recorded
          None               \* no record: valid = false

ASSUME NoneIsNoRecord == None \notin Record

(* Vector clocks.  The one that has no component for a core has seen       *)
(* nothing of it.                                                          *)
Ticks(clock, c) == IF c \in DOMAIN clock THEN clock[c] ELSE 0

HappensBefore(p, q) == \A c \in DOMAIN p \cup DOMAIN q : Ticks(p, c) <= Ticks(q, c)

Concurrent(p, q) == ~ HappensBefore(p, q) /\ ~ HappensBefore(q, p)

Entry == [lastWrite : Record \cup {None}, reads : Seq(Record)]

Fresh == [lastWrite |-> None, reads |-> << >>]

(* Two accesses of one core never race.  (The mutant takes the one that    *)
(* committed first for the older one.)                                     *)
MutRacesOneWay(prior, r) ==
  prior.core # r.core /\ ~ HappensBefore(prior.clock, r.clock)
Races(prior, r) == prior.core # r.core /\ Concurrent(prior.clock, r.clock)

WriteRaces(e, r) == e.lastWrite # None /\ Races(e.lastWrite, r)

RacingReads(e, r) == {i \in DOMAIN e.reads : Races(e.reads[i], r)}

Least(S) == CHOOSE x \in S : \A y \in S : x <= y

(* The conflict test: the last write against any access, the reads against *)
(* a write only.                                                           *)
Conflict(e, isWrite, r) ==
  WriteRaces(e, r) \/ (isWrite /\ RacingReads(e, r) # {})

(* The other side of the report: the write before the reads, and of the    *)
(* reads the one recorded first.                                           *)
Culprit(e, r) ==
  IF WriteRaces(e, r) THEN [first |-> e.lastWrite, firstIsWrite |-> TRUE]
                      ELSE [first |-> e.reads[Least(RacingReads(e, r))], firstIsWrite |-> FALSE]

(* A write forgets the reads before it; a read takes the place of the      *)
(* earlier read of its core, or joins the others.                          *)
MutTouchedAppends(e, isWrite, r) ==
  IF isWrite
  THEN [lastWrite |-> r, reads |-> << >>]
  ELSE [e EXCEPT !.reads = Append(@, r)]
Touched(e, isWrite, r) ==
  IF isWrite
  THEN [lastWrite |-> r, reads |-> << >>]
  ELSE [e EXCEPT !.reads =
          IF \E i \in DOMAIN @ : @[i].core = r.core
          THEN [i \in DOMAIN @ |-> IF @[i].core = r.core THEN r ELSE @[i]]
          ELSE Append(@, r)]
=============================================================================
