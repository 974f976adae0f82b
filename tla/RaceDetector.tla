---------------------------- MODULE RaceDetector ----------------------------
(***************************************************************************)
(* The cross-core race check: the vector clocks that travel with the       *)
(* synchronisation of CrossSync (lib/OpsSync.cpp), the effects a core has  *)
(* issued and not committed (lib/Interpreter.cpp), and the histories they  *)
(* are checked against, byte by byte: ShadowMemory implements ByteShadow,  *)
(* so a byte has a history of its own.                                     *)
(*                                                                         *)
(* Every "compute" operation is one access to one byte.  Intra-core flags, *)
(* whose clocks never leave their core, are the subject of PipeEngine.     *)
(***************************************************************************)
EXTENDS CrossSync

CONSTANTS
  Byte,    \* bytes all cores of a launch can reach
  NumPipes,\* pipes with deferred effects; flushAllPipes takes them in order
  None     \* no record

(* PIPE_S, where an access completes at once.                              *)
Scalar == 0

(* What a compute operation does.  Two atomics do not race, nor do two raw *)
(* accesses.                                                               *)
Access == [byte : Byte, isWrite : BOOLEAN, pipe : {Scalar} \cup 1 .. NumPipes,
           class : {"plain", "atomic", "raw"}]

ASSUME AccessAssumption ==
  /\ NumPipes \in Nat
  /\ \A l \in Launches :
       /\ \A f \in FlagId : l.tpipe[f] \in 1 .. NumPipes
       /\ \A c \in CoresOf(l) : \A i \in 1 .. Len(l.program[c]) :
            l.program[c][i].op = "compute" => l.access[c][i] \in Access

(* AccessRecord; its op is the position of the access in the program.      *)
AccessRecord == [core : Core, clock : [Core -> Nat], pos : Nat \ {0},
                 class : {"plain", "atomic", "raw"}]

INSTANCE AccessHistory WITH Record <- AccessRecord

(* NoneIsNoRecord, of the records of each launch.                          *)
ASSUME NoneAssumption ==
  \A l \in Launches :
    None \notin [core : CoresOf(l), clock : [CoresOf(l) -> Nat], pos : Nat \ {0},
                class : {"plain", "atomic", "raw"}]

VARIABLES
  clock,        \* CoreState::clock
  aicClock,     \* CrossFlagState::aicClock, per flag
  aivClock,     \* CrossFlagState::aivClock
  sameKindClock,\* CrossFlagState::sameKindClock
  mergedClock,  \* BarrierState::mergedClock, per barrier key
  lockClock,    \* getLockClock, per lock variable
  queue,        \* per core and pipe, the effects not committed yet
  hist,         \* the access history of each byte
  races,        \* the reports
  log,          \* history: every access issued, and what was before it
  known,        \* history: per core, the accesses ordered before its next one
  pub,          \* history: per flag and kind, what was known at each set
  lanePub,      \* history: per flag, the same of each vector core that contributes
  mergedKnown,  \* history: per barrier key, what was known when it last fired
  lockKnown     \* history: per lock, what was known at its releases

clocks   == << clock, aicClock, aivClock, sameKindClock, mergedClock, lockClock >>
memory   == << queue, hist, races >>
history  == << log, known, pub, lanePub, mergedKnown, lockKnown >>
raceVars == << vars, clocks, memory, history >>

-----------------------------------------------------------------------------
Zero == [c \in Core |-> 0]

Join(p, q) == [c \in Core |-> IF p[c] < q[c] THEN q[c] ELSE p[c]]

JoinAll(C) ==   \* of a set of clocks
  [c \in Core |-> LET seen == {p[c] : p \in C} \cup {0}
                  IN  CHOOSE t \in seen : \A u \in seen : u <= t]

Ticked(p, c) == [p EXCEPT ![c] = @ + 1]

-----------------------------------------------------------------------------
(* filterAndReportRace drops what the hardware serialises.  Two lanes of   *)
(* one block on their UB under parallel_mode = "simd", the other exemption,*)
(* are left out.                                                           *)
MutExemptEither(r, s) == r.class # "plain" \/ s.class # "plain"
Exempt(r, s) == r.class = s.class /\ r.class # "plain"

(* commitEffect: the shadow memory is asked before it learns.              *)
Commit(m, e) ==
  LET entry == m.hist[e.byte]
      prior == Culprit(entry, e.record).first
  IN [hist |-> [m.hist EXCEPT ![e.byte] = Touched(entry, e.isWrite, e.record)],
      races |-> IF Conflict(entry, e.isWrite, e.record) /\ ~ Exempt(prior, e.record)
                THEN m.races \cup {[byte |-> e.byte, first |-> prior, second |-> e.record]}
                ELSE m.races]

(* flushPipe, for one pipe after the other.                                *)
Drained(effects) ==
  LET m[n \in 0 .. Len(effects)] ==
        IF n = 0 THEN [hist |-> hist, races |-> races] ELSE Commit(m[n - 1], effects[n])
  IN  m[Len(effects)]

CommitAll(effects) ==
  hist' = Drained(effects).hist /\ races' = Drained(effects).races

Pending(c) ==
  LET upto[n \in 0 .. NumPipes] ==
        IF n = 0 THEN << >> ELSE upto[n - 1] \o queue[c][n]
  IN  upto[NumPipes]

FlushPipe(c, p) ==
  /\ CommitAll(queue[c][p])
  /\ queue' = [queue EXCEPT ![c][p] = << >>]

MutFlushAllPipesDropsThem(c) ==
  /\ CommitAll(Pending(c))
  /\ queue' = [queue EXCEPT ![c] = << >>]
FlushAllPipes(c) ==
  /\ CommitAll(Pending(c))
  /\ queue' = [queue EXCEPT ![c] = [p \in DOMAIN @ |-> << >>]]

-----------------------------------------------------------------------------
(* issueEffectImpl: the clock ticks before it stamps the effect.           *)
MutStampBeforeTick(c) == clock[c]
Stamp(c) == Ticked(clock[c], c)

Issue(c) ==
  LET a == launch.access[c][pc[c]]
      r == [core |-> c, clock |-> Stamp(c), pos |-> pc[c], class |-> a.class]
      e == [byte |-> a.byte, isWrite |-> a.isWrite, record |-> r]
  IN /\ Compute(c)
     /\ clock' = [clock EXCEPT ![c] = Ticked(@, c)]
     /\ IF launch.inOrder \/ a.pipe = Scalar
        THEN CommitAll(<< e >>) /\ UNCHANGED queue
        ELSE queue' = [queue EXCEPT ![c][a.pipe] = Append(@, e)] /\ UNCHANGED << hist, races >>
     /\ log' = log \cup {[access |-> a, record |-> r, past |-> known[c]]}
     /\ known' = [known EXCEPT ![c] = @ \cup {<< c, pc[c] >>}]
  /\ UNCHANGED << aicClock, aivClock, sameKindClock, mergedClock, lockClock,
                  pub, lanePub, mergedKnown, lockKnown >>

-----------------------------------------------------------------------------
(* sync_block_set drains the pipe of the flag, ticks and publishes.        *)
Publish(c) ==
  LET k == FlagKeyOf(c)
      published == Ticked(clock[c], c)
  IN /\ SyncBlockSet(c)
     /\ FlushPipe(c, launch.tpipe[k.flag])
     /\ clock' = [clock EXCEPT ![c] = published]
     /\ IF ~ HasOpposite(c)
        THEN /\ sameKindClock' = [sameKindClock EXCEPT ![k][KindOf(c)] = Join(@, published)]
             /\ UNCHANGED << aicClock, aivClock >>
        ELSE IF KindOf(c) = "AIC"
        THEN /\ aicClock' = [aicClock EXCEPT ![k] = Join(@, published)]
             /\ UNCHANGED << sameKindClock, aivClock >>
        ELSE /\ aivClock' = [aivClock EXCEPT ![k][c] = Join(@, published)]
             /\ UNCHANGED << sameKindClock, aicClock >>
     /\ IF HasOpposite(c) /\ KindOf(c) = "AIV"
        THEN lanePub' = [lanePub EXCEPT ![k][c] = Append(@, known[c])] /\ UNCHANGED pub
        ELSE pub' = [pub EXCEPT ![k][KindOf(c)] = Append(@, known[c])] /\ UNCHANGED lanePub
  /\ UNCHANGED << mergedClock, lockClock, log, known, mergedKnown, lockKnown >>

(* The set a wait is paired with: of the sets so far, of which some are    *)
(* still untaken, the first untaken one.                                   *)
Paired(sets, untaken) == sets[Len(sets) - untaken + 1]

(* sync_block_wait joins what has been published and ticks.                *)
Acquire(c) ==
  LET k == FlagKeyOf(c) IN
     /\ SyncBlockWait(c)
     /\ IF ~ HasOpposite(c)
        THEN /\ clock' = [clock EXCEPT ![c] = Ticked(Join(@, sameKindClock[k][KindOf(c)]), c)]
             /\ known' = [known EXCEPT ![c] =
                            @ \cup Paired(pub[k][KindOf(c)], sameKind[k][KindOf(c)])]
        ELSE IF KindOf(c) = "AIV"
        THEN /\ clock' = [clock EXCEPT ![c] = Ticked(Join(@, aicClock[k]), c)]
             /\ known' = [known EXCEPT ![c] =
                            @ \cup Paired(pub[k]["AIC"], aicGen[k] - aivSeen[k][c])]
        ELSE /\ clock' = [clock EXCEPT ![c] =
                            Ticked(Join(@, JoinAll({aivClock[k][d] : d \in Contributors(c, k)})), c)]
             /\ known' = [known EXCEPT ![c] =
                            @ \cup UNION {Paired(lanePub[k][d], aivCount[k][d]) : d \in Contributors(c, k)}]
  /\ UNCHANGED << aicClock, aivClock, sameKindClock, mergedClock, lockClock, memory,
                  log, pub, lanePub, mergedKnown, lockKnown >>

-----------------------------------------------------------------------------
(* sync_block: the first time through, a full drain and a tick.            *)
Arriving(c) == c \notin arrived[BarrierKeyOf(c)]

AtArrival(c) == IF Arriving(c) THEN Ticked(clock[c], c) ELSE clock[c]

DrainOnArrival(c) == IF Arriving(c) THEN FlushAllPipes(c) ELSE UNCHANGED memory

BarrierParks(c) ==
  /\ SyncBlockParks(c)
  /\ DrainOnArrival(c)
  /\ clock' = [clock EXCEPT ![c] = AtArrival(c)]
  /\ UNCHANGED << aicClock, aivClock, sameKindClock, mergedClock, lockClock, history >>

(* The last one in merges the clocks of all that have arrived.             *)
BarrierFires(c) ==
  LET k      == BarrierKeyOf(c)
      here   == arrived[k] \cup {c}
      merged == JoinAll({IF d = c THEN AtArrival(c) ELSE clock[d] : d \in here})
  IN /\ SyncBlockFires(c)
     /\ DrainOnArrival(c)
     /\ mergedClock' = [mergedClock EXCEPT ![k] = merged]
     /\ clock' = [clock EXCEPT ![c] = Join(AtArrival(c), merged)]
     /\ mergedKnown' = [mergedKnown EXCEPT ![k] = UNION {known[d] : d \in here}]
     /\ known' = [known EXCEPT ![c] = @ \cup mergedKnown'[k]]
  /\ UNCHANGED << aicClock, aivClock, sameKindClock, lockClock, log, pub, lanePub,
                  lockKnown >>

(* The others join the merged clock when they get through.                 *)
MutBarrierReleasedUnordered(c) ==
  /\ SyncBlockReleased(c)
  /\ known' = [known EXCEPT ![c] = @ \cup mergedKnown[BarrierKeyOf(c)]]
  /\ UNCHANGED << clocks, memory, log, pub, lanePub, mergedKnown, lockKnown >>
BarrierReleased(c) ==
  LET k == BarrierKeyOf(c) IN
     /\ SyncBlockReleased(c)
     /\ clock' = [clock EXCEPT ![c] = Join(@, mergedClock[k])]
     /\ known' = [known EXCEPT ![c] = @ \cup mergedKnown[k]]
  /\ UNCHANGED << aicClock, aivClock, sameKindClock, mergedClock, lockClock, memory,
                  log, pub, lanePub, mergedKnown, lockKnown >>

-----------------------------------------------------------------------------
(* sync_block_lock inherits what the holders before have published.        *)
TakeLock(c) ==
  LET l == Op(c).lock IN
     /\ SyncBlockLock(c)
     /\ FlushAllPipes(c)
     /\ clock' = [clock EXCEPT ![c] = Ticked(Join(@, lockClock[l]), c)]
     /\ known' = [known EXCEPT ![c] = @ \cup lockKnown[l]]
  /\ UNCHANGED << aicClock, aivClock, sameKindClock, mergedClock, lockClock,
                  log, pub, lanePub, mergedKnown, lockKnown >>

GiveLock(c) ==
  LET l == Op(c).lock IN
     /\ ReleaseLock(c)
     /\ FlushAllPipes(c)
     /\ clock' = [clock EXCEPT ![c] = Ticked(@, c)]
     /\ lockClock' = [lockClock EXCEPT ![l] = Join(@, clock'[c])]
     /\ lockKnown' = [lockKnown EXCEPT ![l] = @ \cup known[c]]
  /\ UNCHANGED << aicClock, aivClock, sameKindClock, mergedClock, log, known, pub,
                  lanePub, mergedKnown >>

-----------------------------------------------------------------------------
(* The return of the kernel drains every pipe.                             *)
DrainAtReturn(c) ==
  /\ Return(c)
  /\ FlushAllPipes(c)
  /\ UNCHANGED << clocks, history >>

(* What reads no clock and commits nothing.                                *)
Other ==
  /\ \/ \E c \in Core : \/ SyncBlockWaitParks(c) \/ SyncBlockLockParks(c)
                        \/ WaitFlagParks(c) \/ Fail(c)
     \/ Finish \/ Retry \/ Deadlock
  /\ UNCHANGED << clocks, memory, history >>

RaceInit ==
  /\ Init
  /\ clock = [c \in Core |-> Zero]
  /\ aicClock = [k \in FlagKey |-> Zero]
  /\ aivClock = [k \in FlagKey |-> [c \in Core |-> Zero]]
  /\ sameKindClock = [k \in FlagKey |-> [n \in Kind |-> Zero]]
  /\ mergedClock = [k \in BarrierKey |-> Zero]
  /\ lockClock = [l \in Lock |-> Zero]
  /\ queue = [c \in Core |-> [p \in 1 .. NumPipes |-> << >>]]
  /\ hist = [b \in Byte |-> Fresh]
  /\ races = {}
  /\ log = {}
  /\ known = [c \in Core |-> {}]
  /\ pub = [k \in FlagKey |-> [n \in Kind |-> << >>]]
  /\ lanePub = [k \in FlagKey |-> [c \in Core |-> << >>]]
  /\ mergedKnown = [k \in BarrierKey |-> {}]
  /\ lockKnown = [l \in Lock |-> {}]

RaceNext ==
  \/ \E c \in Core :
       \/ Issue(c) \/ Publish(c) \/ Acquire(c)
       \/ BarrierParks(c) \/ BarrierFires(c) \/ BarrierReleased(c)
       \/ TakeLock(c) \/ GiveLock(c) \/ DrainAtReturn(c)
  \/ Other

RaceSpec == RaceInit /\ [][RaceNext]_raceVars

-----------------------------------------------------------------------------
(* The state of the clocks and of the histories is of the shape the code   *)
(* gives it; a clock has a component for every core.                       *)
Effect == [byte : Byte, isWrite : BOOLEAN, record : AccessRecord]
Clock  == [Core -> Nat]
Sites  == Core \X (Nat \ {0})

RaceTypeOK ==
  /\ clock \in [Core -> Clock]
  /\ aicClock \in [FlagKey -> Clock]
  /\ aivClock \in [FlagKey -> [Core -> Clock]]
  /\ sameKindClock \in [FlagKey -> [Kind -> Clock]]
  /\ mergedClock \in [BarrierKey -> Clock]
  /\ lockClock \in [Lock -> Clock]
  /\ queue \in [Core -> [1 .. NumPipes -> Seq(Effect)]]
  /\ hist \in [Byte -> Entry]
  /\ races \subseteq [byte : Byte, first : AccessRecord, second : AccessRecord]
  /\ log \subseteq [access : Access, record : AccessRecord, past : SUBSET Sites]
  /\ known \in [Core -> SUBSET Sites]
  /\ pub \in [FlagKey -> [Kind -> Seq(SUBSET Sites)]]
  /\ lanePub \in [FlagKey -> [Core -> Seq(SUBSET Sites)]]
  /\ mergedKnown \in [BarrierKey -> SUBSET Sites]
  /\ lockKnown \in [Lock -> SUBSET Sites]

Id(x) == << x.record.core, x.record.pos >>

(* Ordered by the program: by program order, by pairs of a set and the     *)
(* wait that takes it, by barriers and by the hand-over of a lock.         *)
Before(x, y) == Id(x) \in y.past

Clash(x, y) ==
  /\ x.record.core # y.record.core
  /\ x.access.byte = y.access.byte
  /\ x.access.isWrite \/ y.access.isWrite
  /\ "plain" \in {x.access.class, y.access.class} \/ x.access.class # y.access.class

(* No report is false: the two accesses it names touch one byte, one of    *)
(* them writes, and nothing in the program orders them, whenever their     *)
(* effects were committed.                                                 *)
ReportsAreRaces ==
  \A r \in races : \E x, y \in log :
    /\ x.record = r.first /\ y.record = r.second
    /\ Clash(x, y) /\ x.access.byte = r.byte
    /\ ~ Before(x, y) /\ ~ Before(y, x)

(* "Happens-before edges come from program order, ...                      *)
(* sync_block_set/sync_block_wait pairs, and barrier rendezvous"           *)
(* (docs/Architecture.md:171): the clocks of two accesses are ordered only *)
(* if those edges order them.                                              *)
ClocksOrderNothingElse ==
  \A x, y \in log :
    x # y /\ HappensBefore(x.record.clock, y.record.clock) => Before(x, y)

(* One clock per flag joins all sets, so a wait may learn more from it     *)
(* than the set it takes has published.  It learns no more where a flag is *)
(* used one set at a time: no set runs ahead of the wait that takes the    *)
(* one before, ...                                                         *)
TakenInTurn ==
  \A c \in Core : At(c, "wait") =>
    LET k == FlagKeyOf(c)
    IN  IF ~ HasOpposite(c) THEN sameKind[k][KindOf(c)] <= 1
        ELSE IF KindOf(c) = "AIV" THEN aicGen[k] <= aivSeen[k][c] + 1
        ELSE \A d \in Contributors(c, k) : aivCount[k][d] <= 1

(* ... and who sets it knows what those who set it before knew.            *)
SetsInOrder ==
  \A k \in FlagKey : \A n \in Kind : \A i, j \in 1 .. Len(pub[k][n]) :
    i < j => pub[k][n][i] \subseteq pub[k][n][j]

OneSetAtATime == TakenInTurn /\ SetsInOrder

(* The history of a byte keeps one record per core, and a report that is   *)
(* exempt hides the next.  Nothing is lost that way where the accesses of  *)
(* a core to a byte commit in the order of the program and before a set    *)
(* publishes them, ...                                                     *)
CommitsInTurn ==
  \A c \in Core :
    /\ At(c, "compute") =>
         LET a == launch.access[c][pc[c]]
         IN  \A p \in 1 .. NumPipes \ {a.pipe} : \A i \in DOMAIN queue[c][p] :
               queue[c][p][i].byte # a.byte
    /\ At(c, "set") =>
         \A p \in 1 .. NumPipes \ {launch.tpipe[Op(c).flag]} : queue[c][p] = << >>

(* ... and a byte is accessed in one way.                                  *)
OneClassEach ==
  \A x, y \in log : x.access.byte = y.access.byte => x.access.class = y.access.class

(* Every byte on which two accesses clash with nothing to order them has a *)
(* report by the end of the run.                                           *)
RacesAreReported ==
  outcome = "finished" =>
    \A x, y \in log :
      Clash(x, y) /\ ~ Before(x, y) /\ ~ Before(y, x) =>
        \E r \in races : r.byte = x.access.byte
=============================================================================
