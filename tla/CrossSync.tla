------------------------------ MODULE CrossSync ------------------------------
(***************************************************************************)
(* The cores of one launch, the scheduler that interleaves them            *)
(* (lib/Interpreter.cpp) and the operations they synchronise with:         *)
(* sync_block_set and sync_block_wait, sync_block, sync_block_lock and     *)
(* sync_block_unlock (lib/OpsSync.cpp).                                    *)
(*                                                                         *)
(* A core runs the straight-line sequence its kernel unfolds to.  What the *)
(* operations do to pipes and data is the subject of PipeEngine; here one  *)
(* operation is one step of one core, and "compute" stands for all those   *)
(* that touch no state shared between cores.  A flag id stands for the     *)
(* (tpipe, pipe, id) part of a CrossFlagKey.                               *)
(***************************************************************************)
EXTENDS Integers, Sequences, FiniteSets

CONSTANTS
  Launches,   \* the launches checked: topology, programs and scheduling mode
  FlagId,     \* ids of cross-core flags and barriers
  Mode,       \* the sync_block modes in use
  Lock,       \* lock variables
  MaxBlocks   \* bound of the model: options.blockDim of any launch

Kind  == {"AIC", "AIV"}
Block == 0 .. (MaxBlocks - 1)
Global == -1   \* CrossFlagKey::scope of an inter-block flag

FlagKey    == [flag : FlagId, scope : Block \cup {Global}]
BarrierKey == [mode : Mode \ {"ALL_SUB_VECTOR"}, flag : FlagId, block : {Global}]
              \cup [mode : Mode \cap {"ALL_SUB_VECTOR"}, flag : FlagId, block : Block]

(* "wait_flag" is one on an intra-core flag the core has not set, "error"  *)
(* an operation whose handler fails.                                       *)
Instr == [op : {"set", "wait"}, flag : FlagId, inter : BOOLEAN]
         \cup [op : {"barrier"}, mode : Mode, flag : FlagId]
         \cup [op : {"lock", "unlock"}, lock : Lock]
         \cup [op : {"compute", "wait_flag", "error"}]

-----------------------------------------------------------------------------
(***************************************************************************)
(* setupCores: for each block its AIC, if there is a cube kernel, then its *)
(* sub-vector cores, if there is a vector kernel; indices in that order.   *)
(***************************************************************************)
LanesPerBlock(l) == (IF l.cube THEN 1 ELSE 0) + l.subBlockNum

CoresOf(l) == 0 .. (l.blockDim * LanesPerBlock(l) - 1)

KindIn(l, c) == IF l.cube /\ c % LanesPerBlock(l) = 0 THEN "AIC" ELSE "AIV"

BlockIn(l, c) == c \div LanesPerBlock(l)

IsLaunch(l) ==
  /\ l.blockDim \in 1 .. MaxBlocks /\ l.subBlockNum \in Nat /\ l.cube \in BOOLEAN
  /\ l.fuzz \in BOOLEAN
  /\ CoresOf(l) # {} /\ CoresOf(l) \subseteq Nat
  /\ \A c \in CoresOf(l) : BlockIn(l, c) \in Block
  /\ l.program \in [CoresOf(l) -> Seq(Instr)]

ASSUME LaunchAssumption ==
  /\ MaxBlocks \in Nat \ {0}
  /\ Mode \subseteq {"ALL", "ALL_CUBE", "ALL_VECTOR", "ALL_SUB_VECTOR",
                    "BARRIER_CUBE", "BARRIER_VECTOR"}
  /\ \A l \in Launches : IsLaunch(l)

VARIABLES
  launch,      \* the launch being run
  pc,          \* per core, the operation it is at
  status,      \* CoreState::status
  blockedOn,   \* the flag or barrier key in CoreState::blockedOn, if any
  aicGen,      \* CrossFlagState::aicGeneration, per flag
  aivSeen,     \* CrossFlagState::aivSeenAicGeneration
  aivCount,    \* CrossFlagState::aivCount
  sameKind,    \* CrossFlagState::sameKindCount
  arrived,     \* BarrierState::arrived, per barrier key
  expected,    \* BarrierState::expected
  generation,  \* BarrierState::generation
  passed,      \* CoreState::barrierGeneration, per core and barrier key
  lockVar,     \* the content of each lock variable
  progressed,  \* progressCounter # lastRetryProgress
  nextCoreIdx, \* the cursor of the deterministic modes
  outcome,     \* "running", or how run() ended
  report,      \* the barriers detectDeadlock names
  arrivals,    \* history: rendezvous entered, per core and barrier key
  skipped      \* history: turns given to others while the core was runnable

flagVars    == <<aicGen, aivSeen, aivCount, sameKind>>
barrierVars == <<arrived, expected, generation, passed, arrivals>>
vars == <<launch, pc, status, blockedOn, flagVars, barrierVars, lockVar, progressed,
          nextCoreIdx, outcome, report, skipped>>

Core     == CoresOf(launch)
NumCores == launch.blockDim * LanesPerBlock(launch)
KindOf(c)  == KindIn(launch, c)
BlockOf(c) == BlockIn(launch, c)

AtEnd(c) == pc[c] > Len(launch.program[c])
Op(c)    == launch.program[c][pc[c]]
At(c, op) == ~AtEnd(c) /\ Op(c).op = op

IsBlocked(c) == status[c] \in {"BlockedOnFlag", "BlockedOnBarrier", "BlockedOnLock"}

-----------------------------------------------------------------------------
(* pickCore: any runnable core under Fuzz, else the first one from the     *)
(* cursor on.                                                              *)
Distance(c) == (c - nextCoreIdx + NumCores) % NumCores

CanPick(c) ==
  /\ status[c] = "Runnable"
  /\ ~launch.fuzz =>
       \A d \in Core : status[d] = "Runnable" => Distance(c) <= Distance(d)

(* One turn of run()'s loop for core c: the cursor moves on before the     *)
(* operation executes.  Under Fuzz nothing reads the cursor and it is left *)
(* where it is; a slice of several operations is several turns.            *)
MutTurnSticky(c) ==
  /\ outcome = "running"
  /\ CanPick(c)
  /\ IF launch.fuzz
       THEN UNCHANGED <<nextCoreIdx, skipped>>
       ELSE /\ nextCoreIdx' = c
            /\ skipped' = [d \in Core |-> IF d = c \/ status[d] # "Runnable"
                                            THEN 0 ELSE skipped[d] + 1]
  /\ UNCHANGED <<launch, report>>
Turn(c) ==
  /\ outcome = "running"
  /\ CanPick(c)
  /\ IF launch.fuzz
       THEN UNCHANGED <<nextCoreIdx, skipped>>
       ELSE /\ nextCoreIdx' = (c + 1) % NumCores
            /\ skipped' = [d \in Core |-> IF d = c \/ status[d] # "Runnable"
                                            THEN 0 ELSE skipped[d] + 1]
  /\ UNCHANGED <<launch, report>>

Advance(c) == pc' = [pc EXCEPT ![c] = @ + 1]

(* The core stays at its operation and re-executes it once it is woken.    *)
Park(c, why, key) ==
  /\ status' = [status EXCEPT ![c] = why]
  /\ blockedOn' = [blockedOn EXCEPT ![c] = key]
  /\ UNCHANGED pc

(* The cores of W, parked, are runnable again.                             *)
Wake(W) ==
  /\ status' = [c \in Core |-> IF c \in W THEN "Runnable" ELSE status[c]]
  /\ blockedOn' = [c \in Core |-> IF c \in W THEN {} ELSE blockedOn[c]]

Stay == UNCHANGED <<status, blockedOn>>

-----------------------------------------------------------------------------
(***************************************************************************)
(* Cross-core flags.                                                       *)
(***************************************************************************)
FlagKeyOf(c) == [flag |-> Op(c).flag,
                 scope |-> IF Op(c).inter THEN Global ELSE BlockOf(c)]

HasOpposite(c) == \E d \in Core : KindOf(d) # KindOf(c)

(* The vector cores an aggregate wait of AIC c collects from.              *)
Contributors(c, k) ==
  {d \in Core : KindOf(d) = "AIV" /\ (k.scope # Global => BlockOf(d) = BlockOf(c))}

MutFlagReadyEarly(c, k) ==
  IF ~HasOpposite(c) THEN sameKind[k][KindOf(c)] >= 0
  ELSE IF KindOf(c) = "AIV" THEN aivSeen[k][c] < aicGen[k]
  ELSE \E d \in Contributors(c, k) : aivCount[k][d] > 0
FlagReady(c, k) ==
  IF ~HasOpposite(c) THEN sameKind[k][KindOf(c)] > 0
  ELSE IF KindOf(c) = "AIV" THEN aivSeen[k][c] < aicGen[k]
  ELSE \A d \in Contributors(c, k) : aivCount[k][d] > 0

(* execSyncBlockSet, and wakeWaitersOn for the cores parked on the key.    *)
MutSyncBlockSetSilent(c) ==
  /\ Turn(c) /\ At(c, "set")
  /\ LET k == FlagKeyOf(c) IN
       IF ~HasOpposite(c)
         THEN /\ sameKind' = [sameKind EXCEPT ![k][KindOf(c)] = @ + 1]
              /\ UNCHANGED <<aicGen, aivCount>>
         ELSE IF KindOf(c) = "AIC"
           THEN /\ aicGen' = [aicGen EXCEPT ![k] = @ + 1]
                /\ UNCHANGED <<sameKind, aivCount>>
           ELSE /\ aivCount' = [aivCount EXCEPT ![k][c] = @ + 1]
                /\ UNCHANGED <<sameKind, aicGen>>
  /\ progressed' = TRUE
  /\ Advance(c) /\ Stay
  /\ UNCHANGED <<aivSeen, barrierVars, lockVar, outcome>>
SyncBlockSet(c) ==
  /\ Turn(c) /\ At(c, "set")
  /\ LET k == FlagKeyOf(c) IN
       /\ IF ~HasOpposite(c)
            THEN /\ sameKind' = [sameKind EXCEPT ![k][KindOf(c)] = @ + 1]
                 /\ UNCHANGED <<aicGen, aivCount>>
            ELSE IF KindOf(c) = "AIC"
              THEN /\ aicGen' = [aicGen EXCEPT ![k] = @ + 1]
                   /\ UNCHANGED <<sameKind, aivCount>>
              ELSE /\ aivCount' = [aivCount EXCEPT ![k][c] = @ + 1]
                   /\ UNCHANGED <<sameKind, aicGen>>
       /\ Wake({d \in Core : status[d] = "BlockedOnFlag" /\ blockedOn[d] = {k}})
  /\ progressed' = TRUE
  /\ Advance(c)
  /\ UNCHANGED <<aivSeen, barrierVars, lockVar, outcome>>

(* execSyncBlockWait, ready: the core takes what it waited for.            *)
MutSyncBlockWaitTakesAll(c) ==
  /\ Turn(c) /\ At(c, "wait")
  /\ FlagReady(c, FlagKeyOf(c))
  /\ LET k == FlagKeyOf(c) IN
       IF ~HasOpposite(c)
         THEN /\ sameKind' = [sameKind EXCEPT ![k][KindOf(c)] = 0]
              /\ UNCHANGED <<aivSeen, aivCount>>
         ELSE IF KindOf(c) = "AIV"
           THEN /\ aivSeen' = [aivSeen EXCEPT ![k][c] = aicGen[k]]
                /\ UNCHANGED <<sameKind, aivCount>>
           ELSE /\ aivCount' = [aivCount EXCEPT ![k] = [d \in Core |-> 0]]
                /\ UNCHANGED <<sameKind, aivSeen>>
  /\ Advance(c) /\ Stay
  /\ UNCHANGED <<aicGen, barrierVars, lockVar, progressed, outcome>>
SyncBlockWait(c) ==
  /\ Turn(c) /\ At(c, "wait")
  /\ FlagReady(c, FlagKeyOf(c))
  /\ LET k == FlagKeyOf(c) IN
       IF ~HasOpposite(c)
         THEN /\ sameKind' = [sameKind EXCEPT ![k][KindOf(c)] = @ - 1]
              /\ UNCHANGED <<aivSeen, aivCount>>
         ELSE IF KindOf(c) = "AIV"
           THEN /\ aivSeen' = [aivSeen EXCEPT ![k][c] = @ + 1]
                /\ UNCHANGED <<sameKind, aivCount>>
           ELSE /\ aivCount' = [aivCount EXCEPT ![k] =
                     [d \in Core |-> IF d \in Contributors(c, k) THEN @[d] - 1 ELSE @[d]]]
                /\ UNCHANGED <<sameKind, aivSeen>>
  /\ Advance(c) /\ Stay
  /\ UNCHANGED <<aicGen, barrierVars, lockVar, progressed, outcome>>

SyncBlockWaitParks(c) ==
  /\ Turn(c) /\ At(c, "wait")
  /\ ~FlagReady(c, FlagKeyOf(c))
  /\ Park(c, "BlockedOnFlag", {FlagKeyOf(c)})
  /\ UNCHANGED <<flagVars, barrierVars, lockVar, progressed, outcome>>

-----------------------------------------------------------------------------
(***************************************************************************)
(* Barriers: getBarrierParticipants and the three ways through             *)
(* execSyncBlock.                                                          *)
(***************************************************************************)
BarrierKeyOf(c) == [mode |-> Op(c).mode, flag |-> Op(c).flag,
                    block |-> IF Op(c).mode = "ALL_SUB_VECTOR" THEN BlockOf(c) ELSE Global]

Participants(block, mode) ==
  {d \in Core :
     \/ mode = "ALL"
     \/ mode \in {"ALL_CUBE", "BARRIER_CUBE"} /\ KindOf(d) = "AIC"
     \/ mode \in {"ALL_VECTOR", "BARRIER_VECTOR"} /\ KindOf(d) = "AIV"
     \/ mode = "ALL_SUB_VECTOR" /\ KindOf(d) = "AIV" /\ BlockOf(d) = block}

Members(k) == Participants(k.block, k.mode)

(* The expected count is computed when the site is first reached.          *)
Expected(c, k) == IF expected[k] = 0 THEN Cardinality(Participants(BlockOf(c), k.mode))
                                     ELSE expected[k]

MutDueEarly(c, k) == passed[c][k] <= generation[k]
Due(c, k) == passed[c][k] < generation[k]

(* The site has fired since the core last went through it.                 *)
SyncBlockReleased(c) ==
  /\ Turn(c) /\ At(c, "barrier")
  /\ LET k == BarrierKeyOf(c) IN
       /\ Due(c, k)
       /\ passed' = [passed EXCEPT ![c][k] = @ + 1]
       /\ expected' = [expected EXCEPT ![k] = Expected(c, k)]
  /\ Advance(c) /\ Stay
  /\ UNCHANGED <<flagVars, arrived, generation, arrivals, lockVar, progressed, outcome>>

(* The core arrives, or re-tests after a retry, and others are missing.    *)
SyncBlockParks(c) ==
  /\ Turn(c) /\ At(c, "barrier")
  /\ LET k == BarrierKeyOf(c)
         here == arrived[k] \cup {c}
     IN  /\ ~Due(c, k)
         /\ Cardinality(here) < Expected(c, k)
         /\ arrived' = [arrived EXCEPT ![k] = here]
         /\ expected' = [expected EXCEPT ![k] = Expected(c, k)]
         /\ arrivals' = [arrivals EXCEPT ![c][k] = IF c \in arrived[k] THEN @ ELSE @ + 1]
         /\ Park(c, "BlockedOnBarrier", {k})
  /\ UNCHANGED <<flagVars, generation, passed, lockVar, progressed, outcome>>

(* The last one in fires the site and is through itself.                   *)
MutSyncBlockFiresClearsFirst(c) ==
  /\ Turn(c) /\ At(c, "barrier")
  /\ LET k == BarrierKeyOf(c)
         here == arrived[k] \cup {c}
     IN  /\ ~Due(c, k)
         /\ Cardinality(here) >= Expected(c, k)
         /\ arrived' = [arrived EXCEPT ![k] = {c}]
         /\ expected' = [expected EXCEPT ![k] = Expected(c, k)]
         /\ generation' = [generation EXCEPT ![k] = @ + 1]
         /\ passed' = [passed EXCEPT ![c][k] = @ + 1]
         /\ arrivals' = [arrivals EXCEPT ![c][k] = IF c \in arrived[k] THEN @ ELSE @ + 1]
         /\ Wake({d \in here : status[d] = "BlockedOnBarrier" /\ blockedOn[d] = {k}})
  /\ progressed' = TRUE
  /\ Advance(c)
  /\ UNCHANGED <<flagVars, lockVar, outcome>>
SyncBlockFires(c) ==
  /\ Turn(c) /\ At(c, "barrier")
  /\ LET k == BarrierKeyOf(c)
         here == arrived[k] \cup {c}
     IN  /\ ~Due(c, k)
         /\ Cardinality(here) >= Expected(c, k)
         /\ arrived' = [arrived EXCEPT ![k] = {}]
         /\ expected' = [expected EXCEPT ![k] = Expected(c, k)]
         /\ generation' = [generation EXCEPT ![k] = @ + 1]
         /\ passed' = [passed EXCEPT ![c][k] = @ + 1]
         /\ arrivals' = [arrivals EXCEPT ![c][k] = IF c \in arrived[k] THEN @ ELSE @ + 1]
         /\ Wake({d \in here : status[d] = "BlockedOnBarrier" /\ blockedOn[d] = {k}})
  /\ progressed' = TRUE
  /\ Advance(c)
  /\ UNCHANGED <<flagVars, lockVar, outcome>>

-----------------------------------------------------------------------------
(***************************************************************************)
(* Block locks: a block enters when the variable holds its index.          *)
(***************************************************************************)
MutSyncBlockLockPast(c) ==
  /\ Turn(c) /\ At(c, "lock")
  /\ lockVar[Op(c).lock] >= BlockOf(c)
  /\ Advance(c) /\ Stay
  /\ UNCHANGED <<flagVars, barrierVars, lockVar, progressed, outcome>>
SyncBlockLock(c) ==
  /\ Turn(c) /\ At(c, "lock")
  /\ lockVar[Op(c).lock] = BlockOf(c)
  /\ Advance(c) /\ Stay
  /\ UNCHANGED <<flagVars, barrierVars, lockVar, progressed, outcome>>

SyncBlockLockParks(c) ==
  /\ Turn(c) /\ At(c, "lock")
  /\ lockVar[Op(c).lock] # BlockOf(c)
  /\ Park(c, "BlockedOnLock", {})
  /\ UNCHANGED <<flagVars, barrierVars, lockVar, progressed, outcome>>

(* releaseLock, of sync_block_unlock and free_lock_var: it moves the       *)
(* variable on, whoever holds the lock, and wakes whoever waits for one.   *)
ReleaseLock(c) ==
  /\ Turn(c) /\ At(c, "unlock")
  /\ lockVar' = [lockVar EXCEPT ![Op(c).lock] =
                   IF @ + 1 >= launch.blockDim THEN 0 ELSE @ + 1]
  /\ Wake({d \in Core : status[d] = "BlockedOnLock"})
  /\ progressed' = TRUE
  /\ Advance(c)
  /\ UNCHANGED <<flagVars, barrierVars, outcome>>

-----------------------------------------------------------------------------
Compute(c) ==
  /\ Turn(c) /\ At(c, "compute")
  /\ Advance(c) /\ Stay
  /\ UNCHANGED <<flagVars, barrierVars, lockVar, progressed, outcome>>

(* execWaitFlag on a flag nothing queued will raise: no cross-core key.    *)
WaitFlagParks(c) ==
  /\ Turn(c) /\ At(c, "wait_flag")
  /\ Park(c, "BlockedOnFlag", {})
  /\ UNCHANGED <<flagVars, barrierVars, lockVar, progressed, outcome>>

(* An operation that fails ends the whole run.                             *)
Fail(c) ==
  /\ Turn(c) /\ At(c, "error")
  /\ status' = [status EXCEPT ![c] = "Failed"]
  /\ outcome' = "aborted"
  /\ UNCHANGED <<pc, blockedOn, flagVars, barrierVars, lockVar, progressed>>

(* execReturn of the kernel entry.                                         *)
Return(c) ==
  /\ Turn(c) /\ AtEnd(c)
  /\ status' = [status EXCEPT ![c] = "Done"]
  /\ UNCHANGED <<pc, blockedOn, flagVars, barrierVars, lockVar, progressed, outcome>>

-----------------------------------------------------------------------------
(***************************************************************************)
(* run() when pickCore finds nobody.                                       *)
(***************************************************************************)
Stuck == outcome = "running" /\ \A c \in Core : status[c] # "Runnable"

Finish ==
  /\ Stuck
  /\ \A c \in Core : ~IsBlocked(c)
  /\ outcome' = "finished"
  /\ UNCHANGED <<launch, pc, status, blockedOn, flagVars, barrierVars, lockVar,
                 progressed, nextCoreIdx, report, skipped>>

(* Something happened since the last retry: everyone parked tests again.   *)
MutRetryForever ==
  /\ Stuck
  /\ \E c \in Core : IsBlocked(c)
  /\ progressed
  /\ Wake({c \in Core : IsBlocked(c)})
  /\ UNCHANGED <<launch, pc, flagVars, barrierVars, lockVar, progressed, nextCoreIdx,
                 outcome, report, skipped>>
Retry ==
  /\ Stuck
  /\ \E c \in Core : IsBlocked(c)
  /\ progressed
  /\ progressed' = FALSE
  /\ Wake({c \in Core : IsBlocked(c)})
  /\ UNCHANGED <<launch, pc, flagVars, barrierVars, lockVar, nextCoreIdx, outcome,
                 report, skipped>>

(* detectDeadlock: a barrier somebody is waiting at is an arrival mismatch *)
(* and is reported with the participants core 0 would have; with none the  *)
(* deadlock is called a circular flag wait.                                *)
Deadlock ==
  /\ Stuck
  /\ \E c \in Core : IsBlocked(c)
  /\ ~progressed
  /\ outcome' = "deadlock"
  /\ report' = {[key |-> k, participants |-> Participants(BlockOf(0), k.mode)] :
                  k \in {b \in BarrierKey : /\ arrived[b] # {}
                                            /\ Cardinality(arrived[b]) < expected[b]}}
  /\ UNCHANGED <<launch, pc, status, blockedOn, flagVars, barrierVars, lockVar,
                 progressed, nextCoreIdx, skipped>>

-----------------------------------------------------------------------------
Init ==
  /\ launch \in Launches
  /\ pc = [c \in Core |-> 1]
  /\ status = [c \in Core |-> "Runnable"]
  /\ blockedOn = [c \in Core |-> {}]
  /\ aicGen = [k \in FlagKey |-> 0]
  /\ aivSeen = [k \in FlagKey |-> [c \in Core |-> 0]]
  /\ aivCount = [k \in FlagKey |-> [c \in Core |-> 0]]
  /\ sameKind = [k \in FlagKey |-> [n \in Kind |-> 0]]
  /\ arrived = [k \in BarrierKey |-> {}]
  /\ expected = [k \in BarrierKey |-> 0]
  /\ generation = [k \in BarrierKey |-> 0]
  /\ passed = [c \in Core |-> [k \in BarrierKey |-> 0]]
  /\ lockVar = [l \in Lock |-> 0]
  /\ progressed = TRUE
  /\ nextCoreIdx = 0
  /\ outcome = "running"
  /\ report = {}
  /\ arrivals = [c \in Core |-> [k \in BarrierKey |-> 0]]
  /\ skipped = [c \in Core |-> 0]

Step(c) ==
  \/ SyncBlockSet(c) \/ SyncBlockWait(c) \/ SyncBlockWaitParks(c)
  \/ SyncBlockReleased(c) \/ SyncBlockParks(c) \/ SyncBlockFires(c)
  \/ SyncBlockLock(c) \/ SyncBlockLockParks(c) \/ ReleaseLock(c)
  \/ Compute(c) \/ WaitFlagParks(c) \/ Fail(c) \/ Return(c)

Next == (\E c \in Core : Step(c)) \/ Finish \/ Retry \/ Deadlock

Spec == Init /\ [][Next]_vars

(* run() is a loop that takes a turn whenever there is one to take; which  *)
(* core gets it is pickCore's business and nothing is assumed of it.       *)
FairSpec == Spec /\ WF_vars(Next)

-----------------------------------------------------------------------------
(***************************************************************************)
(* What the cores have done so far, read off their programs: the position  *)
(* of every operation a core has got through.                              *)
(***************************************************************************)
Executed == UNION {{c} \X (1 .. (pc[c] - 1)) : c \in Core}

InstrAt(x) == launch.program[x[1]][x[2]]

(* How often the cores of D have set, or waited on, flag k.                *)
FlagOps(D, op, k) ==
  Cardinality({x \in Executed :
     /\ x[1] \in D /\ InstrAt(x).op = op /\ InstrAt(x).flag = k.flag
     /\ k.scope = IF InstrAt(x).inter THEN Global ELSE BlockOf(x[1])})

LockOps(D, op, l) ==
  Cardinality({x \in Executed :
     x[1] \in D /\ InstrAt(x).op = op /\ InstrAt(x).lock = l})

OfKind(n) == {d \in Core : KindOf(d) = n}

(* The credit a wait of core c on flag k needs, by the counting the        *)
(* program has done: a semaphore between cores of one kind, one broadcast  *)
(* from the cubes for each vector core, one contribution of each vector    *)
(* core in scope for the cubes.                                            *)
Earned(c, k) ==
  IF ~HasOpposite(c) THEN FlagOps(Core, "set", k) > FlagOps(Core, "wait", k)
  ELSE IF KindOf(c) = "AIV"
    THEN FlagOps(OfKind("AIC"), "set", k) > FlagOps({c}, "wait", k)
    ELSE \A d \in Contributors(c, k) :
           FlagOps({d}, "set", k) > FlagOps(OfKind("AIC"), "wait", k)

Statuses == {"Runnable", "BlockedOnFlag", "BlockedOnBarrier", "BlockedOnLock",
             "Done", "Failed"}

(* No counter is ever below zero: each of the three flag disciplines takes *)
(* only what it has tested.                                                *)
TypeOK ==
  /\ IsLaunch(launch)
  /\ pc \in [Core -> Nat \ {0}]
  /\ status \in [Core -> Statuses]
  /\ blockedOn \in [Core -> SUBSET (FlagKey \cup BarrierKey)]
  /\ aicGen \in [FlagKey -> Nat]
  /\ aivSeen \in [FlagKey -> [Core -> Nat]]
  /\ aivCount \in [FlagKey -> [Core -> Nat]]
  /\ sameKind \in [FlagKey -> [Kind -> Nat]]
  /\ arrived \in [BarrierKey -> SUBSET Core]
  /\ expected \in [BarrierKey -> Nat]
  /\ generation \in [BarrierKey -> Nat]
  /\ passed \in [Core -> [BarrierKey -> Nat]]
  /\ lockVar \in [Lock -> Nat]
  /\ progressed \in BOOLEAN
  /\ nextCoreIdx \in Nat
  /\ outcome \in {"running", "finished", "deadlock", "aborted"}
  /\ report \subseteq [key : BarrierKey, participants : SUBSET Core]
  /\ arrivals \in [Core -> [BarrierKey -> Nat]]
  /\ skipped \in [Core -> Nat]

(* A core is parked only while what it waits for has not happened: the     *)
(* wake-ups alone are complete, and the retry of run() never finds a core  *)
(* that a missed wake-up left behind.                                      *)
ParkedCannotGo(c) ==
  /\ status[c] = "BlockedOnFlag" /\ At(c, "wait") => ~FlagReady(c, FlagKeyOf(c))
  /\ status[c] = "BlockedOnBarrier" =>
       /\ At(c, "barrier")
       /\ LET k == BarrierKeyOf(c)
          IN  ~Due(c, k) /\ c \in arrived[k] /\ Cardinality(arrived[k]) < expected[k]
  /\ status[c] = "BlockedOnLock" => At(c, "lock") /\ lockVar[Op(c).lock] # BlockOf(c)

NoLostWakeup == \A c \in Core : ParkedCannotGo(c)

(* A reported deadlock is one of the program and not of the scheduler: by  *)
(* the operations executed, no parked core is owed its flag, some          *)
(* participant has entered fewer rendezvous of the barrier than the core   *)
(* waiting there, and the lock is another block's turn.                    *)
GenuineDeadlock ==
  outcome = "deadlock" =>
    \A c \in Core :
      /\ status[c] = "BlockedOnFlag" /\ At(c, "wait") => ~Earned(c, FlagKeyOf(c))
      /\ status[c] = "BlockedOnBarrier" =>
           LET k == BarrierKeyOf(c)
           IN  \E d \in Participants(BlockOf(c), k.mode) : arrivals[d][k] < arrivals[c][k]
      /\ status[c] = "BlockedOnLock" =>
           LockOps(Core, "unlock", Op(c).lock) % launch.blockDim # BlockOf(c)

(* Two cores are never between lock and unlock of one lock variable.       *)
Holding(c, l) == LockOps({c}, "lock", l) > LockOps({c}, "unlock", l)

LockExcludes ==
  \A l \in Lock : \A c, d \in Core : Holding(c, l) /\ Holding(d, l) => c = d

(* The launches whose barriers are reached by their participants only.     *)
NoStrangers ==
  \A c \in Core : \A i \in 1 .. Len(launch.program[c]) :
    launch.program[c][i].op = "barrier" =>
      c \in Participants(BlockOf(c), launch.program[c][i].mode)

(* The diagnosis of a deadlock fits its cause.  The barriers named are     *)
(* those somebody waits at, so that it is called a circular flag wait when *)
(* there is none.  At a barrier of the launch, or of core 0's block, the   *)
(* participants listed as missing are the cores to look at: there is one,  *)
(* and each has entered fewer rendezvous than everybody waiting.           *)
Blamed(r) == r.participants \ arrived[r.key]

DiagnosisFits ==
  outcome = "deadlock" =>
    /\ {r.key : r \in report} =
         {BarrierKeyOf(c) : c \in {d \in Core : status[d] = "BlockedOnBarrier"}}
    /\ \A r \in report : r.key.block \in {Global, BlockOf(0)} =>
         /\ Blamed(r) # {}
         /\ \A d \in Blamed(r) : \A c \in arrived[r.key] :
              arrivals[d][r.key] < arrivals[c][r.key]

(* The deterministic modes give every runnable core a turn before anybody  *)
(* gets a second one.                                                      *)
RoundRobinFair == \A c \in Core : skipped[c] < NumCores

(* The loop of run() ends: retries feed on progress, which programs run    *)
(* out of.                                                                 *)
Terminates == <>(outcome # "running")

(* Every site implements Rendezvous for its participants.                  *)
Site(k) == INSTANCE Rendezvous WITH
             members <- Members(k),
             entered <- [c \in Members(k) |-> arrivals[c][k]],
             left <- [c \in Members(k) |-> passed[c][k]]

SitesImplementRendezvous ==
  /\ \A k \in BarrierKey : Site(k)!Init
  /\ [][\A k \in BarrierKey : [Site(k)!Next]_(Site(k)!vars)]_vars
=============================================================================
