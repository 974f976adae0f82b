--------------------------- MODULE CrossSyncProofs ---------------------------
(***************************************************************************)
(* Theorems of CrossSync, for every set of launches.  TypeCorrect says,    *)
(* with the rest of the types, that no flag counter goes below zero;       *)
(* WakeupsAreComplete that the wake-ups alone release every parked core    *)
(* whose condition has come true; SitesAreRendezvous what a barrier gives  *)
(* its participants.  The last part is about the scheduler: in the         *)
(* deterministic modes no runnable core is passed over for a whole round,  *)
(* a deadlock it reports is one of the program and names the cores that    *)
(* cause it, and cores that keep the lock discipline never are between     *)
(* acquire and release of a lock together.                                 *)
(***************************************************************************)
EXTENDS CrossSync, FiniteSetTheorems, TLAPS

-----------------------------------------------------------------------------
(* The cores of a launch are numbered from zero without gaps.              *)
LEMMA CoreFacts ==
  ASSUME IsLaunch(launch)
  PROVE  /\ NumCores \in Nat \ {0}
         /\ Core = 0 .. (NumCores - 1)
         /\ IsFiniteSet(Core)
         /\ 0 \in Core
         /\ \A c \in Core : BlockOf(c) \in Block /\ KindOf(c) \in Kind
<1>1. LanesPerBlock(launch) \in Nat /\ launch.blockDim \in Nat
  <2>1. MaxBlocks \in Nat
    BY LaunchAssumption
  <2> QED BY <2>1 DEF IsLaunch, LanesPerBlock
<1> DEFINE lanes == LanesPerBlock(launch)
           blocks == launch.blockDim
<1>2. blocks * lanes \in Nat
  <2> HIDE DEF lanes, blocks
  <2>1. lanes \in Nat /\ blocks \in Nat
    BY <1>1 DEF lanes, blocks
  <2> QED BY <2>1
<1>3. NumCores \in Nat /\ Core = 0 .. (NumCores - 1)
  BY <1>2 DEF NumCores, Core, CoresOf
<1>4. Core # {}
  BY DEF IsLaunch, Core
<1>5. NumCores # 0
  BY <1>3, <1>4
<1>6. IsFiniteSet(Core)
  BY <1>3, FS_Interval
<1>7. \A c \in Core : BlockOf(c) \in Block
  BY DEF IsLaunch, BlockOf, Core
<1>8. \A c \in Core : KindOf(c) \in Kind
  BY DEF KindOf, KindIn, Kind
<1> QED BY <1>3, <1>5, <1>6, <1>7, <1>8

(* The operation a core is at is one of the instruction set.               *)
LEMMA OpFacts ==
  ASSUME IsLaunch(launch), NEW c \in Core, pc[c] \in Nat \ {0}, ~AtEnd(c)
  PROVE  Op(c) \in Instr
<1>1. launch.program[c] \in Seq(Instr)
  BY DEF IsLaunch, Core
<1> QED BY <1>1 DEF AtEnd, Op

(* What the operation names.                                               *)
LEMMA FlagKeyFacts ==
  ASSUME IsLaunch(launch), NEW c \in Core, pc[c] \in Nat \ {0},
         At(c, "set") \/ At(c, "wait")
  PROVE  FlagKeyOf(c) \in FlagKey
<1>1. Op(c) \in Instr /\ Op(c).op \in {"set", "wait"}
  BY OpFacts DEF At
<1>2. Op(c).flag \in FlagId /\ Op(c).inter \in BOOLEAN
  BY <1>1 DEF Instr
<1> QED BY <1>2, CoreFacts DEF FlagKeyOf, FlagKey

(* The key of a barrier a core is at is one of the keys the state is       *)
(* indexed by.                                                             *)
LEMMA BarrierKeyFacts ==
  ASSUME IsLaunch(launch), NEW c \in Core, pc[c] \in Nat \ {0}, At(c, "barrier")
  PROVE  BarrierKeyOf(c) \in BarrierKey
<1>1. Op(c) \in Instr /\ Op(c).op = "barrier"
  BY OpFacts DEF At
<1>2. Op(c).flag \in FlagId /\ Op(c).mode \in Mode
  BY <1>1 DEF Instr
<1> QED BY <1>2, CoreFacts DEF BarrierKeyOf, BarrierKey

(* The lock variable a core locks or unlocks is one of the lock            *)
(* variables.                                                              *)
LEMMA LockFacts ==
  ASSUME IsLaunch(launch), NEW c \in Core, pc[c] \in Nat \ {0},
         At(c, "lock") \/ At(c, "unlock")
  PROVE  Op(c).lock \in Lock
<1>1. Op(c) \in Instr /\ Op(c).op \in {"lock", "unlock"}
  BY OpFacts DEF At
<1> QED BY <1>1 DEF Instr

(* An update of a family of counters keeps it one.                         *)
LEMMA Update ==
  ASSUME NEW A, NEW B, NEW f \in [A -> [B -> Nat]], NEW a \in A, NEW b \in B,
         NEW n \in Nat
  PROVE  [f EXCEPT ![a] = [f[a] EXCEPT ![b] = n]] \in [A -> [B -> Nat]]
OBVIOUS

-----------------------------------------------------------------------------
(* The parts of TypeOK that a family of actions leaves alone.              *)
FlagTypes == /\ aicGen \in [FlagKey -> Nat]
             /\ aivSeen \in [FlagKey -> [Core -> Nat]]
             /\ aivCount \in [FlagKey -> [Core -> Nat]]
             /\ sameKind \in [FlagKey -> [Kind -> Nat]]

BarrierTypes == /\ arrived \in [BarrierKey -> SUBSET Core]
                /\ expected \in [BarrierKey -> Nat]
                /\ generation \in [BarrierKey -> Nat]
                /\ passed \in [Core -> [BarrierKey -> Nat]]
                /\ arrivals \in [Core -> [BarrierKey -> Nat]]

ControlTypes == /\ pc \in [Core -> Nat \ {0}]
                /\ status \in [Core -> Statuses]
                /\ blockedOn \in [Core -> SUBSET (FlagKey \cup BarrierKey)]

TurnTypes == /\ IsLaunch(launch)
             /\ nextCoreIdx \in Nat
             /\ skipped \in [Core -> Nat]
             /\ report \subseteq [key : BarrierKey, participants : SUBSET Core]

OtherTypes == /\ lockVar \in [Lock -> Nat]
              /\ progressed \in BOOLEAN
              /\ outcome \in {"running", "finished", "deadlock", "aborted"}

(* The parts make up the whole.                                            *)
LEMMA TypeParts ==
  TypeOK <=> FlagTypes /\ BarrierTypes /\ ControlTypes /\ TurnTypes /\ OtherTypes
BY Zenon DEF TypeOK, FlagTypes, BarrierTypes, ControlTypes, TurnTypes, OtherTypes

(* A turn keeps what the scheduler owns in type, and the launch as it is.  *)
LEMMA TurnKeepsTypes ==
  ASSUME TurnTypes, NEW c \in Core, Turn(c)
  PROVE  TurnTypes' /\ launch' = launch /\ Core' = Core
<1>1. launch' = launch /\ report' = report
  BY DEF Turn
<1>2. Core' = Core
  BY <1>1 DEF Core
<1>3. IsLaunch(launch)'
  BY <1>1 DEF TurnTypes
<1>4. NumCores \in Nat \ {0} /\ Core = 0 .. (NumCores - 1)
  BY CoreFacts DEF TurnTypes
<1>5. nextCoreIdx' \in Nat
  <2>1. (c + 1) % NumCores \in Nat
    BY <1>4
  <2> QED BY <2>1 DEF Turn, TurnTypes
<1>6. skipped' \in [Core -> Nat]
  BY DEF Turn, TurnTypes
<1>7. report' \subseteq [key : BarrierKey, participants : SUBSET Core]
  BY <1>1 DEF TurnTypes
<1> QED BY <1>1, <1>2, <1>3, <1>5, <1>6, <1>7 DEF TurnTypes

(* The three things a step does to its core, and the wake-up of others.    *)
LEMMA AdvanceKeepsTypes ==
  ASSUME ControlTypes, Core' = Core, NEW c \in Core, Advance(c),
         Stay \/ \E W \in SUBSET Core : Wake(W)
  PROVE  ControlTypes'
<1>1. pc' \in [Core -> Nat \ {0}]
  BY DEF ControlTypes, Advance
<1>2. /\ status' \in [Core -> Statuses]
      /\ blockedOn' \in [Core -> SUBSET (FlagKey \cup BarrierKey)]
  <2>1. CASE Stay
    BY <2>1 DEF ControlTypes, Stay
  <2>2. ASSUME NEW W \in SUBSET Core, Wake(W)
        PROVE  /\ status' \in [Core -> Statuses]
               /\ blockedOn' \in [Core -> SUBSET (FlagKey \cup BarrierKey)]
    BY <2>2 DEF ControlTypes, Wake, Statuses
  <2> QED BY <2>1, <2>2
<1> QED BY <1>1, <1>2 DEF ControlTypes

(* Parking keeps the control state of the cores in type.                   *)
LEMMA ParkKeepsTypes ==
  ASSUME ControlTypes, Core' = Core, NEW c \in Core, NEW why \in Statuses,
         NEW keys \in SUBSET (FlagKey \cup BarrierKey), Park(c, why, keys)
  PROVE  ControlTypes'
BY DEF ControlTypes, Park

(* A raise only counts up.                                                 *)
LEMMA SetKeepsTypes ==
  ASSUME TypeOK, NEW c \in Core, SyncBlockSet(c)
  PROVE  TypeOK'
<1>1. FlagTypes /\ BarrierTypes /\ ControlTypes /\ TurnTypes /\ OtherTypes
  BY TypeParts
<1>2. TurnTypes' /\ Core' = Core
  BY <1>1, TurnKeepsTypes DEF SyncBlockSet
<1>3. At(c, "set") /\ pc[c] \in Nat \ {0} /\ IsLaunch(launch)
  BY <1>1 DEF SyncBlockSet, ControlTypes, TurnTypes
<1>4. PICK k \in FlagKey : k = FlagKeyOf(c)
  BY <1>3, FlagKeyFacts
<1>5. KindOf(c) \in Kind
  BY <1>3, CoreFacts
<1>6. ControlTypes'
  <2>1. Advance(c) /\ \E W \in SUBSET Core : Wake(W)
    BY DEF SyncBlockSet
  <2> QED BY <1>1, <1>2, <2>1, AdvanceKeepsTypes
<1>7. FlagTypes'
  <2>1. UNCHANGED aivSeen
    BY DEF SyncBlockSet
  <2>2. CASE ~HasOpposite(c)
    <3>1. /\ sameKind' = [sameKind EXCEPT ![k][KindOf(c)] = @ + 1]
          /\ UNCHANGED <<aicGen, aivCount>>
      BY <1>4, <2>2 DEF SyncBlockSet
    <3>2. sameKind[k][KindOf(c)] + 1 \in Nat
      BY <1>1, <1>5 DEF FlagTypes
    <3> QED BY <1>1, <1>2, <1>5, <2>1, <3>1, <3>2 DEF FlagTypes
  <2>3. CASE HasOpposite(c) /\ KindOf(c) = "AIC"
    <3>1. aicGen' = [aicGen EXCEPT ![k] = @ + 1] /\ UNCHANGED <<sameKind, aivCount>>
      BY <1>4, <2>3 DEF SyncBlockSet
    <3> QED BY <1>1, <1>2, <2>1, <3>1 DEF FlagTypes
  <2>4. CASE HasOpposite(c) /\ KindOf(c) # "AIC"
    <3>1. aivCount' = [aivCount EXCEPT ![k][c] = @ + 1] /\ UNCHANGED <<sameKind, aicGen>>
      BY <1>4, <2>4 DEF SyncBlockSet
    <3>2. aivCount[k][c] + 1 \in Nat
      BY <1>1 DEF FlagTypes
    <3> QED BY <1>1, <1>2, <2>1, <3>1, <3>2 DEF FlagTypes
  <2> QED BY <2>2, <2>3, <2>4
<1>8. BarrierTypes'
  <2>1. UNCHANGED barrierVars
    BY DEF SyncBlockSet
  <2> QED BY <1>1, <1>2, <2>1 DEF BarrierTypes, barrierVars
<1>9. OtherTypes'
  BY <1>1 DEF SyncBlockSet, OtherTypes
<1> QED
  <2>1. FlagTypes' /\ BarrierTypes' /\ ControlTypes' /\ TurnTypes' /\ OtherTypes'
    BY <1>2, <1>6, <1>7, <1>8, <1>9
  <2> QED BY <2>1, TypeParts, PTL

(* A wait takes from a counter only what FlagReady has found there, so     *)
(* none falls below zero.                                                  *)
LEMMA WaitKeepsTypes ==
  ASSUME TypeOK, NEW c \in Core, SyncBlockWait(c)
  PROVE  TypeOK'
<1>1. FlagTypes /\ BarrierTypes /\ ControlTypes /\ TurnTypes /\ OtherTypes
  BY TypeParts
<1>2. TurnTypes' /\ Core' = Core
  BY <1>1, TurnKeepsTypes DEF SyncBlockWait
<1>3. At(c, "wait") /\ pc[c] \in Nat \ {0} /\ IsLaunch(launch)
  BY <1>1 DEF SyncBlockWait, ControlTypes, TurnTypes
<1>4. PICK k \in FlagKey : k = FlagKeyOf(c)
  BY <1>3, FlagKeyFacts
<1>5. KindOf(c) \in Kind
  BY <1>3, CoreFacts
<1>6. ControlTypes'
  BY <1>1, <1>2, AdvanceKeepsTypes DEF SyncBlockWait
<1>7. FlagTypes'
  <2>1. UNCHANGED aicGen /\ FlagReady(c, k)
    BY <1>4 DEF SyncBlockWait
  <2>2. CASE ~HasOpposite(c)
    <3>1. /\ sameKind' = [sameKind EXCEPT ![k][KindOf(c)] = @ - 1]
          /\ UNCHANGED <<aivSeen, aivCount>>
      BY <1>4, <2>2 DEF SyncBlockWait
    <3>2. sameKind[k][KindOf(c)] - 1 \in Nat
      BY <1>1, <1>5, <2>1, <2>2 DEF FlagTypes, FlagReady
    <3> QED BY <1>1, <1>2, <1>5, <2>1, <3>1, <3>2 DEF FlagTypes
  <2>3. CASE HasOpposite(c) /\ KindOf(c) = "AIV"
    <3>1. aivSeen' = [aivSeen EXCEPT ![k][c] = @ + 1] /\ UNCHANGED <<sameKind, aivCount>>
      BY <1>4, <2>3 DEF SyncBlockWait
    <3>2. aivSeen[k][c] + 1 \in Nat
      BY <1>1 DEF FlagTypes
    <3> QED BY <1>1, <1>2, <2>1, <3>1, <3>2 DEF FlagTypes
  <2>4. CASE HasOpposite(c) /\ KindOf(c) # "AIV"
    <3>1. /\ aivCount' = [aivCount EXCEPT ![k] =
                [d \in Core |-> IF d \in Contributors(c, k) THEN @[d] - 1 ELSE @[d]]]
          /\ UNCHANGED <<sameKind, aivSeen>>
      BY <1>4, <2>4 DEF SyncBlockWait
    <3>2. PICK C : C = Contributors(c, k)
      OBVIOUS
    <3>3. \A d \in C : aivCount[k][d] > 0
      BY <2>1, <2>4, <3>2 DEF FlagReady
    <3>4. [d \in Core |-> IF d \in C THEN aivCount[k][d] - 1 ELSE aivCount[k][d]]
            \in [Core -> Nat]
      <4>1. ASSUME NEW d \in Core
            PROVE  (IF d \in C THEN aivCount[k][d] - 1 ELSE aivCount[k][d]) \in Nat
        BY <1>1, <3>3 DEF FlagTypes
      <4> QED BY <4>1
    <3>5. aivCount' = [aivCount EXCEPT ![k] =
                [d \in Core |-> IF d \in C THEN aivCount[k][d] - 1 ELSE aivCount[k][d]]]
      BY <3>1, <3>2
    <3> QED BY <1>1, <1>2, <2>1, <3>1, <3>4, <3>5 DEF FlagTypes
  <2> QED BY <2>2, <2>3, <2>4
<1>8. BarrierTypes' /\ OtherTypes'
  <2>1. UNCHANGED <<barrierVars, lockVar, progressed, outcome>>
    BY DEF SyncBlockWait
  <2> QED BY <1>1, <1>2, <2>1 DEF BarrierTypes, barrierVars, OtherTypes
<1> QED
  <2>1. FlagTypes' /\ BarrierTypes' /\ ControlTypes' /\ TurnTypes' /\ OtherTypes'
    BY <1>2, <1>6, <1>7, <1>8
  <2> QED BY <2>1, TypeParts, PTL

(* The three ways through a barrier keep the site and the core in type.    *)
LEMMA BarrierKeepsTypes ==
  ASSUME TypeOK, NEW c \in Core,
         SyncBlockReleased(c) \/ SyncBlockParks(c) \/ SyncBlockFires(c)
  PROVE  TypeOK'
<1>1. FlagTypes /\ BarrierTypes /\ ControlTypes /\ TurnTypes /\ OtherTypes
  BY TypeParts
<1>2. TurnTypes' /\ Core' = Core
  BY <1>1, TurnKeepsTypes DEF SyncBlockReleased, SyncBlockParks, SyncBlockFires
<1>3. At(c, "barrier") /\ pc[c] \in Nat \ {0} /\ IsLaunch(launch)
  BY <1>1 DEF SyncBlockReleased, SyncBlockParks, SyncBlockFires, ControlTypes, TurnTypes
<1>4. PICK k \in BarrierKey : k = BarrierKeyOf(c)
  BY <1>3, BarrierKeyFacts
<1>5. Expected(c, k) \in Nat
  <2>1. IsFiniteSet(Participants(BlockOf(c), k.mode))
    <3>1. IsFiniteSet(Core) /\ Participants(BlockOf(c), k.mode) \subseteq Core
      BY <1>3, CoreFacts DEF Participants
    <3> QED BY <3>1, FS_Subset
  <2>2. Cardinality(Participants(BlockOf(c), k.mode)) \in Nat
    BY <2>1, FS_CardinalityType
  <2> QED BY <1>1, <2>2 DEF Expected, BarrierTypes
<1>6. ControlTypes'
  <2>1. CASE SyncBlockReleased(c)
    BY <1>1, <1>2, <2>1, AdvanceKeepsTypes DEF SyncBlockReleased
  <2>2. CASE SyncBlockParks(c)
    <3>1. Park(c, "BlockedOnBarrier", {k})
      BY <1>4, <2>2 DEF SyncBlockParks
    <3>2. {k} \in SUBSET (FlagKey \cup BarrierKey) /\ "BlockedOnBarrier" \in Statuses
      BY DEF Statuses
    <3> QED BY <1>1, <1>2, <3>1, <3>2, ParkKeepsTypes
  <2>3. CASE SyncBlockFires(c)
    <3>1. PICK here \in SUBSET Core : here = arrived[k] \cup {c}
      BY <1>1 DEF BarrierTypes
    <3>2. Advance(c) /\ Wake({d \in here : status[d] = "BlockedOnBarrier" /\ blockedOn[d] = {k}})
      BY <1>4, <2>3, <3>1 DEF SyncBlockFires
    <3>3. {d \in here : status[d] = "BlockedOnBarrier" /\ blockedOn[d] = {k}} \in SUBSET Core
      OBVIOUS
    <3> QED BY <1>1, <1>2, <3>2, <3>3, AdvanceKeepsTypes
  <2> QED BY <2>1, <2>2, <2>3
<1>7. BarrierTypes'
  <2>1. arrived[k] \cup {c} \in SUBSET Core /\ generation[k] + 1 \in Nat
    BY <1>1 DEF BarrierTypes
  <2>2. passed[c][k] + 1 \in Nat /\ arrivals[c][k] + 1 \in Nat /\ arrivals[c][k] \in Nat
    BY <1>1 DEF BarrierTypes
  <2>3. expected' = [expected EXCEPT ![k] = Expected(c, k)]
    BY <1>3, <1>4 DEF SyncBlockReleased, SyncBlockParks, SyncBlockFires
  <2>4. expected' \in [BarrierKey -> Nat]
    BY <1>1, <1>5, <2>3 DEF BarrierTypes
  <2>5. CASE SyncBlockReleased(c)
    <3>1. /\ passed' = [passed EXCEPT ![c][k] = @ + 1]
          /\ UNCHANGED <<arrived, generation, arrivals>>
      BY <1>4, <2>5 DEF SyncBlockReleased
    <3> QED BY <1>1, <1>2, <2>2, <2>4, <3>1 DEF BarrierTypes
  <2>6. CASE SyncBlockParks(c)
    <3>1. /\ arrived' = [arrived EXCEPT ![k] = arrived[k] \cup {c}]
          /\ arrivals' = [arrivals EXCEPT ![c][k] = IF c \in arrived[k] THEN @ ELSE @ + 1]
          /\ UNCHANGED <<generation, passed>>
      BY <1>4, <2>6 DEF SyncBlockParks
    <3> QED BY <1>1, <1>2, <2>1, <2>2, <2>4, <3>1 DEF BarrierTypes
  <2>7. CASE SyncBlockFires(c)
    <3>1. /\ arrived' = [arrived EXCEPT ![k] = {}]
          /\ generation' = [generation EXCEPT ![k] = @ + 1]
          /\ passed' = [passed EXCEPT ![c][k] = @ + 1]
          /\ arrivals' = [arrivals EXCEPT ![c][k] = IF c \in arrived[k] THEN @ ELSE @ + 1]
      BY <1>4, <2>7 DEF SyncBlockFires
    <3>2. /\ arrived' \in [BarrierKey -> SUBSET Core]
          /\ generation' \in [BarrierKey -> Nat]
      BY <1>1, <2>1, <3>1 DEF BarrierTypes
    <3>3. /\ passed' \in [Core -> [BarrierKey -> Nat]]
          /\ arrivals' \in [Core -> [BarrierKey -> Nat]]
      BY <1>1, <2>2, <3>1 DEF BarrierTypes
    <3> QED BY <1>2, <2>4, <3>2, <3>3 DEF BarrierTypes
  <2> QED BY <2>5, <2>6, <2>7
<1>8. FlagTypes' /\ OtherTypes'
  <2>1. UNCHANGED <<flagVars, lockVar, outcome>> /\ progressed' \in BOOLEAN
    BY <1>1 DEF SyncBlockReleased, SyncBlockParks, SyncBlockFires, OtherTypes
  <2> QED BY <1>1, <1>2, <2>1 DEF FlagTypes, flagVars, OtherTypes
<1> QED
  <2>1. FlagTypes' /\ BarrierTypes' /\ ControlTypes' /\ TurnTypes' /\ OtherTypes'
    BY <1>2, <1>6, <1>7, <1>8
  <2> QED BY <2>1, TypeParts, PTL

(* The steps of a core that touch neither flags nor barriers.              *)
LEMMA OthersKeepTypes ==
  ASSUME TypeOK, NEW c \in Core,
         \/ SyncBlockWaitParks(c) \/ SyncBlockLock(c) \/ SyncBlockLockParks(c)
         \/ ReleaseLock(c) \/ Compute(c) \/ WaitFlagParks(c) \/ Fail(c) \/ Return(c)
  PROVE  TypeOK'
<1>1. FlagTypes /\ BarrierTypes /\ ControlTypes /\ TurnTypes /\ OtherTypes
  BY TypeParts
<1>2. Turn(c) /\ UNCHANGED <<flagVars, barrierVars>>
  BY DEF SyncBlockWaitParks, SyncBlockLock, SyncBlockLockParks, ReleaseLock, Compute,
         WaitFlagParks, Fail, Return
<1>3. TurnTypes' /\ Core' = Core
  BY <1>1, <1>2, TurnKeepsTypes
<1>4. pc[c] \in Nat \ {0} /\ IsLaunch(launch)
  BY <1>1 DEF ControlTypes, TurnTypes
<1>5. FlagTypes' /\ BarrierTypes'
  BY <1>1, <1>2, <1>3 DEF FlagTypes, flagVars, BarrierTypes, barrierVars
<1>6. ControlTypes' /\ OtherTypes'
  <2>1. CASE SyncBlockWaitParks(c)
    <3>1. Park(c, "BlockedOnFlag", {FlagKeyOf(c)}) /\ FlagKeyOf(c) \in FlagKey
      BY <1>4, <2>1, FlagKeyFacts DEF SyncBlockWaitParks
    <3>2. {FlagKeyOf(c)} \in SUBSET (FlagKey \cup BarrierKey) /\ "BlockedOnFlag" \in Statuses
      BY <3>1 DEF Statuses
    <3>3. ControlTypes'
      BY <1>1, <1>3, <3>1, <3>2, ParkKeepsTypes
    <3> QED BY <1>1, <2>1, <3>3 DEF SyncBlockWaitParks, OtherTypes
  <2>2. CASE SyncBlockLock(c)
    <3>1. ControlTypes'
      BY <1>1, <1>3, <2>2, AdvanceKeepsTypes DEF SyncBlockLock
    <3> QED BY <1>1, <2>2, <3>1 DEF SyncBlockLock, OtherTypes
  <2>3. CASE SyncBlockLockParks(c)
    <3>1. Park(c, "BlockedOnLock", {}) /\ "BlockedOnLock" \in Statuses
      BY <2>3 DEF SyncBlockLockParks, Statuses
    <3>2. ControlTypes'
      BY <1>1, <1>3, <3>1, ParkKeepsTypes
    <3> QED BY <1>1, <2>3, <3>2 DEF SyncBlockLockParks, OtherTypes
  <2>4. CASE ReleaseLock(c)
    <3>1. ControlTypes'
      <4>1. Advance(c) /\ \E W \in SUBSET Core : Wake(W)
        BY <2>4 DEF ReleaseLock
      <4> QED BY <1>1, <1>3, <4>1, AdvanceKeepsTypes
    <3>2. PICK x \in Lock : x = Op(c).lock
      BY <1>4, <2>4, LockFacts DEF ReleaseLock
    <3>3. lockVar' = [lockVar EXCEPT ![x] = IF @ + 1 >= launch.blockDim THEN 0 ELSE @ + 1]
      BY <2>4, <3>2 DEF ReleaseLock
    <3>4. lockVar' \in [Lock -> Nat]
      BY <1>1, <3>3 DEF OtherTypes
    <3> QED BY <1>1, <2>4, <3>1, <3>4 DEF ReleaseLock, OtherTypes
  <2>5. CASE Compute(c)
    <3>1. ControlTypes'
      BY <1>1, <1>3, <2>5, AdvanceKeepsTypes DEF Compute
    <3> QED BY <1>1, <2>5, <3>1 DEF Compute, OtherTypes
  <2>6. CASE WaitFlagParks(c)
    <3>1. Park(c, "BlockedOnFlag", {}) /\ "BlockedOnFlag" \in Statuses
      BY <2>6 DEF WaitFlagParks, Statuses
    <3>2. ControlTypes'
      BY <1>1, <1>3, <3>1, ParkKeepsTypes
    <3> QED BY <1>1, <2>6, <3>2 DEF WaitFlagParks, OtherTypes
  <2>7. CASE Fail(c)
    BY <1>1, <1>3, <2>7 DEF Fail, ControlTypes, Statuses, OtherTypes
  <2>8. CASE Return(c)
    BY <1>1, <1>3, <2>8 DEF Return, ControlTypes, Statuses, OtherTypes
  <2> QED BY <2>1, <2>2, <2>3, <2>4, <2>5, <2>6, <2>7, <2>8
<1> QED
  <2>1. FlagTypes' /\ BarrierTypes' /\ ControlTypes' /\ TurnTypes' /\ OtherTypes'
    BY <1>3, <1>5, <1>6
  <2> QED BY <2>1, TypeParts, PTL

(* The ends of run() and its retry.                                        *)
LEMMA EndsKeepTypes ==
  ASSUME TypeOK, Finish \/ Retry \/ Deadlock
  PROVE  TypeOK'
<1>1. FlagTypes /\ BarrierTypes /\ ControlTypes /\ TurnTypes /\ OtherTypes
  BY TypeParts
<1>2. /\ UNCHANGED <<launch, pc, flagVars, barrierVars, lockVar, nextCoreIdx, skipped>>
      /\ Core' = Core
  BY DEF Finish, Retry, Deadlock, Core
<1>3. FlagTypes' /\ BarrierTypes'
  BY <1>1, <1>2 DEF FlagTypes, flagVars, BarrierTypes, barrierVars
<1>4. ControlTypes'
  <2>1. CASE Finish \/ Deadlock
    BY <1>1, <1>2, <2>1 DEF Finish, Deadlock, ControlTypes
  <2>2. CASE Retry
    BY <1>1, <1>2, <2>2 DEF Retry, Wake, ControlTypes, Statuses
  <2> QED BY <2>1, <2>2
<1>5. OtherTypes'
  BY <1>1, <1>2 DEF Finish, Retry, Deadlock, OtherTypes
<1>6. TurnTypes'
  <2>1. report' \subseteq [key : BarrierKey, participants : SUBSET Core]
    <3>1. CASE Finish \/ Retry
      BY <1>1, <3>1 DEF Finish, Retry, TurnTypes
    <3>2. CASE Deadlock
      <4>1. \A k \in BarrierKey : Participants(BlockOf(0), k.mode) \in SUBSET Core
        BY DEF Participants
      <4> QED BY <3>2, <4>1 DEF Deadlock
    <3> QED BY <3>1, <3>2
  <2> QED BY <1>1, <1>2, <2>1 DEF TurnTypes
<1> QED
  <2>1. FlagTypes' /\ BarrierTypes' /\ ControlTypes' /\ TurnTypes' /\ OtherTypes'
    BY <1>3, <1>4, <1>5, <1>6
  <2> QED BY <2>1, TypeParts, PTL

(* The initial state is well typed because the launches are.               *)
LEMMA InitTypes == Init => TypeOK
<1> SUFFICES ASSUME Init PROVE TypeOK
  OBVIOUS
<1>1. IsLaunch(launch)
  BY LaunchAssumption DEF Init
<1> QED
  BY <1>1 DEF Init, TypeOK, Statuses

(* TypeOK is inductive.                                                    *)
LEMMA NextKeepsTypes == TypeOK /\ [Next]_vars => TypeOK'
<1> SUFFICES ASSUME TypeOK, [Next]_vars PROVE TypeOK'
  OBVIOUS
<1>1. ASSUME NEW c \in Core, Step(c) PROVE TypeOK'
  BY <1>1, SetKeepsTypes, WaitKeepsTypes, BarrierKeepsTypes, OthersKeepTypes DEF Step
<1>2. CASE UNCHANGED vars
  BY <1>2 DEF vars, flagVars, barrierVars, TypeOK, Core
<1> QED BY <1>1, <1>2, EndsKeepTypes DEF Next

(* Every reachable state is well typed: in particular no wait takes a      *)
(* counter of a cross-core flag below zero.                                *)
THEOREM TypeCorrect == Spec => []TypeOK
BY InitTypes, NextKeepsTypes, PTL DEF Spec

-----------------------------------------------------------------------------
(* Where a core is parked: at the operation it re-executes, and on the key *)
(* a wake-up compares with.                                                *)
ParkedWhere(c) ==
  /\ status[c] = "BlockedOnFlag" =>
       \/ At(c, "wait") /\ blockedOn[c] = {FlagKeyOf(c)}
       \/ At(c, "wait_flag")
  /\ status[c] = "BlockedOnBarrier" => At(c, "barrier") /\ blockedOn[c] = {BarrierKeyOf(c)}

ParkInv == \A c \in Core : ParkedWhere(c) /\ ParkedCannotGo(c)

(* A core that keeps its place keeps its operation and the keys it names.  *)
LEMMA SameOperation ==
  ASSUME launch' = launch, NEW d \in Core, pc'[d] = pc[d]
  PROVE  /\ \A op \in {"set", "wait", "wait_flag", "barrier", "lock"} : At(d, op)' = At(d, op)
         /\ FlagKeyOf(d)' = FlagKeyOf(d) /\ BarrierKeyOf(d)' = BarrierKeyOf(d)
         /\ Op(d)' = Op(d) /\ BlockOf(d)' = BlockOf(d)
<1>1. Op(d)' = Op(d) /\ AtEnd(d)' = AtEnd(d) /\ BlockOf(d)' = BlockOf(d)
  BY DEF Op, AtEnd, BlockOf
<1> QED BY <1>1 DEF At, FlagKeyOf, BarrierKeyOf

(* A raise of one key makes nobody ready who waits on another.             *)
LEMMA SetLeavesOtherKeys ==
  ASSUME TypeOK, NEW c \in Core, SyncBlockSet(c), NEW d \in Core, NEW k \in FlagKey,
         k # FlagKeyOf(c)
  PROVE  FlagReady(d, k)' = FlagReady(d, k)
<1>1. launch' = launch /\ aivSeen' = aivSeen
  BY DEF SyncBlockSet, Turn
<1>2. /\ HasOpposite(d)' = HasOpposite(d) /\ KindOf(d)' = KindOf(d)
      /\ Contributors(d, k)' = Contributors(d, k)
  BY <1>1 DEF HasOpposite, KindOf, Contributors, BlockOf, Core
<1>3. PICK k0 : k0 = FlagKeyOf(c)
  OBVIOUS
<1>4. sameKind'[k] = sameKind[k] /\ aicGen'[k] = aicGen[k] /\ aivCount'[k] = aivCount[k]
  <2>1. k # k0
    BY <1>3
  <2>2. \/ /\ sameKind' = [sameKind EXCEPT ![k0][KindOf(c)] = @ + 1]
           /\ UNCHANGED <<aicGen, aivCount>>
        \/ /\ aicGen' = [aicGen EXCEPT ![k0] = @ + 1]
           /\ UNCHANGED <<sameKind, aivCount>>
        \/ /\ aivCount' = [aivCount EXCEPT ![k0][c] = @ + 1]
           /\ UNCHANGED <<sameKind, aicGen>>
    BY <1>3 DEF SyncBlockSet
  <2> QED BY <2>1, <2>2 DEF TypeOK
<1> QED BY <1>1, <1>2, <1>4 DEF FlagReady

(* What a wait takes makes no other core ready.                            *)
LEMMA WaitMakesNobodyReady ==
  ASSUME TypeOK, NEW c \in Core, SyncBlockWait(c), NEW d \in Core, d # c,
         NEW k \in FlagKey, FlagReady(d, k)'
  PROVE  FlagReady(d, k)
<1>1. launch' = launch /\ aicGen' = aicGen
  BY DEF SyncBlockWait, Turn
<1>2. /\ HasOpposite(d)' = HasOpposite(d) /\ KindOf(d)' = KindOf(d)
      /\ Contributors(d, k)' = Contributors(d, k)
  BY <1>1 DEF HasOpposite, KindOf, Contributors, BlockOf, Core
<1>3. IsLaunch(launch) /\ pc[c] \in Nat \ {0} /\ At(c, "wait")
  BY DEF TypeOK, SyncBlockWait
<1>4. PICK k0 \in FlagKey : k0 = FlagKeyOf(c)
  BY <1>3, FlagKeyFacts
<1>5. KindOf(c) \in Kind /\ KindOf(d) \in Kind /\ Contributors(d, k) \subseteq Core
  BY <1>3, CoreFacts DEF Contributors
<1>6. /\ sameKind'[k][KindOf(d)] <= sameKind[k][KindOf(d)]
      /\ aivSeen'[k][d] = aivSeen[k][d]
      /\ \A e \in Core : aivCount'[k][e] <= aivCount[k][e]
  <2>1. CASE ~HasOpposite(c)
    <3>1. /\ sameKind' = [sameKind EXCEPT ![k0][KindOf(c)] = @ - 1]
          /\ UNCHANGED <<aivSeen, aivCount>>
      BY <1>4, <2>1 DEF SyncBlockWait
    <3>2. /\ sameKind[k][KindOf(d)] \in Nat /\ sameKind[k0][KindOf(c)] \in Nat
          /\ \A e \in Core : aivCount[k][e] \in Nat
      BY <1>5 DEF TypeOK
    <3> QED BY <1>5, <3>1, <3>2 DEF TypeOK
  <2>2. CASE HasOpposite(c) /\ KindOf(c) = "AIV"
    <3>1. aivSeen' = [aivSeen EXCEPT ![k0][c] = @ + 1] /\ UNCHANGED <<sameKind, aivCount>>
      BY <1>4, <2>2 DEF SyncBlockWait
    <3>2. /\ sameKind[k][KindOf(d)] \in Nat
          /\ \A e \in Core : aivCount[k][e] \in Nat
      BY <1>5 DEF TypeOK
    <3> QED BY <3>1, <3>2 DEF TypeOK
  <2>3. CASE HasOpposite(c) /\ KindOf(c) # "AIV"
    <3>1. PICK C : C = Contributors(c, k0)
      OBVIOUS
    <3>2. /\ aivCount' = [aivCount EXCEPT ![k0] =
                [e \in Core |-> IF e \in C THEN @[e] - 1 ELSE @[e]]]
          /\ UNCHANGED <<sameKind, aivSeen>>
      BY <1>4, <2>3, <3>1 DEF SyncBlockWait
    <3>3. /\ sameKind[k][KindOf(d)] \in Nat
          /\ \A e \in Core : aivCount[k][e] \in Nat
      BY <1>5 DEF TypeOK
    <3>4. ASSUME NEW e \in Core PROVE aivCount'[k][e] <= aivCount[k][e]
      BY <3>2, <3>3 DEF TypeOK
    <3> QED BY <3>2, <3>3, <3>4
  <2> QED BY <2>1, <2>2, <2>3
<1>7. /\ sameKind[k][KindOf(d)] \in Nat /\ \A e \in Core : aivCount[k][e] \in Nat
      /\ sameKind'[k][KindOf(d)] \in Int /\ \A e \in Core : aivCount'[k][e] \in Int
  <2>1. TypeOK'
    BY WaitKeepsTypes
  <2>2. Core' = Core
    BY <1>1 DEF Core
  <2> QED BY <1>5, <2>1, <2>2 DEF TypeOK
<1>8. CASE ~HasOpposite(d)
  <2>1. sameKind'[k][KindOf(d)] > 0
    BY <1>2, <1>8 DEF FlagReady
  <2>2. sameKind[k][KindOf(d)] > 0
    BY <1>6, <1>7, <2>1
  <2> QED BY <1>8, <2>2 DEF FlagReady
<1>9. CASE HasOpposite(d) /\ KindOf(d) = "AIV"
  BY <1>1, <1>2, <1>6, <1>9 DEF FlagReady
<1>10. CASE HasOpposite(d) /\ KindOf(d) # "AIV"
  <2>1. \A e \in Contributors(d, k) : aivCount'[k][e] > 0
    BY <1>2, <1>10 DEF FlagReady
  <2>2. \A e \in Contributors(d, k) : aivCount[k][e] > 0
    <3>1. ASSUME NEW e \in Contributors(d, k) PROVE aivCount[k][e] > 0
      <4>1. e \in Core
        BY <1>5
      <4> QED BY <1>6, <1>7, <2>1, <4>1
    <3> QED BY <3>1
  <2> QED BY <1>10, <2>2 DEF FlagReady
<1> QED BY <1>8, <1>9, <1>10

(* A step of c keeps every other core at its place, and as it was unless   *)
(* it makes it runnable; a core that can step is runnable.                 *)
LEMMA Bystander ==
  ASSUME TypeOK, NEW c \in Core, Step(c), NEW d \in Core, d # c
  PROVE  /\ launch' = launch /\ Core' = Core /\ pc'[d] = pc[d]
         /\ \/ status'[d] = "Runnable"
            \/ status'[d] = status[d] /\ blockedOn'[d] = blockedOn[d]
<1>1. launch' = launch /\ Core' = Core
  BY DEF Step, SyncBlockSet, SyncBlockWait, SyncBlockWaitParks, SyncBlockReleased,
         SyncBlockParks, SyncBlockFires, SyncBlockLock, SyncBlockLockParks, ReleaseLock,
         Compute, WaitFlagParks, Fail, Return, Turn, Core
<1>2. /\ pc \in [Core -> Nat \ {0}] /\ status \in [Core -> Statuses]
      /\ blockedOn \in [Core -> SUBSET (FlagKey \cup BarrierKey)]
  BY DEF TypeOK
<1>3. CASE Advance(c) /\ Stay
  BY <1>1, <1>2, <1>3 DEF Advance, Stay
<1>4. ASSUME NEW W, Advance(c), Wake(W)
      PROVE  /\ pc'[d] = pc[d]
             /\ \/ status'[d] = "Runnable"
                \/ status'[d] = status[d] /\ blockedOn'[d] = blockedOn[d]
  BY <1>2, <1>4 DEF Advance, Wake
<1>5. ASSUME NEW why, NEW key, Park(c, why, key)
      PROVE  pc'[d] = pc[d] /\ status'[d] = status[d] /\ blockedOn'[d] = blockedOn[d]
  BY <1>2, <1>5 DEF Park
<1>6. CASE Fail(c) \/ Return(c)
  BY <1>1, <1>2, <1>6 DEF Fail, Return
<1>7. CASE SyncBlockSet(c) \/ SyncBlockFires(c) \/ ReleaseLock(c)
  <2>1. Advance(c) /\ \E W : Wake(W)
    BY <1>7 DEF SyncBlockSet, SyncBlockFires, ReleaseLock
  <2> QED BY <1>1, <1>4, <2>1
<1>8. CASE SyncBlockWait(c) \/ SyncBlockReleased(c) \/ SyncBlockLock(c) \/ Compute(c)
  BY <1>1, <1>3, <1>8 DEF SyncBlockWait, SyncBlockReleased, SyncBlockLock, Compute
<1>9. CASE SyncBlockWaitParks(c) \/ SyncBlockParks(c) \/ SyncBlockLockParks(c)
           \/ WaitFlagParks(c)
  <2>1. \E why, key : Park(c, why, key)
    BY <1>9 DEF SyncBlockWaitParks, SyncBlockParks, SyncBlockLockParks, WaitFlagParks
  <2> QED BY <1>1, <1>5, <2>1
<1> QED BY <1>6, <1>7, <1>8, <1>9 DEF Step

(* A parked bystander still waits for a flag that is not there ...         *)
LEMMA FlagBystander ==
  ASSUME TypeOK, ParkInv, NEW c \in Core, Step(c), NEW d \in Core, d # c,
         status'[d] = "BlockedOnFlag", At(d, "wait")'
  PROVE  ~FlagReady(d, FlagKeyOf(d))'
<1>1. /\ launch' = launch /\ pc'[d] = pc[d]
      /\ status[d] = "BlockedOnFlag" /\ blockedOn'[d] = blockedOn[d]
  BY Bystander
<1>2. At(d, "wait") /\ FlagKeyOf(d)' = FlagKeyOf(d)
  BY <1>1, SameOperation
<1>3. IsLaunch(launch) /\ pc[d] \in Nat \ {0}
  BY DEF TypeOK
<1>4. PICK k \in FlagKey : k = FlagKeyOf(d)
  BY <1>2, <1>3, FlagKeyFacts
<1>5. ~FlagReady(d, k)
  BY <1>1, <1>2, <1>4 DEF ParkInv, ParkedCannotGo
<1>6. blockedOn[d] = {k}
  <2>1. ~At(d, "wait_flag")
    BY <1>2 DEF At
  <2> QED BY <1>1, <1>2, <1>4, <2>1 DEF ParkInv, ParkedWhere
<1>7. ~FlagReady(d, k)'
  <2>1. CASE SyncBlockSet(c)
    <3>1. k # FlagKeyOf(c)
      <4>1. SUFFICES ASSUME k = FlagKeyOf(c) PROVE FALSE
        OBVIOUS
      <4>2. Wake({e \in Core : status[e] = "BlockedOnFlag" /\ blockedOn[e] = {k}})
        BY <2>1, <4>1 DEF SyncBlockSet
      <4>3. status'[d] = "Runnable"
        BY <1>1, <1>6, <4>2 DEF Wake
      <4> QED BY <4>3
    <3> QED BY <1>5, <2>1, <3>1, SetLeavesOtherKeys
  <2>2. CASE SyncBlockWait(c)
    BY <1>5, <2>2, WaitMakesNobodyReady
  <2>3. CASE UNCHANGED flagVars
    BY <1>1, <1>5, <2>3
       DEF flagVars, FlagReady, HasOpposite, KindOf, Contributors, BlockOf, Core
  <2> QED
    BY <2>1, <2>2, <2>3
       DEF Step, SyncBlockWaitParks, SyncBlockReleased, SyncBlockParks, SyncBlockFires,
           SyncBlockLock, SyncBlockLockParks, ReleaseLock, Compute, WaitFlagParks, Fail,
           Return
<1> QED BY <1>2, <1>4, <1>7

(* ... or at a barrier that has not fired ...                              *)
LEMMA BarrierBystander ==
  ASSUME TypeOK, ParkInv, NEW c \in Core, Step(c), NEW d \in Core, d # c,
         status'[d] = "BlockedOnBarrier"
  PROVE  /\ At(d, "barrier")'
         /\ \E k \in BarrierKey :
              /\ k = BarrierKeyOf(d)' /\ k = BarrierKeyOf(d)
              /\ ~Due(d, k)' /\ d \in arrived'[k] /\ Cardinality(arrived'[k]) < expected'[k]
<1>1. /\ launch' = launch /\ pc'[d] = pc[d]
      /\ status[d] = "BlockedOnBarrier" /\ blockedOn'[d] = blockedOn[d]
  BY Bystander
<1>2. At(d, "barrier") /\ At(d, "barrier")' /\ BarrierKeyOf(d)' = BarrierKeyOf(d)
  <2>1. At(d, "barrier")
    BY <1>1 DEF ParkInv, ParkedCannotGo
  <2> QED BY <1>1, <2>1, SameOperation
<1>3. IsLaunch(launch) /\ pc[c] \in Nat \ {0} /\ pc[d] \in Nat \ {0}
  BY DEF TypeOK
<1>4. PICK k \in BarrierKey : k = BarrierKeyOf(d)
  BY <1>2, <1>3, BarrierKeyFacts
<1>5. /\ ~Due(d, k) /\ d \in arrived[k] /\ Cardinality(arrived[k]) < expected[k]
      /\ blockedOn[d] = {k}
  BY <1>1, <1>4 DEF ParkInv, ParkedCannotGo, ParkedWhere
<1>6. expected[k] # 0
  <2>1. IsFiniteSet(arrived[k])
    <3>1. IsFiniteSet(Core) /\ arrived[k] \subseteq Core
      BY <1>3, CoreFacts DEF TypeOK
    <3> QED BY <3>1, FS_Subset
  <2>2. Cardinality(arrived[k]) \in Nat
    BY <2>1, FS_CardinalityType
  <2> QED BY <1>5, <2>2
<1>7. ~Due(d, k)' /\ d \in arrived'[k] /\ Cardinality(arrived'[k]) < expected'[k]
  <2>1. CASE UNCHANGED barrierVars
    BY <1>5, <2>1 DEF barrierVars, Due
  <2>2. CASE SyncBlockReleased(c) \/ SyncBlockParks(c) \/ SyncBlockFires(c)
    <3>1. At(c, "barrier")
      BY <2>2 DEF SyncBlockReleased, SyncBlockParks, SyncBlockFires
    <3>2. PICK k0 \in BarrierKey : k0 = BarrierKeyOf(c)
      BY <1>3, <3>1, BarrierKeyFacts
    <3>3. expected' = [expected EXCEPT ![k0] = Expected(c, k0)]
      BY <2>2, <3>2 DEF SyncBlockReleased, SyncBlockParks, SyncBlockFires
    <3>4. expected'[k] = expected[k]
      BY <1>6, <3>3 DEF TypeOK, Expected
    <3>5. CASE SyncBlockReleased(c)
      <4>1. /\ passed' = [passed EXCEPT ![c][k0] = @ + 1]
            /\ UNCHANGED <<arrived, generation>>
        BY <3>2, <3>5 DEF SyncBlockReleased
      <4> QED BY <1>5, <3>4, <4>1 DEF TypeOK, Due
    <3>6. CASE SyncBlockParks(c)
      <4>1. /\ arrived' = [arrived EXCEPT ![k0] = arrived[k0] \cup {c}]
            /\ Cardinality(arrived[k0] \cup {c}) < Expected(c, k0)
            /\ UNCHANGED <<generation, passed>>
        BY <3>2, <3>6 DEF SyncBlockParks
      <4>2. CASE k = k0
        BY <1>5, <1>6, <3>4, <4>1, <4>2 DEF TypeOK, Due, Expected
      <4>3. CASE k # k0
        BY <1>5, <3>4, <4>1, <4>3 DEF TypeOK, Due
      <4> QED BY <4>2, <4>3
    <3>7. CASE SyncBlockFires(c)
      <4>1. /\ arrived' = [arrived EXCEPT ![k0] = {}]
            /\ generation' = [generation EXCEPT ![k0] = @ + 1]
            /\ passed' = [passed EXCEPT ![c][k0] = @ + 1]
            /\ Wake({e \in arrived[k0] \cup {c} :
                       status[e] = "BlockedOnBarrier" /\ blockedOn[e] = {k0}})
        BY <3>2, <3>7 DEF SyncBlockFires
      <4>2. CASE k = k0
        <5>1. status'[d] = "Runnable"
          BY <1>1, <1>5, <4>1, <4>2 DEF Wake
        <5> QED BY <5>1
      <4>3. CASE k # k0
        BY <1>5, <3>4, <4>1, <4>3 DEF TypeOK, Due
      <4> QED BY <4>2, <4>3
    <3> QED BY <2>2, <3>5, <3>6, <3>7
  <2> QED
    BY <2>1, <2>2
       DEF Step, SyncBlockSet, SyncBlockWait, SyncBlockWaitParks, SyncBlockLock,
           SyncBlockLockParks, ReleaseLock, Compute, WaitFlagParks, Fail, Return
<1> QED BY <1>2, <1>4, <1>7

(* ... or for a lock that is another block's turn.                         *)
LEMMA LockBystander ==
  ASSUME TypeOK, ParkInv, NEW c \in Core, Step(c), NEW d \in Core, d # c,
         status'[d] = "BlockedOnLock"
  PROVE  At(d, "lock")' /\ (lockVar[Op(d).lock] # BlockOf(d))'
<1>1. launch' = launch /\ pc'[d] = pc[d] /\ status[d] = "BlockedOnLock"
  BY Bystander
<1>2. At(d, "lock") /\ lockVar[Op(d).lock] # BlockOf(d)
  BY <1>1 DEF ParkInv, ParkedCannotGo
<1>3. At(d, "lock")' /\ Op(d)' = Op(d) /\ BlockOf(d)' = BlockOf(d)
  BY <1>1, <1>2, SameOperation
<1>4. UNCHANGED lockVar
  <2>1. ~ReleaseLock(c)
    BY <1>1 DEF ReleaseLock, Wake
  <2> QED
    BY <2>1
       DEF Step, SyncBlockSet, SyncBlockWait, SyncBlockWaitParks, SyncBlockReleased,
           SyncBlockParks, SyncBlockFires, SyncBlockLock, SyncBlockLockParks, Compute,
           WaitFlagParks, Fail, Return
<1> QED BY <1>2, <1>3, <1>4

(* The core that steps is parked only for want of what it tested.          *)
LEMMA OwnStep ==
  ASSUME TypeOK, ParkInv, NEW c \in Core, Step(c)
  PROVE  ParkedWhere(c)' /\ ParkedCannotGo(c)'
<1>1. status[c] = "Runnable" /\ launch' = launch /\ Core' = Core
  BY DEF Step, SyncBlockSet, SyncBlockWait, SyncBlockWaitParks, SyncBlockReleased,
         SyncBlockParks, SyncBlockFires, SyncBlockLock, SyncBlockLockParks, ReleaseLock,
         Compute, WaitFlagParks, Fail, Return, Turn, CanPick, Core
<1>2. /\ pc \in [Core -> Nat \ {0}] /\ status \in [Core -> Statuses]
      /\ blockedOn \in [Core -> SUBSET (FlagKey \cup BarrierKey)]
  BY DEF TypeOK
<1>3. ASSUME status'[c] \notin {"BlockedOnFlag", "BlockedOnBarrier", "BlockedOnLock"}
      PROVE  ParkedWhere(c)' /\ ParkedCannotGo(c)'
  BY <1>3 DEF ParkedWhere, ParkedCannotGo
<1>4. ASSUME NEW why, NEW key, Park(c, why, key)
      PROVE  status'[c] = why /\ blockedOn'[c] = key /\ pc' = pc
  BY <1>2, <1>4 DEF Park
<1>5. CASE SyncBlockWaitParks(c)
  <2>1. /\ status'[c] = "BlockedOnFlag" /\ blockedOn'[c] = {FlagKeyOf(c)} /\ pc' = pc
        /\ UNCHANGED flagVars /\ At(c, "wait") /\ ~FlagReady(c, FlagKeyOf(c))
    BY <1>4, <1>5 DEF SyncBlockWaitParks
  <2>2. At(c, "wait")' /\ FlagKeyOf(c)' = FlagKeyOf(c)
    BY <1>1, <2>1, SameOperation
  <2>3. PICK k : k = FlagKeyOf(c)
    OBVIOUS
  <2>4. ~FlagReady(c, k)'
    BY <1>1, <2>1, <2>3
       DEF flagVars, FlagReady, HasOpposite, KindOf, Contributors, BlockOf, Core
  <2> QED BY <2>1, <2>2, <2>3, <2>4 DEF ParkedWhere, ParkedCannotGo
<1>6. CASE SyncBlockParks(c)
  <2>1. IsLaunch(launch) /\ At(c, "barrier") /\ pc[c] \in Nat \ {0}
    BY <1>6 DEF TypeOK, SyncBlockParks
  <2>2. PICK k \in BarrierKey : k = BarrierKeyOf(c)
    BY <2>1, BarrierKeyFacts
  <2>3. /\ status'[c] = "BlockedOnBarrier" /\ blockedOn'[c] = {k} /\ pc' = pc
        /\ arrived' = [arrived EXCEPT ![k] = arrived[k] \cup {c}]
        /\ expected' = [expected EXCEPT ![k] = Expected(c, k)]
        /\ ~Due(c, k) /\ Cardinality(arrived[k] \cup {c}) < Expected(c, k)
        /\ UNCHANGED <<generation, passed>>
    BY <1>4, <1>6, <2>2 DEF SyncBlockParks
  <2>4. At(c, "barrier")' /\ BarrierKeyOf(c)' = k
    BY <1>1, <2>1, <2>2, <2>3, SameOperation
  <2>5. ~Due(c, k)' /\ c \in arrived'[k] /\ Cardinality(arrived'[k]) < expected'[k]
    BY <2>3 DEF TypeOK, Due
  <2> QED BY <2>3, <2>4, <2>5 DEF ParkedWhere, ParkedCannotGo
<1>7. CASE SyncBlockLockParks(c)
  <2>1. /\ status'[c] = "BlockedOnLock" /\ pc' = pc /\ UNCHANGED lockVar
        /\ At(c, "lock") /\ lockVar[Op(c).lock] # BlockOf(c)
    BY <1>4, <1>7 DEF SyncBlockLockParks
  <2>2. At(c, "lock")' /\ Op(c)' = Op(c) /\ BlockOf(c)' = BlockOf(c)
    BY <1>1, <2>1, SameOperation
  <2> QED BY <2>1, <2>2 DEF ParkedWhere, ParkedCannotGo
<1>8. CASE WaitFlagParks(c)
  <2>1. status'[c] = "BlockedOnFlag" /\ pc' = pc /\ At(c, "wait_flag")
    BY <1>4, <1>8 DEF WaitFlagParks
  <2>2. At(c, "wait_flag")'
    BY <1>1, <2>1, SameOperation
  <2>3. ~At(c, "wait")'
    BY <2>2 DEF At
  <2> QED BY <2>1, <2>2, <2>3 DEF ParkedWhere, ParkedCannotGo
<1>9. CASE Fail(c) \/ Return(c)
  <2>1. status'[c] \in {"Failed", "Done"}
    BY <1>2, <1>9 DEF Fail, Return
  <2> QED BY <1>3, <2>1
<1>10. CASE SyncBlockSet(c) \/ SyncBlockFires(c) \/ ReleaseLock(c)
  <2>1. \E W : Wake(W)
    BY <1>10 DEF SyncBlockSet, SyncBlockFires, ReleaseLock
  <2>2. status'[c] = "Runnable"
    BY <1>1, <2>1 DEF Wake
  <2> QED BY <1>3, <2>2
<1>11. CASE SyncBlockWait(c) \/ SyncBlockReleased(c) \/ SyncBlockLock(c) \/ Compute(c)
  <2>1. status'[c] = "Runnable"
    BY <1>1, <1>11 DEF SyncBlockWait, SyncBlockReleased, SyncBlockLock, Compute, Stay
  <2> QED BY <1>3, <2>1
<1> QED BY <1>5, <1>6, <1>7, <1>8, <1>9, <1>10, <1>11 DEF Step

(* A step of one core keeps the reason every core is parked for.           *)
LEMMA StepKeepsParked ==
  ASSUME TypeOK, ParkInv, NEW c \in Core, Step(c)
  PROVE  ParkInv'
<1>1. launch' = launch /\ Core' = Core
  BY DEF Step, SyncBlockSet, SyncBlockWait, SyncBlockWaitParks, SyncBlockReleased,
         SyncBlockParks, SyncBlockFires, SyncBlockLock, SyncBlockLockParks, ReleaseLock,
         Compute, WaitFlagParks, Fail, Return, Turn, Core
<1>2. ASSUME NEW d \in Core, d # c PROVE ParkedWhere(d)' /\ ParkedCannotGo(d)'
  <2>1. /\ pc'[d] = pc[d]
        /\ \/ status'[d] = "Runnable"
           \/ status'[d] = status[d] /\ blockedOn'[d] = blockedOn[d]
    BY <1>2, Bystander
  <2>2. ParkedWhere(d)'
    <3>1. ParkedWhere(d)
      BY DEF ParkInv
    <3>2. CASE status'[d] = "Runnable"
      BY <3>2 DEF ParkedWhere
    <3>3. CASE status'[d] = status[d] /\ blockedOn'[d] = blockedOn[d]
      <4>1. /\ At(d, "wait")' = At(d, "wait") /\ At(d, "wait_flag")' = At(d, "wait_flag")
            /\ At(d, "barrier")' = At(d, "barrier")
            /\ FlagKeyOf(d)' = FlagKeyOf(d) /\ BarrierKeyOf(d)' = BarrierKeyOf(d)
        BY <1>1, <2>1, SameOperation
      <4> QED BY <3>1, <3>3, <4>1 DEF ParkedWhere
    <3> QED BY <2>1, <3>2, <3>3
  <2>3. ParkedCannotGo(d)'
    <3>1. status'[d] = "BlockedOnFlag" /\ At(d, "wait")' => ~FlagReady(d, FlagKeyOf(d))'
      BY <1>2, FlagBystander
    <3>2. status'[d] = "BlockedOnBarrier" =>
            /\ At(d, "barrier")'
            /\ \E k \in BarrierKey :
                 /\ k = BarrierKeyOf(d)' /\ k = BarrierKeyOf(d)
                 /\ ~Due(d, k)' /\ d \in arrived'[k] /\ Cardinality(arrived'[k]) < expected'[k]
      BY <1>2, BarrierBystander
    <3>3. status'[d] = "BlockedOnLock" =>
            At(d, "lock")' /\ (lockVar[Op(d).lock] # BlockOf(d))'
      BY <1>2, LockBystander
    <3>4. status'[d] = "BlockedOnBarrier" =>
            /\ At(d, "barrier")' /\ ~Due(d, BarrierKeyOf(d))'
            /\ (d \in arrived[BarrierKeyOf(d)])'
            /\ (Cardinality(arrived[BarrierKeyOf(d)]) < expected[BarrierKeyOf(d)])'
      BY <3>2 DEF Due
    <3> QED BY <3>1, <3>3, <3>4 DEF ParkedCannotGo
  <2> QED BY <2>2, <2>3
<1> QED BY <1>1, <1>2, OwnStep DEF ParkInv

(* So does a step that changes neither cores nor what they wait for ...    *)
LEMMA FrozenParked ==
  ASSUME ParkInv,
         UNCHANGED <<launch, pc, status, blockedOn, flagVars, barrierVars, lockVar>>
  PROVE  ParkInv'
<1>1. Core' = Core
  BY DEF Core
<1>2. ASSUME NEW d \in Core PROVE ParkedWhere(d)' /\ ParkedCannotGo(d)'
  <2>1. ParkedWhere(d) /\ ParkedCannotGo(d)
    BY DEF ParkInv
  <2> QED BY <1>1, <2>1
          DEF ParkedWhere, ParkedCannotGo, At, AtEnd, Op, FlagKeyOf, BarrierKeyOf, BlockOf,
              KindOf, FlagReady, HasOpposite, Contributors, Due, Core, flagVars, barrierVars
<1> QED BY <1>1, <1>2 DEF ParkInv

(* ... and so do the ends of run() and its retry, which parks nobody.      *)
LEMMA EndsKeepParked ==
  ASSUME TypeOK, ParkInv, Finish \/ Retry \/ Deadlock
  PROVE  ParkInv'
<1>1. UNCHANGED <<launch, pc, flagVars, barrierVars, lockVar>> /\ Core' = Core
  BY DEF Finish, Retry, Deadlock, Core
<1>2. CASE Finish \/ Deadlock
  <2>1. UNCHANGED <<status, blockedOn>>
    BY <1>2 DEF Finish, Deadlock
  <2> QED BY <1>1, <2>1, FrozenParked
<1>3. CASE Retry
  <2>1. \A d \in Core :
          status'[d] \notin {"BlockedOnFlag", "BlockedOnBarrier", "BlockedOnLock"}
    BY <1>3 DEF Retry, Stuck, IsBlocked, Wake
  <2> QED BY <1>1, <2>1 DEF ParkInv, ParkedWhere, ParkedCannotGo
<1> QED BY <1>2, <1>3

(* Nobody is parked at the start.                                          *)
LEMMA InitParked == Init => ParkInv
BY DEF Init, ParkInv, ParkedWhere, ParkedCannotGo

(* The reasons for being parked are inductive, given the types.            *)
LEMMA NextKeepsParked == TypeOK /\ ParkInv /\ [Next]_vars => ParkInv'
<1> SUFFICES ASSUME TypeOK, ParkInv, [Next]_vars PROVE ParkInv'
  OBVIOUS
<1>1. ASSUME NEW c \in Core, Step(c) PROVE ParkInv'
  BY <1>1, StepKeepsParked
<1>2. CASE UNCHANGED vars
  BY <1>2, FrozenParked DEF vars
<1> QED BY <1>1, <1>2, EndsKeepParked DEF Next

(* In every reachable state each parked core still waits for something     *)
(* that has not happened: the operation that makes a flag, a barrier or a  *)
(* lock ready wakes everybody it releases.                                 *)
THEOREM WakeupsAreComplete == Spec => []NoLostWakeup
<1>1. ParkInv => NoLostWakeup
  BY DEF ParkInv, NoLostWakeup
<1> QED
  BY <1>1, InitTypes, NextKeepsTypes, InitParked, NextKeepsParked, PTL DEF Spec

-----------------------------------------------------------------------------
(***************************************************************************)
(* Barriers.  A sync_block site reached by its participants only is a      *)
(* rendezvous: nobody leaves it before all have entered it, and what the   *)
(* cores do at it implements Rendezvous.                                   *)
(*                                                                         *)
(* The argument counts.  A member of arrived[k] has entered one rendezvous *)
(* more than the site has fired, everybody else exactly as many; and       *)
(* nobody has left more than the site has fired, nor lags by more than     *)
(* one.  The site fires when the set of arrivals is as large as the set of *)
(* participants, hence, being part of it, when it is that set.             *)
(***************************************************************************)
SiteInv(k) ==
  /\ arrived[k] \subseteq Members(k)
  /\ expected[k] \in {0, Cardinality(Members(k))}
  /\ \A d \in Members(k) :
       /\ passed[d][k] <= generation[k] /\ generation[k] <= passed[d][k] + 1
       /\ d \in arrived[k] =>
            arrivals[d][k] = generation[k] + 1 /\ passed[d][k] = generation[k]
       /\ d \notin arrived[k] => arrivals[d][k] = generation[k]

BarrierInv == NoStrangers /\ \A k \in BarrierKey : SiteInv(k)

(* The set a site waits for is the same for every core that reaches it.    *)
LEMMA MembersOfKey ==
  ASSUME IsLaunch(launch), NEW c \in Core, pc[c] \in Nat \ {0}, At(c, "barrier"),
         NoStrangers
  PROVE  /\ c \in Members(BarrierKeyOf(c))
         /\ Participants(BlockOf(c), BarrierKeyOf(c).mode) = Members(BarrierKeyOf(c))
<1>1. PICK k \in BarrierKey : k = BarrierKeyOf(c)
  BY BarrierKeyFacts
<1>2. k.mode = Op(c).mode /\ (k.mode = "ALL_SUB_VECTOR" => k.block = BlockOf(c))
  BY <1>1 DEF BarrierKeyOf
<1>3. Participants(BlockOf(c), k.mode) = Members(k)
  BY <1>2 DEF Participants, Members
<1>4. c \in Participants(BlockOf(c), k.mode)
  <2>1. pc[c] \in 1 .. Len(launch.program[c]) /\ launch.program[c][pc[c]] = Op(c)
    <3>1. launch.program[c] \in Seq(Instr)
      BY DEF IsLaunch, Core
    <3> QED BY <3>1 DEF At, AtEnd, Op
  <2>2. Op(c).op = "barrier"
    BY DEF At
  <2> QED BY <1>2, <2>1, <2>2 DEF NoStrangers
<1> QED BY <1>1, <1>3, <1>4

(* The members of a site are some of the cores, hence finite in number.    *)
LEMMA FiniteMembers ==
  ASSUME IsLaunch(launch), NEW k \in BarrierKey
  PROVE  IsFiniteSet(Members(k)) /\ Cardinality(Members(k)) \in Nat /\ Members(k) \subseteq Core
<1>1. Members(k) \subseteq Core
  BY DEF Members, Participants
<1> QED BY <1>1, CoreFacts, FS_Subset, FS_CardinalityType

(* What a step at a barrier does to its site: a participant leaves, enters *)
(* or, last to arrive, does both; or it tests again and nothing happens.   *)
LEMMA SiteStep ==
  ASSUME TypeOK, BarrierInv, NEW c \in Core,
         SyncBlockReleased(c) \/ SyncBlockParks(c) \/ SyncBlockFires(c)
  PROVE  \E k \in BarrierKey :
           /\ k = BarrierKeyOf(c) /\ c \in Members(k)
           /\ \/ /\ generation[k] = passed[c][k] + 1
                 /\ c \notin arrived[k]
                 /\ passed' = [passed EXCEPT ![c][k] = @ + 1]
                 /\ UNCHANGED <<arrived, generation, arrivals>>
              \/ /\ c \in arrived[k]
                 /\ arrived' = arrived /\ arrivals' = arrivals
                 /\ UNCHANGED <<generation, passed>>
              \/ /\ c \notin arrived[k] /\ passed[c][k] = generation[k]
                 /\ arrived' = [arrived EXCEPT ![k] = @ \cup {c}]
                 /\ arrivals' = [arrivals EXCEPT ![c][k] = @ + 1]
                 /\ UNCHANGED <<generation, passed>>
              \/ /\ passed[c][k] = generation[k]
                 /\ Members(k) = arrived[k] \cup {c}
                 /\ arrived' = [arrived EXCEPT ![k] = {}]
                 /\ generation' = [generation EXCEPT ![k] = @ + 1]
                 /\ passed' = [passed EXCEPT ![c][k] = @ + 1]
                 /\ arrivals' = [arrivals EXCEPT ![c][k] =
                                   IF c \in arrived[k] THEN @ ELSE @ + 1]
           /\ expected' = [expected EXCEPT ![k] = Cardinality(Members(k))]
<1>1. IsLaunch(launch) /\ pc[c] \in Nat \ {0} /\ At(c, "barrier") /\ NoStrangers
  BY DEF TypeOK, BarrierInv, SyncBlockReleased, SyncBlockParks, SyncBlockFires
<1>2. PICK k \in BarrierKey : k = BarrierKeyOf(c)
  BY <1>1, BarrierKeyFacts
<1>3. c \in Members(k) /\ Participants(BlockOf(c), k.mode) = Members(k)
  BY <1>1, <1>2, MembersOfKey
<1>4. SiteInv(k)
  BY DEF BarrierInv
<1>5. Expected(c, k) = Cardinality(Members(k))
  BY <1>3, <1>4 DEF Expected, SiteInv
<1>6. expected' = [expected EXCEPT ![k] = Cardinality(Members(k))]
  BY <1>2, <1>5 DEF SyncBlockReleased, SyncBlockParks, SyncBlockFires
<1>7. passed[c][k] \in Nat /\ generation[k] \in Nat /\ arrivals[c][k] \in Nat
  BY DEF TypeOK
<1>8. CASE SyncBlockReleased(c)
  <2>1. /\ Due(c, k)
        /\ passed' = [passed EXCEPT ![c][k] = @ + 1]
        /\ UNCHANGED <<arrived, generation, arrivals>>
    BY <1>2, <1>8 DEF SyncBlockReleased
  <2>2. generation[k] = passed[c][k] + 1 /\ c \notin arrived[k]
    BY <1>3, <1>4, <1>7, <2>1 DEF SiteInv, Due
  <2> QED BY <1>2, <1>3, <1>6, <2>1, <2>2
<1>9. CASE SyncBlockParks(c)
  <2>1. /\ ~Due(c, k)
        /\ arrived' = [arrived EXCEPT ![k] = arrived[k] \cup {c}]
        /\ arrivals' = [arrivals EXCEPT ![c][k] = IF c \in arrived[k] THEN @ ELSE @ + 1]
        /\ UNCHANGED <<generation, passed>>
    BY <1>2, <1>9 DEF SyncBlockParks
  <2>2. passed[c][k] = generation[k]
    BY <1>3, <1>4, <1>7, <2>1 DEF SiteInv, Due
  <2>3. CASE c \in arrived[k]
    <3>1. arrived' = arrived /\ arrivals' = arrivals
      BY <2>1, <2>3 DEF TypeOK
    <3> QED BY <1>2, <1>3, <1>6, <2>1, <2>3, <3>1
  <2>4. CASE c \notin arrived[k]
    BY <1>2, <1>3, <1>6, <2>1, <2>2, <2>4
  <2> QED BY <2>3, <2>4
<1>10. CASE SyncBlockFires(c)
  <2>1. /\ ~Due(c, k)
        /\ Cardinality(arrived[k] \cup {c}) >= Expected(c, k)
        /\ arrived' = [arrived EXCEPT ![k] = {}]
        /\ generation' = [generation EXCEPT ![k] = @ + 1]
        /\ passed' = [passed EXCEPT ![c][k] = @ + 1]
        /\ arrivals' = [arrivals EXCEPT ![c][k] = IF c \in arrived[k] THEN @ ELSE @ + 1]
    BY <1>2, <1>10 DEF SyncBlockFires
  <2>2. passed[c][k] = generation[k]
    BY <1>3, <1>4, <1>7, <2>1 DEF SiteInv, Due
  <2>3. Members(k) = arrived[k] \cup {c}
    <3>1. arrived[k] \cup {c} \subseteq Members(k)
      BY <1>3, <1>4 DEF SiteInv
    <3>2. IsFiniteSet(Members(k)) /\ Cardinality(Members(k)) \in Nat
      BY <1>1, FiniteMembers
    <3>3. Cardinality(arrived[k] \cup {c}) \in Nat
      BY <3>1, <3>2, FS_Subset, FS_CardinalityType
    <3>4. ~(Cardinality(arrived[k] \cup {c}) < Cardinality(Members(k)))
      BY <1>5, <2>1, <3>2, <3>3
    <3>5. Cardinality(arrived[k] \cup {c}) <= Cardinality(Members(k))
      BY <3>1, <3>2, FS_Subset
    <3>6. Cardinality(arrived[k] \cup {c}) = Cardinality(Members(k))
      BY <3>2, <3>3, <3>4, <3>5
    <3> QED BY <3>1, <3>2, <3>6, FS_Subset
  <2> QED BY <1>2, <1>3, <1>6, <2>1, <2>2, <2>3
<1> QED BY <1>8, <1>9, <1>10

(* Every other step leaves the sites alone.                                *)
LEMMA SitesApart ==
  ASSUME NEW c \in Core, Step(c),
         ~(SyncBlockReleased(c) \/ SyncBlockParks(c) \/ SyncBlockFires(c))
  PROVE  UNCHANGED barrierVars
BY DEF Step, SyncBlockSet, SyncBlockWait, SyncBlockWaitParks, SyncBlockLock,
       SyncBlockLockParks, ReleaseLock, Compute, WaitFlagParks, Fail, Return

(* No step changes the launch, hence who the members of a site are.        *)
LEMMA NextKeepsLaunch ==
  ASSUME [Next]_vars
  PROVE  launch' = launch /\ Core' = Core /\ NoStrangers' = NoStrangers
         /\ \A k \in BarrierKey : Members(k)' = Members(k)
<1>1. launch' = launch
  BY DEF vars, Next, Finish, Retry, Deadlock, Step, SyncBlockSet, SyncBlockWait,
         SyncBlockWaitParks, SyncBlockReleased, SyncBlockParks, SyncBlockFires,
         SyncBlockLock, SyncBlockLockParks, ReleaseLock, Compute, WaitFlagParks, Fail,
         Return, Turn
<1>2. Core' = Core /\ \A c : BlockOf(c)' = BlockOf(c) /\ KindOf(c)' = KindOf(c)
  BY <1>1 DEF Core, BlockOf, KindOf
<1>3. \A b, m : Participants(b, m)' = Participants(b, m)
  BY <1>2 DEF Participants
<1>4. NoStrangers' = NoStrangers
  BY <1>1, <1>2, <1>3 DEF NoStrangers
<1>5. \A k \in BarrierKey : Members(k)' = Members(k)
  BY <1>3 DEF Members
<1> QED BY <1>1, <1>2, <1>4, <1>5

(* A step at a barrier keeps the counting of its own site and of every     *)
(* other.                                                                  *)
LEMMA BarrierStepKeepsSites ==
  ASSUME TypeOK, BarrierInv, NEW c \in Core,
         SyncBlockReleased(c) \/ SyncBlockParks(c) \/ SyncBlockFires(c),
         NEW j \in BarrierKey, Members(j)' = Members(j)
  PROVE  SiteInv(j)'
<1>1. PICK k \in BarrierKey :
        /\ k = BarrierKeyOf(c) /\ c \in Members(k)
        /\ \/ /\ generation[k] = passed[c][k] + 1
              /\ c \notin arrived[k]
              /\ passed' = [passed EXCEPT ![c][k] = @ + 1]
              /\ UNCHANGED <<arrived, generation, arrivals>>
           \/ /\ c \in arrived[k]
              /\ arrived' = arrived /\ arrivals' = arrivals
              /\ UNCHANGED <<generation, passed>>
           \/ /\ c \notin arrived[k] /\ passed[c][k] = generation[k]
              /\ arrived' = [arrived EXCEPT ![k] = @ \cup {c}]
              /\ arrivals' = [arrivals EXCEPT ![c][k] = @ + 1]
              /\ UNCHANGED <<generation, passed>>
           \/ /\ passed[c][k] = generation[k]
              /\ Members(k) = arrived[k] \cup {c}
              /\ arrived' = [arrived EXCEPT ![k] = {}]
              /\ generation' = [generation EXCEPT ![k] = @ + 1]
              /\ passed' = [passed EXCEPT ![c][k] = @ + 1]
              /\ arrivals' = [arrivals EXCEPT ![c][k] =
                                IF c \in arrived[k] THEN @ ELSE @ + 1]
        /\ expected' = [expected EXCEPT ![k] = Cardinality(Members(k))]
  BY SiteStep
<1>2. SiteInv(j) /\ Members(j) \subseteq Core
  BY FiniteMembers DEF BarrierInv, TypeOK
<1>3. expected'[j] \in {0, Cardinality(Members(j))}
  BY <1>1, <1>2 DEF SiteInv, TypeOK
<1>4. /\ \A d \in Core : passed[d][j] \in Nat /\ arrivals[d][j] \in Nat
      /\ generation[j] \in Nat
  BY DEF TypeOK
<1>5. ASSUME j # k PROVE SiteInv(j)'
  <2>1. /\ arrived'[j] = arrived[j] /\ generation'[j] = generation[j]
        /\ \A d \in Core : passed'[d][j] = passed[d][j] /\ arrivals'[d][j] = arrivals[d][j]
    BY <1>1, <1>5 DEF TypeOK
  <2> QED BY <1>2, <1>3, <2>1 DEF SiteInv
<1>6. ASSUME j = k PROVE SiteInv(j)'
  <2>1. arrived'[j] \subseteq Members(j)
    BY <1>1, <1>2, <1>6 DEF SiteInv, TypeOK
  <2>2. ASSUME NEW d \in Members(j)
        PROVE  /\ passed'[d][j] <= generation'[j] /\ generation'[j] <= passed'[d][j] + 1
               /\ d \in arrived'[j] =>
                    arrivals'[d][j] = generation'[j] + 1 /\ passed'[d][j] = generation'[j]
               /\ d \notin arrived'[j] => arrivals'[d][j] = generation'[j]
    <3>1. /\ passed[d][j] <= generation[j] /\ generation[j] <= passed[d][j] + 1
          /\ d \in arrived[j] =>
               arrivals[d][j] = generation[j] + 1 /\ passed[d][j] = generation[j]
          /\ d \notin arrived[j] => arrivals[d][j] = generation[j]
          /\ d \in Core /\ passed[d][j] \in Nat /\ arrivals[d][j] \in Nat
      BY <1>2, <1>4 DEF SiteInv
    <3>2. CASE /\ generation[k] = passed[c][k] + 1
               /\ c \notin arrived[k]
               /\ passed' = [passed EXCEPT ![c][k] = @ + 1]
               /\ UNCHANGED <<arrived, generation, arrivals>>
      <4>1. passed'[d][j] = IF d = c THEN passed[d][j] + 1 ELSE passed[d][j]
        BY <1>6, <3>1, <3>2 DEF TypeOK
      <4> QED BY <1>4, <1>6, <3>1, <3>2, <4>1
    <3>3. CASE arrived' = arrived /\ arrivals' = arrivals /\ UNCHANGED <<generation, passed>>
      BY <3>1, <3>3
    <3>4. CASE /\ c \notin arrived[k] /\ passed[c][k] = generation[k]
               /\ arrived' = [arrived EXCEPT ![k] = @ \cup {c}]
               /\ arrivals' = [arrivals EXCEPT ![c][k] = @ + 1]
               /\ UNCHANGED <<generation, passed>>
      <4>1. /\ arrivals'[d][j] = IF d = c THEN arrivals[d][j] + 1 ELSE arrivals[d][j]
            /\ arrived'[j] = arrived[j] \cup {c}
        BY <1>6, <3>1, <3>4 DEF TypeOK
      <4> QED BY <1>4, <1>6, <3>1, <3>4, <4>1
    <3>5. CASE /\ passed[c][k] = generation[k]
               /\ Members(k) = arrived[k] \cup {c}
               /\ arrived' = [arrived EXCEPT ![k] = {}]
               /\ generation' = [generation EXCEPT ![k] = @ + 1]
               /\ passed' = [passed EXCEPT ![c][k] = @ + 1]
               /\ arrivals' = [arrivals EXCEPT ![c][k] =
                                 IF c \in arrived[k] THEN @ ELSE @ + 1]
      <4>1. /\ passed'[d][j] = IF d = c THEN passed[d][j] + 1 ELSE passed[d][j]
            /\ arrivals'[d][j] = IF d = c /\ c \notin arrived[j] THEN arrivals[d][j] + 1
                                                               ELSE arrivals[d][j]
            /\ arrived'[j] = {} /\ generation'[j] = generation[j] + 1
        BY <1>6, <3>1, <3>5 DEF TypeOK
      <4>2. d \in arrived[j] \/ d = c
        BY <1>6, <3>5
      <4> QED BY <1>4, <1>6, <3>1, <3>5, <4>1, <4>2
    <3> QED BY <1>1, <3>2, <3>3, <3>4, <3>5
  <2> QED BY <1>3, <2>1, <2>2 DEF SiteInv
<1> QED BY <1>5, <1>6

(* The counting of the sites is inductive, given the types.                *)
LEMMA NextKeepsSites == TypeOK /\ BarrierInv /\ [Next]_vars => BarrierInv'
<1> SUFFICES ASSUME TypeOK, BarrierInv, [Next]_vars PROVE BarrierInv'
  OBVIOUS
<1>1. NoStrangers' /\ \A k \in BarrierKey : Members(k)' = Members(k)
  BY NextKeepsLaunch DEF BarrierInv
<1>2. ASSUME UNCHANGED barrierVars, NEW k \in BarrierKey PROVE SiteInv(k)'
  <2>1. SiteInv(k)
    BY DEF BarrierInv
  <2> QED BY <1>1, <1>2, <2>1 DEF SiteInv, barrierVars
<1>3. ASSUME NEW c \in Core, Step(c), NEW k \in BarrierKey PROVE SiteInv(k)'
  <2>1. CASE SyncBlockReleased(c) \/ SyncBlockParks(c) \/ SyncBlockFires(c)
    BY <1>1, <2>1, BarrierStepKeepsSites
  <2>2. CASE ~(SyncBlockReleased(c) \/ SyncBlockParks(c) \/ SyncBlockFires(c))
    BY <1>2, <1>3, <2>2, SitesApart
  <2> QED BY <2>1, <2>2
<1>4. \A k \in BarrierKey : SiteInv(k)'
  <2>1. CASE Finish \/ Retry \/ Deadlock \/ UNCHANGED vars
    <3>1. UNCHANGED barrierVars
      BY <2>1 DEF Finish, Retry, Deadlock, vars
    <3> QED BY <1>2, <3>1
  <2> QED BY <1>3, <2>1 DEF Next
<1> QED BY <1>1, <1>4 DEF BarrierInv

(* It holds before anybody has arrived anywhere.                           *)
LEMMA InitSites == Init /\ NoStrangers => BarrierInv
<1> SUFFICES ASSUME Init, NoStrangers, NEW k \in BarrierKey PROVE SiteInv(k)
  BY DEF BarrierInv
<1>1. Members(k) \subseteq Core
  BY DEF Members, Participants
<1> QED BY <1>1 DEF Init, SiteInv

-----------------------------------------------------------------------------
(* The initial states of a site, and its steps, are those of Rendezvous.   *)
LEMMA SiteStarts ==
  ASSUME Init, NEW k \in BarrierKey
  PROVE  Site(k)!Init
<1>1. Members(k) \subseteq Core
  BY DEF Members, Participants
<1> QED BY <1>1 DEF Init, Site!Init

(* Every step is, at every site, an Enter, a Leave, a Last or a stutter.   *)
LEMMA SiteSteps ==
  ASSUME TypeOK, BarrierInv, [Next]_vars, NEW j \in BarrierKey
  PROVE  [Site(j)!Next]_(Site(j)!vars)
<1>1. Members(j)' = Members(j) /\ IsLaunch(launch)
  BY NextKeepsLaunch DEF TypeOK
<1>2. PICK M \in SUBSET Core : M = Members(j)
  BY <1>1, FiniteMembers
<1>3. SUFFICES ASSUME ~(UNCHANGED <<[d \in M |-> arrivals[d][j]], [d \in M |-> passed[d][j]]>>)
               PROVE  Site(j)!Next
  BY <1>1, <1>2 DEF Site!vars
<1>4. PICK c \in Core : SyncBlockReleased(c) \/ SyncBlockParks(c) \/ SyncBlockFires(c)
  <2>1. CASE Finish \/ Retry \/ Deadlock \/ UNCHANGED vars
    <3>1. UNCHANGED barrierVars
      BY <2>1 DEF Finish, Retry, Deadlock, vars
    <3> QED BY <1>3, <3>1 DEF barrierVars
  <2>2. ASSUME NEW c \in Core, Step(c),
               ~(SyncBlockReleased(c) \/ SyncBlockParks(c) \/ SyncBlockFires(c))
        PROVE  FALSE
    BY <1>3, <2>2, SitesApart DEF barrierVars
  <2> QED BY <2>1, <2>2 DEF Next
<1>5. PICK k \in BarrierKey :
        /\ k = BarrierKeyOf(c) /\ c \in Members(k)
        /\ \/ /\ generation[k] = passed[c][k] + 1
              /\ c \notin arrived[k]
              /\ passed' = [passed EXCEPT ![c][k] = @ + 1]
              /\ UNCHANGED <<arrived, generation, arrivals>>
           \/ /\ c \in arrived[k]
              /\ arrived' = arrived /\ arrivals' = arrivals
              /\ UNCHANGED <<generation, passed>>
           \/ /\ c \notin arrived[k] /\ passed[c][k] = generation[k]
              /\ arrived' = [arrived EXCEPT ![k] = @ \cup {c}]
              /\ arrivals' = [arrivals EXCEPT ![c][k] = @ + 1]
              /\ UNCHANGED <<generation, passed>>
           \/ /\ passed[c][k] = generation[k]
              /\ Members(k) = arrived[k] \cup {c}
              /\ arrived' = [arrived EXCEPT ![k] = {}]
              /\ generation' = [generation EXCEPT ![k] = @ + 1]
              /\ passed' = [passed EXCEPT ![c][k] = @ + 1]
              /\ arrivals' = [arrivals EXCEPT ![c][k] =
                                IF c \in arrived[k] THEN @ ELSE @ + 1]
        /\ expected' = [expected EXCEPT ![k] = Cardinality(Members(k))]
  BY <1>4, SiteStep
<1>6. j = k
  <2>1. SUFFICES ASSUME j # k PROVE FALSE
    OBVIOUS
  <2>2. \A d \in Core : passed'[d][j] = passed[d][j] /\ arrivals'[d][j] = arrivals[d][j]
    BY <1>5, <2>1 DEF TypeOK
  <2> QED BY <1>2, <1>3, <2>2
<1>7. /\ SiteInv(j) /\ c \in M /\ generation[j] \in Nat
      /\ \A d \in Core : passed[d][j] \in Nat /\ arrivals[d][j] \in Nat
  BY <1>2, <1>5, <1>6 DEF BarrierInv, TypeOK
<1> DEFINE entered == [d \in M |-> arrivals[d][j]]
           left == [d \in M |-> passed[d][j]]
           entered1 == [d \in M |-> arrivals'[d][j]]
           left1 == [d \in M |-> passed'[d][j]]
<1>8. \/ /\ \A d \in M : left[c] < entered[d]
         /\ left1 = [left EXCEPT ![c] = @ + 1] /\ entered1 = entered
      \/ /\ entered[c] = left[c]
         /\ entered1 = [entered EXCEPT ![c] = @ + 1] /\ left1 = left
      \/ /\ entered[c] = left[c]
         /\ \A d \in M \ {c} : left[c] < entered[d]
         /\ entered1 = [entered EXCEPT ![c] = @ + 1]
         /\ left1 = [left EXCEPT ![c] = @ + 1]
  <2>1. \A d \in M :
          /\ passed[d][j] <= generation[j] /\ generation[j] <= passed[d][j] + 1
          /\ d \in arrived[j] =>
               arrivals[d][j] = generation[j] + 1 /\ passed[d][j] = generation[j]
          /\ d \notin arrived[j] => arrivals[d][j] = generation[j]
    BY <1>2, <1>7 DEF SiteInv
  <2>2. CASE /\ generation[j] = passed[c][j] + 1
             /\ passed' = [passed EXCEPT ![c][j] = @ + 1]
             /\ arrivals' = arrivals
    <3>1. \A d \in M : passed'[d][j] = IF d = c THEN passed[d][j] + 1 ELSE passed[d][j]
      BY <2>2 DEF TypeOK
    <3>2. left1 = [left EXCEPT ![c] = @ + 1] /\ entered1 = entered
      BY <2>2, <3>1
    <3>3. \A d \in M : passed[c][j] < arrivals[d][j]
      <4> SUFFICES ASSUME NEW d \in M PROVE passed[c][j] < arrivals[d][j]
        OBVIOUS
      <4>1. arrivals[d][j] \in Nat /\ passed[c][j] \in Nat /\ arrivals[d][j] >= generation[j]
        BY <1>7, <2>1
      <4> QED BY <2>2, <4>1
    <3> QED BY <1>7, <3>2, <3>3
  <2>3. CASE /\ c \notin arrived[j] /\ passed[c][j] = generation[j]
             /\ arrivals' = [arrivals EXCEPT ![c][j] = @ + 1]
             /\ passed' = passed
    <3>1. \A d \in M : arrivals'[d][j] = IF d = c THEN arrivals[d][j] + 1 ELSE arrivals[d][j]
      BY <2>3 DEF TypeOK
    <3>2. entered1 = [entered EXCEPT ![c] = @ + 1] /\ left1 = left
      BY <2>3, <3>1
    <3> QED BY <1>7, <2>1, <2>3, <3>2
  <2>4. CASE /\ passed[c][j] = generation[j]
             /\ M = arrived[j] \cup {c}
             /\ passed' = [passed EXCEPT ![c][j] = @ + 1]
             /\ arrivals' = [arrivals EXCEPT ![c][j] = IF c \in arrived[j] THEN @ ELSE @ + 1]
    <3>1. \A d \in M : passed'[d][j] = IF d = c THEN passed[d][j] + 1 ELSE passed[d][j]
      BY <2>4 DEF TypeOK
    <3>2. left1 = [left EXCEPT ![c] = @ + 1]
      BY <3>1
    <3>3. \A d \in arrived[j] \cap M : passed[c][j] < arrivals[d][j]
      <4> SUFFICES ASSUME NEW d \in arrived[j] \cap M PROVE passed[c][j] < arrivals[d][j]
        OBVIOUS
      <4> QED BY <1>7, <2>1, <2>4
    <3>4. CASE c \in arrived[j]
      <4>1. entered1 = entered
        BY <2>4, <3>4 DEF TypeOK
      <4>2. \A d \in M : d \in arrived[j]
        BY <2>4, <3>4
      <4> QED BY <1>7, <3>2, <3>3, <4>1, <4>2
    <3>5. CASE c \notin arrived[j]
      <4>1. \A d \in M :
              arrivals'[d][j] = IF d = c THEN arrivals[d][j] + 1 ELSE arrivals[d][j]
        BY <2>4, <3>5 DEF TypeOK
      <4>2. entered1 = [entered EXCEPT ![c] = @ + 1]
        BY <4>1
      <4>3. \A d \in M \ {c} : passed[c][j] < arrivals[d][j]
        BY <2>4, <3>3
      <4> QED BY <1>7, <2>1, <2>4, <3>2, <3>5, <4>2, <4>3
    <3> QED BY <3>4, <3>5
  <2>5. ~(passed' = passed /\ arrivals' = arrivals)
    BY <1>3
  <2> QED BY <1>2, <1>5, <1>6, <2>2, <2>3, <2>4, <2>5
<1> QED BY <1>1, <1>2, <1>7, <1>8 DEF Site!Next, Site!Enter, Site!Leave, Site!Last

(* If barriers are reached by their participants only, every site          *)
(* implements Rendezvous for its participants.                             *)
THEOREM SitesAreRendezvous == Spec /\ NoStrangers => SitesImplementRendezvous
<1>1. Init => \A k \in BarrierKey : Site(k)!Init
  BY SiteStarts
<1>2. TypeOK /\ BarrierInv /\ [Next]_vars =>
        [\A k \in BarrierKey : [Site(k)!Next]_(Site(k)!vars)]_vars
  BY SiteSteps
<1> QED
  BY <1>1, <1>2, InitTypes, NextKeepsTypes, InitSites, NextKeepsSites, PTL
     DEF Spec, SitesImplementRendezvous

-----------------------------------------------------------------------------
(* What the remainder is, for numbers below twice the divisor ...          *)
LEMMA Remainder ==
  ASSUME NEW n \in Nat \ {0}, NEW x \in Nat
  PROVE  /\ x < n => x % n = x
         /\ n <= x /\ x < 2 * n => x % n = x - n
<1>1. x < n => x % n = x
  OBVIOUS
<1>2. n <= x /\ x < 2 * n => x % n = x - n
  OBVIOUS
<1> QED BY <1>1, <1>2

(* A number is a multiple of the divisor, and its remainder.               *)
LEMMA Division ==
  ASSUME NEW n \in Nat \ {0}, NEW x \in Nat
  PROVE  x = n * (x \div n) + (x % n) /\ x \div n \in Int /\ x % n \in 0 .. (n - 1)
OBVIOUS

(* ... and for the successor of a number.                                  *)
LEMMA NextRemainder ==
  ASSUME NEW n \in Nat \ {0}, NEW x \in Nat
  PROVE  (x + 1) % n = IF (x % n) + 1 >= n THEN 0 ELSE (x % n) + 1
<1>1. PICK q \in Int, r \in 0 .. (n - 1) : x = n * q + r /\ r = x % n
  BY Division
<1>2. PICK q1 \in Int, r1 \in 0 .. (n - 1) : x + 1 = n * q1 + r1 /\ r1 = (x + 1) % n
  <2>1. x + 1 \in Nat
    OBVIOUS
  <2> QED BY <2>1, Division
<1>3. n * q1 + r1 = n * q + r + 1
  BY <1>1, <1>2
<1>4. PICK m \in Int : m = q1 - q
  OBVIOUS
<1>5. n * q1 = n * q + n * m
  BY <1>4
<1>6. n * m \in Int /\ n * q \in Int /\ n * m + r1 = r + 1
  BY <1>3, <1>5
<1>7. m >= 2 => n * m >= 2 * n
  OBVIOUS
<1>8. m <= -1 => n * m <= -n
  OBVIOUS
<1>9. m = 0 \/ m = 1
  <2>1. n * m <= n /\ n * m > -n
    BY <1>6
  <2> QED BY <1>7, <1>8, <2>1
<1>10. (r1 = r + 1 /\ r + 1 < n) \/ (r1 = 0 /\ r + 1 = n)
  BY <1>6, <1>9
<1> QED BY <1>1, <1>2, <1>10

-----------------------------------------------------------------------------
(* How far a position is ahead of the cursor, going round.                 *)
LEMMA Gap ==
  ASSUME NEW n \in Nat \ {0}, NEW i \in 0 .. (n - 1), NEW a \in 0 .. (n - 1)
  PROVE  (a - i + n) % n = IF a >= i THEN a - i ELSE a - i + n
<1>1. PICK x \in Nat : x = a - i + n /\ x < 2 * n
  OBVIOUS
<1>2. (x < n => x % n = x) /\ (n <= x /\ x < 2 * n => x % n = x - n)
  BY Remainder
<1> QED BY <1>1, <1>2

(* Once the nearest position has had its turn and the cursor is past it,   *)
(* every other one is nearer than it was.                                  *)
LEMMA TurnNears ==
  ASSUME NEW n \in Nat \ {0}, NEW i \in 0 .. (n - 1),
         NEW c \in 0 .. (n - 1), NEW d \in 0 .. (n - 1), c # d,
         (c - i + n) % n <= (d - i + n) % n
  PROVE  (d - ((c + 1) % n) + n) % n < (d - i + n) % n
<1>1. PICK j \in 0 .. (n - 1) : j = (c + 1) % n /\ j = IF c + 1 = n THEN 0 ELSE c + 1
  <2>1. c + 1 \in Nat /\ (c + 1 < n => (c + 1) % n = c + 1)
        /\ (n <= c + 1 /\ c + 1 < 2 * n => (c + 1) % n = c + 1 - n)
    BY Remainder
  <2> QED BY <2>1
<1>2. /\ (c - i + n) % n = IF c >= i THEN c - i ELSE c - i + n
      /\ (d - i + n) % n = IF d >= i THEN d - i ELSE d - i + n
      /\ (d - j + n) % n = IF d >= j THEN d - j ELSE d - j + n
  BY Gap
<1>3. (IF d >= j THEN d - j ELSE d - j + n) < (IF d >= i THEN d - i ELSE d - i + n)
  BY <1>1, <1>2
<1> QED BY <1>1, <1>2, <1>3

(* The number of turns a core has been passed over and the number of       *)
(* places the cursor has still to move to it add up to less than a round;  *)
(* who is not waiting for a turn has not been passed over.                 *)
FairInv ==
  /\ nextCoreIdx \in 0 .. (NumCores - 1)
  /\ \A c \in Core :
       /\ launch.fuzz \/ status[c] # "Runnable" => skipped[c] = 0
       /\ skipped[c] + Distance(c) < NumCores

(* A step of a core is a turn, and takes nobody else out of the running.   *)
LEMMA StepIsTurn ==
  ASSUME TypeOK, NEW c \in Core, Step(c)
  PROVE  /\ Turn(c)
         /\ \A d \in Core \ {c} : status[d] = "Runnable" => status'[d] = "Runnable"
<1>1. Turn(c)
  BY DEF Step, SyncBlockSet, SyncBlockWait, SyncBlockWaitParks, SyncBlockReleased,
         SyncBlockParks, SyncBlockFires, SyncBlockLock, SyncBlockLockParks, ReleaseLock,
         Compute, WaitFlagParks, Fail, Return
<1>2. ASSUME NEW d \in Core \ {c}, status[d] = "Runnable" PROVE status'[d] = "Runnable"
  BY <1>2, Bystander
<1> QED BY <1>1, <1>2

(* Nobody is a whole round ahead of the cursor.                            *)
LEMMA DistanceFacts ==
  ASSUME IsLaunch(launch), nextCoreIdx \in 0 .. (NumCores - 1), NEW c \in Core
  PROVE  Distance(c) \in 0 .. (NumCores - 1)
<1>1. PICK n \in Nat \ {0} : n = NumCores /\ Core = 0 .. (n - 1)
  BY CoreFacts
<1>2. c - nextCoreIdx + n \in Nat
  BY <1>1
<1> QED BY <1>1, <1>2, Division DEF Distance

(* A turn brings the cursor nearer to every core it passes over.           *)
LEMMA TurnKeepsFair ==
  ASSUME TypeOK, FairInv, NEW c \in Core, Turn(c),
         \A d \in Core \ {c} : status[d] = "Runnable" => status'[d] = "Runnable"
  PROVE  FairInv'
<1>1. /\ IsLaunch(launch) /\ launch' = launch /\ Core' = Core /\ NumCores' = NumCores
      /\ CanPick(c)
  BY DEF TypeOK, Turn, Core, NumCores
<1>2. PICK n \in Nat \ {0} : n = NumCores /\ Core = 0 .. (n - 1)
  BY <1>1, CoreFacts
<1>3. /\ nextCoreIdx \in 0 .. (n - 1)
      /\ \A d \in Core : /\ launch.fuzz \/ status[d] # "Runnable" => skipped[d] = 0
                        /\ skipped[d] + Distance(d) < n
                        /\ skipped[d] \in Nat
  BY <1>2 DEF FairInv, TypeOK
<1>4. CASE launch.fuzz
  <2>1. nextCoreIdx' = nextCoreIdx /\ skipped' = skipped
    BY <1>4 DEF Turn
  <2> QED BY <1>1, <1>2, <1>3, <1>4, <2>1 DEF FairInv, Distance
<1>5. CASE ~launch.fuzz
  <2>1. /\ nextCoreIdx' = (c + 1) % n
        /\ skipped' = [d \in Core |-> IF d = c \/ status[d] # "Runnable"
                                        THEN 0 ELSE skipped[d] + 1]
    BY <1>2, <1>5 DEF Turn
  <2>2. nextCoreIdx' \in 0 .. (n - 1)
    <3>1. c + 1 \in Nat
      BY <1>2
    <3> QED BY <2>1, <3>1, Division
  <2>3. ASSUME NEW d \in Core PROVE Distance(d)' \in 0 .. (n - 1)
    <3>1. PICK j \in 0 .. (n - 1) : j = nextCoreIdx'
      BY <2>2
    <3>2. d \in 0 .. (n - 1)
      BY <1>2
    <3>3. PICK x \in Nat : x = d - j + n
      BY <3>2
    <3>4. Distance(d)' = x % n
      BY <1>1, <1>2, <3>1, <3>3 DEF Distance
    <3> QED BY <3>4, Division
  <2>4. ASSUME NEW d \in Core PROVE skipped'[d] + Distance(d)' < n
    <3>1. CASE d = c \/ status[d] # "Runnable"
      BY <2>1, <2>3, <3>1
    <3>2. CASE d # c /\ status[d] = "Runnable"
      <4>1. Distance(c) <= Distance(d)
        BY <1>1, <1>5, <3>2 DEF CanPick
      <4>2. Distance(d)' = (d - ((c + 1) % n) + n) % n
        BY <1>1, <1>2, <2>1 DEF Distance
      <4>3. Distance(d)' < Distance(d)
        BY <1>2, <1>3, <3>2, <4>1, <4>2, TurnNears DEF Distance
      <4>4. Distance(d) \in 0 .. (n - 1)
        BY <1>1, <1>2, <1>3, DistanceFacts
      <4>5. skipped'[d] = skipped[d] + 1
        BY <2>1, <3>2
      <4> QED BY <1>3, <2>3, <4>3, <4>4, <4>5
    <3> QED BY <3>1, <3>2
  <2>5. ASSUME NEW d \in Core, status'[d] # "Runnable" PROVE skipped'[d] = 0
    BY <2>1, <2>5
  <2> QED BY <1>1, <1>2, <1>5, <2>2, <2>4, <2>5 DEF FairInv
<1> QED BY <1>4, <1>5

(* So does whatever moves no cursor and takes nobody out of the running.   *)
LEMMA NextFair == TypeOK /\ FairInv /\ [Next]_vars => FairInv'
<1> SUFFICES ASSUME TypeOK, FairInv, [Next]_vars PROVE FairInv'
  OBVIOUS
<1>1. ASSUME NEW c \in Core, Step(c) PROVE FairInv'
  BY <1>1, StepIsTurn, TurnKeepsFair
<1>2. CASE Finish \/ Retry \/ Deadlock \/ UNCHANGED vars
  <2>1. UNCHANGED <<launch, nextCoreIdx, skipped>>
    BY <1>2 DEF Finish, Retry, Deadlock, vars
  <2>2. Core' = Core /\ NumCores' = NumCores /\ \A c : Distance(c)' = Distance(c)
    BY <2>1 DEF Core, NumCores, Distance
  <2>3. \A c \in Core : status[c] = "Runnable" => status'[c] = "Runnable"
    BY <1>2 DEF Finish, Retry, Deadlock, vars, Wake
  <2> QED BY <2>1, <2>2, <2>3 DEF FairInv
<1> QED BY <1>1, <1>2 DEF Next

(* At the start nobody has been passed over.                               *)
LEMMA InitFair == Init => FairInv
<1> SUFFICES ASSUME Init PROVE FairInv
  OBVIOUS
<1>1. IsLaunch(launch)
  BY InitTypes DEF TypeOK
<1>2. NumCores \in Nat \ {0} /\ nextCoreIdx = 0 /\ \A c \in Core : skipped[c] = 0
  BY <1>1, CoreFacts DEF Init
<1>3. \A c \in Core : Distance(c) \in 0 .. (NumCores - 1)
  BY <1>1, <1>2, DistanceFacts
<1> QED BY <1>2, <1>3 DEF FairInv

(* In the deterministic modes a runnable core is never passed over as      *)
(* often as there are cores: pickCore starts from behind the last one.     *)
THEOREM EverybodyGetsATurn == Spec => []RoundRobinFair
<1>1. TypeOK /\ FairInv => RoundRobinFair
  <2> SUFFICES ASSUME TypeOK, FairInv, NEW c \in Core PROVE skipped[c] < NumCores
    BY DEF RoundRobinFair
  <2>1. IsLaunch(launch) /\ skipped[c] \in Nat
    BY DEF TypeOK
  <2>2. Distance(c) \in 0 .. (NumCores - 1) /\ NumCores \in Nat
    BY <2>1, DistanceFacts, CoreFacts DEF FairInv
  <2> QED BY <2>1, <2>2 DEF FairInv
<1> QED
  BY <1>1, InitTypes, NextKeepsTypes, InitFair, NextFair, PTL DEF Spec

-----------------------------------------------------------------------------
(* The operations executed are finitely many, and an advance adds one.     *)
LEMMA FiniteExecuted ==
  ASSUME TypeOK
  PROVE  IsFiniteSet(Executed)
<1> DEFINE Done(c) == {c} \X (1 .. (pc[c] - 1))
<1>1. IsFiniteSet(Core)
  BY CoreFacts DEF TypeOK
<1>2. ASSUME NEW c \in Core PROVE IsFiniteSet(Done(c))
  <2>1. PICK n \in Int : n = pc[c] - 1
    BY DEF TypeOK
  <2>2. IsFiniteSet(1 .. n) /\ IsFiniteSet({c})
    BY FS_Interval, FS_Singleton
  <2> QED BY <2>1, <2>2, FS_Product
<1>3. IsFiniteSet({Done(c) : c \in Core})
  <2> DEFINE T == {Done(c) : c \in Core}
             f == [c \in Core |-> Done(c)]
  <2> HIDE DEF Done
  <2>1. f \in Surjection(Core, T)
    BY DEF Surjection
  <2> QED BY <1>1, <2>1, FS_Surjection
<1> QED BY <1>2, <1>3, FS_UNION DEF Executed

(* ... the one the core was at, which it had not executed before.          *)
LEMMA AdvanceExecutes ==
  ASSUME TypeOK, NEW c \in Core, Advance(c), launch' = launch
  PROVE  /\ Executed' = Executed \cup {<<c, pc[c]>>}
         /\ <<c, pc[c]>> \notin Executed
<1>1. Core' = Core /\ \A d \in Core : pc[d] \in Nat \ {0}
  BY DEF Core, TypeOK
<1>2. \A d \in Core : pc'[d] = IF d = c THEN pc[d] + 1 ELSE pc[d]
  BY DEF Advance, TypeOK
<1>3. ASSUME NEW x
      PROVE  x \in Executed <=>
               \E d \in Core : \E i \in Int : x = <<d, i>> /\ 1 <= i /\ i < pc[d]
  <2>1. \A d \in Core : \A i \in Int : i \in 1 .. (pc[d] - 1) <=> 1 <= i /\ i < pc[d]
    BY <1>1
  <2> QED BY <2>1 DEF Executed
<1>4. ASSUME NEW x
      PROVE  x \in Executed' <=>
               \E d \in Core : \E i \in Int : x = <<d, i>> /\ 1 <= i /\ i < pc'[d]
  <2>1. \A d \in Core : \A i \in Int : i \in 1 .. (pc'[d] - 1) <=> 1 <= i /\ i < pc'[d]
    BY <1>1, <1>2
  <2> QED BY <1>1, <2>1 DEF Executed
<1>5. <<c, pc[c]>> \notin Executed
  BY <1>1, <1>3
<1>6. ASSUME NEW x PROVE x \in Executed' <=> x \in Executed \/ x = <<c, pc[c]>>
  <2>1. ASSUME NEW d \in Core, NEW i \in Int
        PROVE  1 <= i /\ i < pc'[d] <=> (1 <= i /\ i < pc[d]) \/ (d = c /\ i = pc[c])
    BY <1>1, <1>2
  <2> QED BY <1>1, <1>3, <1>4, <2>1
<1> QED BY <1>5, <1>6

(* An advance over an operation on flag k is counted with the cores of D   *)
(* the core is one of, and nowhere else.                                   *)
LEMMA FlagOpsStep ==
  ASSUME TypeOK, NEW c \in Core, Advance(c), launch' = launch,
         NEW D, NEW op, NEW k \in FlagKey
  PROVE  /\ FlagOps(D, op, k) \in Nat
         /\ c \in D /\ Op(c).op = op /\ FlagKeyOf(c) = k =>
              FlagOps(D, op, k)' = FlagOps(D, op, k) + 1
         /\ ~(c \in D /\ Op(c).op = op /\ FlagKeyOf(c) = k) =>
              FlagOps(D, op, k)' = FlagOps(D, op, k)
<1> DEFINE Is(x) == /\ x[1] \in D /\ InstrAt(x).op = op /\ InstrAt(x).flag = k.flag
                    /\ k.scope = IF InstrAt(x).inter THEN Global ELSE BlockOf(x[1])
           new == <<c, pc[c]>>
           S == {x \in Executed : Is(x)}
           T == {x \in Executed' : Is(x)}
<1>1. FlagOps(D, op, k) = Cardinality(S)
  BY DEF FlagOps
<1>2. FlagOps(D, op, k)' = Cardinality(T)
  BY DEF FlagOps, InstrAt, BlockOf
<1>3. IsFiniteSet(S)
  BY FiniteExecuted, FS_Subset
<1>4. Cardinality(S) \in Nat
  BY <1>3, FS_CardinalityType
<1>5. Is(new) <=> c \in D /\ Op(c).op = op /\ FlagKeyOf(c) = k
  <2>1. new[1] = c /\ InstrAt(new) = Op(c)
    BY DEF InstrAt, Op
  <2>2. FlagKeyOf(c) = k <=> /\ Op(c).flag = k.flag
                             /\ k.scope = IF Op(c).inter THEN Global ELSE BlockOf(c)
    BY DEF FlagKeyOf, FlagKey
  <2> QED BY <2>1, <2>2
<1>6. Executed' = Executed \cup {new} /\ new \notin Executed
  BY AdvanceExecutes
<1> HIDE DEF Is, new
<1>7. Is(new) => T = S \cup {new} /\ new \notin S
  BY <1>6
<1>8. ~Is(new) => T = S
  BY <1>6
<1>9. Is(new) => Cardinality(T) = Cardinality(S) + 1
  BY <1>3, <1>7, FS_AddElement
<1> QED BY <1>1, <1>2, <1>4, <1>5, <1>8, <1>9

(* The same for the operations on a lock variable.                         *)
LEMMA LockOpsStep ==
  ASSUME TypeOK, NEW c \in Core, Advance(c), launch' = launch,
         NEW D, NEW op, NEW l
  PROVE  /\ LockOps(D, op, l) \in Nat
         /\ c \in D /\ Op(c).op = op /\ Op(c).lock = l =>
              LockOps(D, op, l)' = LockOps(D, op, l) + 1
         /\ ~(c \in D /\ Op(c).op = op /\ Op(c).lock = l) =>
              LockOps(D, op, l)' = LockOps(D, op, l)
<1> DEFINE Is(x) == x[1] \in D /\ InstrAt(x).op = op /\ InstrAt(x).lock = l
           new == <<c, pc[c]>>
           S == {x \in Executed : Is(x)}
           T == {x \in Executed' : Is(x)}
<1>1. LockOps(D, op, l) = Cardinality(S)
  BY DEF LockOps
<1>2. LockOps(D, op, l)' = Cardinality(T)
  BY DEF LockOps, InstrAt
<1>3. IsFiniteSet(S)
  BY FiniteExecuted, FS_Subset
<1>4. Cardinality(S) \in Nat
  BY <1>3, FS_CardinalityType
<1>5. Is(new) <=> c \in D /\ Op(c).op = op /\ Op(c).lock = l
  BY DEF InstrAt, Op
<1>6. Executed' = Executed \cup {new} /\ new \notin Executed
  BY AdvanceExecutes
<1> HIDE DEF Is, new
<1>7. Is(new) => T = S \cup {new} /\ new \notin S
  BY <1>6
<1>8. ~Is(new) => T = S
  BY <1>6
<1>9. Is(new) => Cardinality(T) = Cardinality(S) + 1
  BY <1>3, <1>7, FS_AddElement
<1> QED BY <1>1, <1>2, <1>4, <1>5, <1>8, <1>9

-----------------------------------------------------------------------------
(* A launch with cores of both kinds counts broadcasts and contributions,  *)
(* one with cores of a single kind a semaphore per flag; either way what   *)
(* the counters hold is what the operations executed add up to.            *)
Mixed == \E c, d \in Core : KindOf(c) # KindOf(d)

Scoped(d, k) == k.scope \in {Global, BlockOf(d)}

CountsAlone(k) ==
  \A c \in Core :
    sameKind[k][KindOf(c)] + FlagOps(Core, "wait", k) = FlagOps(Core, "set", k)

CountsMixed(k) ==
  /\ aicGen[k] = FlagOps(OfKind("AIC"), "set", k)
  /\ \A d \in OfKind("AIV") :
       /\ aivSeen[k][d] = FlagOps({d}, "wait", k)
       /\ Scoped(d, k) =>
            aivCount[k][d] + FlagOps(OfKind("AIC"), "wait", k) = FlagOps({d}, "set", k)

CountInv == \A k \in FlagKey : IF Mixed THEN CountsMixed(k) ELSE CountsAlone(k)

(* Which of the disciplines a core uses is the same for all of them.       *)
LEMMA KindFacts ==
  ASSUME IsLaunch(launch), NEW c \in Core
  PROVE  /\ HasOpposite(c) <=> Mixed
         /\ KindOf(c) \in {"AIC", "AIV"}
         /\ ~Mixed => \A d \in Core : KindOf(d) = KindOf(c)
BY CoreFacts DEF HasOpposite, Mixed, Kind

(* An operation that names no flag is counted with none.                   *)
LEMMA OtherOpsCountNoFlag ==
  ASSUME TypeOK, NEW c \in Core, launch' = launch, UNCHANGED flagVars, CountInv,
         \/ pc' = pc
         \/ Advance(c) /\ Op(c).op \notin {"set", "wait"}
  PROVE  CountInv'
<1>1. Core' = Core /\ Mixed' = Mixed
  BY DEF Core, Mixed, KindOf
<1>2. PICK C : C = OfKind("AIC") /\ C = OfKind("AIC")'
  BY <1>1 DEF OfKind, KindOf
<1>3. OfKind("AIV")' = OfKind("AIV")
  BY <1>1 DEF OfKind, KindOf
<1>4. ASSUME NEW D, NEW op \in {"set", "wait"}, NEW k \in FlagKey
      PROVE  FlagOps(D, op, k)' = FlagOps(D, op, k)
  <2>1. CASE pc' = pc
    BY <1>1, <2>1 DEF FlagOps, Executed, InstrAt, BlockOf
  <2>2. CASE Advance(c) /\ Op(c).op \notin {"set", "wait"}
    BY <2>2, FlagOpsStep
  <2> QED BY <2>1, <2>2
<1>5. ASSUME NEW k \in FlagKey, Mixed PROVE CountsMixed(k)'
  <2>1. CountsMixed(k)
    BY <1>5 DEF CountInv
  <2>2. FlagOps(OfKind("AIC"), "set", k)' = FlagOps(C, "set", k)
    <3>1. FlagOps(OfKind("AIC"), "set", k)' = FlagOps(C, "set", k)'
      BY <1>2 DEF FlagOps
    <3> QED BY <1>4, <3>1
  <2>3. FlagOps(OfKind("AIC"), "wait", k)' = FlagOps(C, "wait", k)
    <3>1. FlagOps(OfKind("AIC"), "wait", k)' = FlagOps(C, "wait", k)'
      BY <1>2 DEF FlagOps
    <3> QED BY <1>4, <3>1
  <2>4. \A d : Scoped(d, k)' = Scoped(d, k)
    BY DEF Scoped, BlockOf
  <2>5. \A d : FlagOps({d}, "wait", k)' = FlagOps({d}, "wait", k)
               /\ FlagOps({d}, "set", k)' = FlagOps({d}, "set", k)
    BY <1>4
  <2> QED BY <1>2, <1>3, <2>1, <2>2, <2>3, <2>4, <2>5 DEF CountsMixed, flagVars
<1>6. ASSUME NEW k \in FlagKey, ~Mixed PROVE CountsAlone(k)'
  <2>1. CountsAlone(k)
    BY <1>6 DEF CountInv
  <2>2. FlagOps(Core, "set", k)' = FlagOps(Core, "set", k)
    <3>1. PICK D : D = Core
      OBVIOUS
    <3>2. FlagOps(Core, "set", k)' = FlagOps(D, "set", k)'
      BY <1>1, <3>1 DEF FlagOps
    <3> QED BY <1>4, <3>1, <3>2
  <2>3. FlagOps(Core, "wait", k)' = FlagOps(Core, "wait", k)
    <3>1. PICK D : D = Core
      OBVIOUS
    <3>2. FlagOps(Core, "wait", k)' = FlagOps(D, "wait", k)'
      BY <1>1, <3>1 DEF FlagOps
    <3> QED BY <1>4, <3>1, <3>2
  <2>4. \A d : KindOf(d)' = KindOf(d)
    BY DEF KindOf
  <2> QED BY <1>1, <2>1, <2>2, <2>3, <2>4 DEF CountsAlone, flagVars
<1> QED BY <1>1, <1>5, <1>6 DEF CountInv

(* What an advance adds to the counts the invariant speaks of.             *)
Adds(c, op, k) == IF Op(c).op = op /\ FlagKeyOf(c) = k THEN 1 ELSE 0

(* Running an operation counts it, once and for its core only.             *)
LEMMA Tally ==
  ASSUME TypeOK, NEW c \in Core, Advance(c), launch' = launch,
         NEW op, NEW k \in FlagKey
  PROVE  /\ FlagOps(Core, op, k)' = FlagOps(Core, op, k) + Adds(c, op, k)
         /\ FlagOps(OfKind("AIC"), op, k)' =
              FlagOps(OfKind("AIC"), op, k) + (IF KindOf(c) = "AIC" THEN Adds(c, op, k) ELSE 0)
         /\ \A d \in Core : /\ FlagOps({d}, op, k)' =
                                 FlagOps({d}, op, k) + (IF d = c THEN Adds(c, op, k) ELSE 0)
                            /\ FlagOps({d}, op, k) \in Nat
         /\ FlagOps(Core, op, k) \in Nat /\ FlagOps(OfKind("AIC"), op, k) \in Nat
<1>1. PICK D, C : /\ D = Core /\ D = Core'
                  /\ C = OfKind("AIC") /\ C = OfKind("AIC")'
  BY DEF Core, OfKind, KindOf
<1>2. ASSUME NEW S
      PROVE  /\ FlagOps(S, op, k) \in Nat
             /\ FlagOps(S, op, k)' =
                  FlagOps(S, op, k) + (IF c \in S THEN Adds(c, op, k) ELSE 0)
  BY FlagOpsStep DEF Adds
<1>3. FlagOps(Core, op, k)' = FlagOps(D, op, k)'
  BY <1>1 DEF FlagOps
<1>4. FlagOps(OfKind("AIC"), op, k)' = FlagOps(C, op, k)'
  BY <1>1 DEF FlagOps
<1>5. c \in C <=> KindOf(c) = "AIC"
  BY <1>1 DEF OfKind
<1>6. FlagOps(Core, op, k)' = FlagOps(Core, op, k) + Adds(c, op, k)
  BY <1>1, <1>2, <1>3
<1>7. FlagOps(OfKind("AIC"), op, k)' =
        FlagOps(OfKind("AIC"), op, k) + (IF KindOf(c) = "AIC" THEN Adds(c, op, k) ELSE 0)
  BY <1>1, <1>2, <1>4, <1>5
<1>8. FlagOps(Core, op, k) \in Nat /\ FlagOps(OfKind("AIC"), op, k) \in Nat
  BY <1>2
<1>9. ASSUME NEW d \in Core
      PROVE  /\ FlagOps({d}, op, k)' =
                  FlagOps({d}, op, k) + (IF d = c THEN Adds(c, op, k) ELSE 0)
             /\ FlagOps({d}, op, k) \in Nat
  BY <1>2
<1> QED BY <1>6, <1>7, <1>8, <1>9

(* A raise is counted where the discipline of the launch keeps it.         *)
LEMMA SetCounts ==
  ASSUME TypeOK, CountInv, NEW c \in Core, SyncBlockSet(c)
  PROVE  CountInv'
<1>1. /\ launch' = launch /\ Advance(c) /\ At(c, "set") /\ Op(c).op = "set"
      /\ IsLaunch(launch) /\ pc[c] \in Nat \ {0} /\ aivSeen' = aivSeen
  BY DEF SyncBlockSet, Turn, TypeOK, At
<1>2. Core' = Core /\ Mixed' = Mixed /\ OfKind("AIV")' = OfKind("AIV")
  BY <1>1 DEF Core, Mixed, OfKind, KindOf
<1>3. PICK k0 \in FlagKey : k0 = FlagKeyOf(c)
  BY <1>1, FlagKeyFacts
<1>4. (HasOpposite(c) <=> Mixed) /\ KindOf(c) \in Kind /\ KindOf(c) \in {"AIC", "AIV"}
      /\ (~Mixed => \A d \in Core : KindOf(d) = KindOf(c))
  BY <1>1, KindFacts, CoreFacts
<1>5. ASSUME NEW k \in FlagKey PROVE Adds(c, "set", k) = (IF k = k0 THEN 1 ELSE 0)
                                     /\ Adds(c, "wait", k) = 0
  BY <1>1, <1>3 DEF Adds
<1>6. ASSUME NEW k \in FlagKey, Mixed PROVE CountsMixed(k)'
  <2>1. CountsMixed(k)
    BY <1>6 DEF CountInv
  <2>2. aicGen'[k] = aicGen[k] + (IF KindOf(c) = "AIC" /\ k = k0 THEN 1 ELSE 0)
    BY <1>1, <1>3, <1>4, <1>6 DEF SyncBlockSet, TypeOK
  <2>3. aicGen'[k] = FlagOps(OfKind("AIC"), "set", k)'
    BY <1>1, <1>5, <2>1, <2>2, Tally DEF CountsMixed
  <2>4. ASSUME NEW d \in OfKind("AIV")
        PROVE  /\ aivSeen'[k][d] = FlagOps({d}, "wait", k)'
               /\ Scoped(d, k) => aivCount'[k][d] + FlagOps(OfKind("AIC"), "wait", k)'
                                    = FlagOps({d}, "set", k)'
    <3>1. d \in Core /\ KindOf(d) = "AIV" /\ aivCount[k][d] \in Nat
      BY DEF OfKind, TypeOK
    <3>2. FlagOps({d}, "wait", k)' = FlagOps({d}, "wait", k)
      BY <1>1, <1>5, <3>1, Tally
    <3>3. FlagOps(OfKind("AIC"), "wait", k)' = FlagOps(OfKind("AIC"), "wait", k)
          /\ FlagOps(OfKind("AIC"), "wait", k) \in Nat
      BY <1>1, <1>5, Tally
    <3>4. FlagOps({d}, "set", k)' = FlagOps({d}, "set", k) + (IF d = c /\ k = k0 THEN 1 ELSE 0)
      BY <1>1, <1>5, <3>1, Tally
    <3>5. aivCount'[k][d] = aivCount[k][d] + (IF d = c /\ k = k0 THEN 1 ELSE 0)
      BY <1>1, <1>3, <1>4, <1>6, <3>1 DEF SyncBlockSet, TypeOK
    <3> QED BY <1>1, <2>1, <3>1, <3>2, <3>3, <3>4, <3>5 DEF CountsMixed
  <2>5. \A d : Scoped(d, k)' = Scoped(d, k)
    BY <1>1 DEF Scoped, BlockOf
  <2> QED BY <1>2, <2>3, <2>4, <2>5 DEF CountsMixed
<1>7. ASSUME NEW k \in FlagKey, ~Mixed PROVE CountsAlone(k)'
  <2> SUFFICES ASSUME NEW d \in Core
               PROVE  sameKind'[k][KindOf(d)] + FlagOps(Core, "wait", k)'
                        = FlagOps(Core, "set", k)'
    <3>1. \A d : KindOf(d)' = KindOf(d)
      BY <1>1 DEF KindOf
    <3> QED BY <1>2, <3>1 DEF CountsAlone
  <2>1. sameKind[k][KindOf(d)] + FlagOps(Core, "wait", k) = FlagOps(Core, "set", k)
        /\ KindOf(d) = KindOf(c) /\ sameKind[k][KindOf(d)] \in Nat
    BY <1>4, <1>7 DEF CountInv, CountsAlone, TypeOK
  <2>2. sameKind'[k][KindOf(d)] = sameKind[k][KindOf(d)] + (IF k = k0 THEN 1 ELSE 0)
    BY <1>1, <1>3, <1>4, <1>7, <2>1 DEF SyncBlockSet, TypeOK
  <2>3. /\ FlagOps(Core, "wait", k)' = FlagOps(Core, "wait", k)
        /\ FlagOps(Core, "set", k)' = FlagOps(Core, "set", k) + (IF k = k0 THEN 1 ELSE 0)
        /\ FlagOps(Core, "wait", k) \in Nat
    BY <1>1, <1>5, Tally
  <2> QED BY <2>1, <2>2, <2>3
<1> QED BY <1>2, <1>6, <1>7 DEF CountInv

(* So is what a wait takes.                                                *)
LEMMA WaitCounts ==
  ASSUME TypeOK, CountInv, NEW c \in Core, SyncBlockWait(c)
  PROVE  CountInv'
<1>1. /\ launch' = launch /\ Advance(c) /\ At(c, "wait") /\ Op(c).op = "wait"
      /\ IsLaunch(launch) /\ pc[c] \in Nat \ {0} /\ aicGen' = aicGen
  BY DEF SyncBlockWait, Turn, TypeOK, At
<1>2. Core' = Core /\ Mixed' = Mixed /\ OfKind("AIV")' = OfKind("AIV")
  BY <1>1 DEF Core, Mixed, OfKind, KindOf
<1>3. PICK k0 \in FlagKey : k0 = FlagKeyOf(c)
  BY <1>1, FlagKeyFacts
<1>4. (HasOpposite(c) <=> Mixed) /\ KindOf(c) \in Kind /\ KindOf(c) \in {"AIC", "AIV"}
      /\ (~Mixed => \A d \in Core : KindOf(d) = KindOf(c))
  BY <1>1, KindFacts, CoreFacts
<1>5. ASSUME NEW k \in FlagKey PROVE Adds(c, "wait", k) = (IF k = k0 THEN 1 ELSE 0)
                                     /\ Adds(c, "set", k) = 0
  BY <1>1, <1>3 DEF Adds
<1>6. ASSUME NEW k \in FlagKey, Mixed PROVE CountsMixed(k)'
  <2>1. CountsMixed(k)
    BY <1>6 DEF CountInv
  <2>2. aicGen'[k] = FlagOps(OfKind("AIC"), "set", k)'
    <3>1. FlagOps(OfKind("AIC"), "set", k)' = FlagOps(OfKind("AIC"), "set", k)
      BY <1>1, <1>5, Tally
    <3> QED BY <1>1, <2>1, <3>1 DEF CountsMixed
  <2>3. ASSUME NEW d \in OfKind("AIV")
        PROVE  /\ aivSeen'[k][d] = FlagOps({d}, "wait", k)'
               /\ Scoped(d, k) => aivCount'[k][d] + FlagOps(OfKind("AIC"), "wait", k)'
                                    = FlagOps({d}, "set", k)'
    <3>1. d \in Core /\ KindOf(d) = "AIV" /\ aivCount[k][d] \in Nat /\ aivSeen[k][d] \in Nat
      BY DEF OfKind, TypeOK
    <3>2. FlagOps({d}, "wait", k)' = FlagOps({d}, "wait", k) + (IF d = c /\ k = k0 THEN 1 ELSE 0)
      BY <1>1, <1>5, <3>1, Tally
    <3>3. FlagOps(OfKind("AIC"), "wait", k)' =
            FlagOps(OfKind("AIC"), "wait", k) + (IF KindOf(c) = "AIC" /\ k = k0 THEN 1 ELSE 0)
          /\ FlagOps(OfKind("AIC"), "wait", k) \in Nat
      BY <1>1, <1>5, Tally
    <3>4. FlagOps({d}, "set", k)' = FlagOps({d}, "set", k)
      BY <1>1, <1>5, <3>1, Tally
    <3>5. aivSeen'[k][d] = aivSeen[k][d] + (IF d = c /\ k = k0 THEN 1 ELSE 0)
      BY <1>1, <1>3, <1>4, <1>6, <3>1 DEF SyncBlockWait, TypeOK
    <3>6. ASSUME Scoped(d, k)
          PROVE  aivCount'[k][d] =
                   aivCount[k][d] - (IF KindOf(c) = "AIC" /\ k = k0 THEN 1 ELSE 0)
      <4>1. CASE KindOf(c) = "AIV"
        BY <1>1, <1>4, <1>6, <3>1, <4>1 DEF SyncBlockWait
      <4>2. CASE KindOf(c) = "AIC"
        <5>1. PICK C : C = Contributors(c, k0)
          OBVIOUS
        <5>2. aivCount' = [aivCount EXCEPT ![k0] =
                             [e \in Core |-> IF e \in C THEN @[e] - 1 ELSE @[e]]]
          BY <1>3, <1>4, <1>6, <4>2, <5>1 DEF SyncBlockWait
        <5>3. k = k0 => d \in C
          <6>1. k = k0 /\ k.scope # Global => k.scope = BlockOf(c)
            BY <1>3 DEF FlagKeyOf
          <6> QED BY <3>1, <3>6, <5>1, <6>1 DEF Contributors, Scoped
        <5> QED BY <3>1, <4>2, <5>2, <5>3 DEF TypeOK
      <4> QED BY <1>4, <4>1, <4>2
    <3> QED BY <1>1, <2>1, <3>1, <3>2, <3>3, <3>4, <3>5, <3>6 DEF CountsMixed
  <2>4. \A d : Scoped(d, k)' = Scoped(d, k)
    BY <1>1 DEF Scoped, BlockOf
  <2> QED BY <1>2, <2>2, <2>3, <2>4 DEF CountsMixed
<1>7. ASSUME NEW k \in FlagKey, ~Mixed PROVE CountsAlone(k)'
  <2> SUFFICES ASSUME NEW d \in Core
               PROVE  sameKind'[k][KindOf(d)] + FlagOps(Core, "wait", k)'
                        = FlagOps(Core, "set", k)'
    <3>1. \A d : KindOf(d)' = KindOf(d)
      BY <1>1 DEF KindOf
    <3> QED BY <1>2, <3>1 DEF CountsAlone
  <2>1. sameKind[k][KindOf(d)] + FlagOps(Core, "wait", k) = FlagOps(Core, "set", k)
        /\ KindOf(d) = KindOf(c) /\ sameKind[k][KindOf(d)] \in Nat
    BY <1>4, <1>7 DEF CountInv, CountsAlone, TypeOK
  <2>2. sameKind'[k][KindOf(d)] = sameKind[k][KindOf(d)] - (IF k = k0 THEN 1 ELSE 0)
    BY <1>1, <1>3, <1>4, <1>7, <2>1 DEF SyncBlockWait, TypeOK
  <2>3. /\ FlagOps(Core, "set", k)' = FlagOps(Core, "set", k)
        /\ FlagOps(Core, "wait", k)' = FlagOps(Core, "wait", k) + (IF k = k0 THEN 1 ELSE 0)
        /\ FlagOps(Core, "wait", k) \in Nat
    BY <1>1, <1>5, Tally
  <2> QED BY <2>1, <2>2, <2>3
<1> QED BY <1>2, <1>6, <1>7 DEF CountInv

(* Every other step of a core leaves the flags alone, and either advances  *)
(* over an operation on none or stays where it is.                         *)
LEMMA OtherSteps ==
  ASSUME NEW c \in Core, Step(c), ~SyncBlockSet(c), ~SyncBlockWait(c)
  PROVE  /\ launch' = launch /\ UNCHANGED flagVars
         /\ \/ pc' = pc
            \/ Advance(c) /\ Op(c).op \notin {"set", "wait"}
<1>1. launch' = launch /\ UNCHANGED flagVars
  BY DEF Step, SyncBlockWaitParks, SyncBlockReleased, SyncBlockParks, SyncBlockFires,
         SyncBlockLock, SyncBlockLockParks, ReleaseLock, Compute, WaitFlagParks, Fail,
         Return, Turn
<1>2. CASE SyncBlockWaitParks(c) \/ SyncBlockParks(c) \/ SyncBlockLockParks(c)
           \/ WaitFlagParks(c) \/ Fail(c) \/ Return(c)
  <2>1. pc' = pc
    BY <1>2 DEF SyncBlockWaitParks, SyncBlockParks, SyncBlockLockParks, WaitFlagParks, Fail,
                Return, Park
  <2> QED BY <1>1, <2>1
<1>3. CASE SyncBlockReleased(c) \/ SyncBlockFires(c) \/ SyncBlockLock(c) \/ ReleaseLock(c)
           \/ Compute(c)
  <2>1. Advance(c) /\ Op(c).op \in {"barrier", "lock", "unlock", "compute"}
    BY <1>3 DEF SyncBlockReleased, SyncBlockFires, SyncBlockLock, ReleaseLock, Compute, At
  <2> QED BY <1>1, <2>1
<1> QED BY <1>2, <1>3 DEF Step

(* The counting is inductive, given the types.                             *)
LEMMA NextCounts == TypeOK /\ CountInv /\ [Next]_vars => CountInv'
<1> SUFFICES ASSUME TypeOK, CountInv, [Next]_vars PROVE CountInv'
  OBVIOUS
<1>1. ASSUME NEW c \in Core, Step(c) PROVE CountInv'
  BY <1>1, SetCounts, WaitCounts, OtherSteps, OtherOpsCountNoFlag
<1>2. CASE Finish \/ Retry \/ Deadlock \/ UNCHANGED vars
  <2>1. launch' = launch /\ UNCHANGED flagVars /\ pc' = pc /\ 0 \in Core
    BY <1>2, CoreFacts DEF Finish, Retry, Deadlock, vars, TypeOK
  <2> QED BY <2>1, OtherOpsCountNoFlag
<1> QED BY <1>1, <1>2 DEF Next

(* At the start nothing has been executed and every counter is zero.       *)
LEMMA InitCounts == Init => CountInv
<1> SUFFICES ASSUME Init, NEW k \in FlagKey
             PROVE  IF Mixed THEN CountsMixed(k) ELSE CountsAlone(k)
  BY DEF CountInv
<1>1. Executed = {}
  <2>1. \A c \in Core : {c} \X (1 .. (pc[c] - 1)) = {}
    BY DEF Init
  <2> QED BY <2>1 DEF Executed
<1>2. \A D, op : FlagOps(D, op, k) = 0
  BY <1>1, FS_EmptySet DEF FlagOps
<1>3. \A c \in Core : KindOf(c) \in Kind
  BY InitTypes, CoreFacts DEF TypeOK
<1> QED BY <1>2, <1>3 DEF Init, CountsMixed, CountsAlone, OfKind

(* What the counters say a wait may take is what the program has earned.   *)
LEMMA ReadyIsEarned ==
  ASSUME TypeOK, CountInv, NEW c \in Core, At(c, "wait"), Earned(c, FlagKeyOf(c))
  PROVE  FlagReady(c, FlagKeyOf(c))
<1>1. IsLaunch(launch) /\ pc[c] \in Nat \ {0}
  BY DEF TypeOK
<1>2. PICK k \in FlagKey : k = FlagKeyOf(c)
  BY <1>1, FlagKeyFacts
<1>3. (HasOpposite(c) <=> Mixed) /\ KindOf(c) \in Kind /\ KindOf(c) \in {"AIC", "AIV"}
  BY <1>1, KindFacts, CoreFacts
<1>4. ASSUME NEW D, NEW op PROVE FlagOps(D, op, k) \in Nat
  <2> DEFINE S == {x \in Executed :
                     /\ x[1] \in D /\ InstrAt(x).op = op /\ InstrAt(x).flag = k.flag
                     /\ k.scope = IF InstrAt(x).inter THEN Global ELSE BlockOf(x[1])}
  <2>1. IsFiniteSet(S)
    BY FiniteExecuted, FS_Subset
  <2>2. FlagOps(D, op, k) = Cardinality(S)
    BY DEF FlagOps
  <2> QED BY <2>1, <2>2, FS_CardinalityType
<1>5. CASE ~Mixed
  <2>1. sameKind[k][KindOf(c)] + FlagOps(Core, "wait", k) = FlagOps(Core, "set", k)
        /\ sameKind[k][KindOf(c)] \in Nat
    BY <1>3, <1>5 DEF CountInv, CountsAlone, TypeOK
  <2>2. FlagOps(Core, "set", k) > FlagOps(Core, "wait", k)
    BY <1>2, <1>3, <1>5 DEF Earned
  <2>3. sameKind[k][KindOf(c)] > 0
    BY <1>4, <2>1, <2>2
  <2> QED BY <1>2, <1>3, <1>5, <2>3 DEF FlagReady
<1>6. CASE Mixed
  <2>1. CountsMixed(k)
    BY <1>6 DEF CountInv
  <2>2. CASE KindOf(c) = "AIV"
    <3>1. c \in OfKind("AIV")
      BY <2>2 DEF OfKind
    <3>2. FlagOps(OfKind("AIC"), "set", k) > FlagOps({c}, "wait", k)
      BY <1>2, <1>3, <1>6, <2>2 DEF Earned
    <3>3. aicGen[k] > aivSeen[k][c] /\ aicGen[k] \in Nat /\ aivSeen[k][c] \in Nat
      BY <2>1, <3>1, <3>2 DEF CountsMixed, TypeOK
    <3>4. aivSeen[k][c] < aicGen[k]
      BY <3>3
    <3> QED BY <1>2, <1>3, <1>6, <2>2, <3>4 DEF FlagReady
  <2>3. CASE KindOf(c) = "AIC"
    <3>1. ASSUME NEW d \in Contributors(c, k) PROVE aivCount[k][d] > 0
      <4>1. d \in OfKind("AIV") /\ d \in Core /\ Scoped(d, k)
        <5>1. k.scope # Global => k.scope = BlockOf(c)
          BY <1>2 DEF FlagKeyOf
        <5> QED BY <5>1 DEF Contributors, OfKind, Scoped
      <4>2. FlagOps({d}, "set", k) > FlagOps(OfKind("AIC"), "wait", k)
        BY <1>2, <1>3, <1>6, <2>3 DEF Earned
      <4>3. aivCount[k][d] + FlagOps(OfKind("AIC"), "wait", k) = FlagOps({d}, "set", k)
            /\ aivCount[k][d] \in Nat
        BY <2>1, <4>1 DEF CountsMixed, TypeOK
      <4> QED BY <1>4, <4>2, <4>3
    <3> QED BY <1>2, <1>3, <1>6, <2>3, <3>1 DEF FlagReady
  <2> QED BY <1>3, <2>2, <2>3
<1> QED BY <1>5, <1>6

-----------------------------------------------------------------------------
(* A lock variable holds the number of unlocks of it so far, going round   *)
(* the blocks.                                                             *)
LockInv == \A l \in Lock : lockVar[l] = LockOps(Core, "unlock", l) % launch.blockDim

(* What an advance adds to the unlocks of a variable.                      *)
LEMMA LockTally ==
  ASSUME TypeOK, NEW c \in Core, Advance(c), launch' = launch, NEW l
  PROVE  /\ LockOps(Core, "unlock", l) \in Nat
         /\ Op(c).op = "unlock" /\ Op(c).lock = l =>
              LockOps(Core, "unlock", l)' = LockOps(Core, "unlock", l) + 1
         /\ ~(Op(c).op = "unlock" /\ Op(c).lock = l) =>
              LockOps(Core, "unlock", l)' = LockOps(Core, "unlock", l)
<1>1. PICK D : D = Core /\ D = Core'
  BY DEF Core
<1>2. LockOps(Core, "unlock", l)' = LockOps(D, "unlock", l)'
  BY <1>1 DEF LockOps
<1> QED BY <1>1, <1>2, LockOpsStep

(* Only a release moves a lock variable on, by one unlock.                 *)
LEMMA NextLocks == TypeOK /\ LockInv /\ [Next]_vars => LockInv'
<1> SUFFICES ASSUME TypeOK, LockInv, [Next]_vars, NEW l \in Lock
             PROVE  lockVar'[l] = LockOps(Core, "unlock", l)' % launch'.blockDim
  BY DEF LockInv
<1>1. launch' = launch
  BY NextKeepsLaunch
<1>2. PICK n \in Nat \ {0} : n = launch.blockDim
  <2>1. MaxBlocks \in Nat
    BY LaunchAssumption
  <2> QED BY <2>1 DEF TypeOK, IsLaunch
<1>3. lockVar[l] = LockOps(Core, "unlock", l) % n
  BY <1>2 DEF LockInv
<1>4. ASSUME UNCHANGED <<pc, lockVar>>
      PROVE  lockVar'[l] = LockOps(Core, "unlock", l)' % launch'.blockDim
  BY <1>1, <1>2, <1>3, <1>4 DEF LockOps, Executed, InstrAt, Core
<1>5. ASSUME NEW c \in Core, Advance(c), UNCHANGED lockVar, Op(c).op # "unlock"
      PROVE  lockVar'[l] = LockOps(Core, "unlock", l)' % launch'.blockDim
  BY <1>1, <1>2, <1>3, <1>5, LockTally
<1>6. ASSUME NEW c \in Core, ReleaseLock(c)
      PROVE  lockVar'[l] = LockOps(Core, "unlock", l)' % launch'.blockDim
  <2>1. /\ Advance(c) /\ Op(c).op = "unlock"
        /\ lockVar' = [lockVar EXCEPT ![Op(c).lock] = IF @ + 1 >= n THEN 0 ELSE @ + 1]
    BY <1>2, <1>6 DEF ReleaseLock, At
  <2>2. CASE Op(c).lock # l
    <3>1. lockVar'[l] = lockVar[l]
      BY <2>1, <2>2 DEF TypeOK
    <3> QED BY <1>1, <1>2, <1>3, <2>1, <2>2, <3>1, LockTally
  <2>3. CASE Op(c).lock = l
    <3>1. lockVar'[l] = IF lockVar[l] + 1 >= n THEN 0 ELSE lockVar[l] + 1
      BY <2>1, <2>3 DEF TypeOK
    <3>2. PICK x \in Nat : x = LockOps(Core, "unlock", l)
                           /\ LockOps(Core, "unlock", l)' = x + 1
      BY <1>1, <2>1, <2>3, LockTally
    <3>3. (x + 1) % n = IF (x % n) + 1 >= n THEN 0 ELSE (x % n) + 1
      BY NextRemainder
    <3> QED BY <1>1, <1>2, <1>3, <3>1, <3>2, <3>3
  <2> QED BY <2>2, <2>3
<1>7. ASSUME NEW c \in Core, Step(c), ~ReleaseLock(c)
      PROVE  lockVar'[l] = LockOps(Core, "unlock", l)' % launch'.blockDim
  <2>1. UNCHANGED lockVar
    BY <1>7
       DEF Step, SyncBlockSet, SyncBlockWait, SyncBlockWaitParks, SyncBlockReleased,
           SyncBlockParks, SyncBlockFires, SyncBlockLock, SyncBlockLockParks, Compute,
           WaitFlagParks, Fail, Return
  <2>2. pc' = pc \/ (Advance(c) /\ Op(c).op # "unlock")
    <3>1. CASE SyncBlockSet(c) \/ SyncBlockWait(c)
      BY <3>1 DEF SyncBlockSet, SyncBlockWait, At
    <3>2. CASE SyncBlockReleased(c) \/ SyncBlockFires(c) \/ SyncBlockLock(c) \/ Compute(c)
      BY <3>2 DEF SyncBlockReleased, SyncBlockFires, SyncBlockLock, Compute, At
    <3>3. CASE SyncBlockWaitParks(c) \/ SyncBlockParks(c) \/ SyncBlockLockParks(c)
               \/ WaitFlagParks(c) \/ Fail(c) \/ Return(c)
      BY <3>3 DEF SyncBlockWaitParks, SyncBlockParks, SyncBlockLockParks, WaitFlagParks,
                  Fail, Return, Park
    <3> QED BY <1>7, <3>1, <3>2, <3>3 DEF Step
  <2> QED BY <1>4, <1>5, <2>1, <2>2
<1>8. CASE Finish \/ Retry \/ Deadlock \/ UNCHANGED vars
  BY <1>4, <1>8 DEF Finish, Retry, Deadlock, vars
<1> QED BY <1>6, <1>7, <1>8 DEF Next

(* At the start nothing has been unlocked.                                 *)
LEMMA InitLocks == Init => LockInv
<1> SUFFICES ASSUME Init, NEW l \in Lock
             PROVE  lockVar[l] = LockOps(Core, "unlock", l) % launch.blockDim
  BY DEF LockInv
<1>1. PICK n \in Nat \ {0} : n = launch.blockDim
  <2>1. MaxBlocks \in Nat
    BY LaunchAssumption
  <2> QED BY <2>1, InitTypes DEF TypeOK, IsLaunch
<1>2. Executed = {}
  <2>1. \A c \in Core : {c} \X (1 .. (pc[c] - 1)) = {}
    BY DEF Init
  <2> QED BY <2>1 DEF Executed
<1>3. LockOps(Core, "unlock", l) = 0
  BY <1>2, FS_EmptySet DEF LockOps
<1>4. 0 % n = 0
  BY Remainder
<1> QED BY <1>1, <1>3, <1>4 DEF Init

-----------------------------------------------------------------------------
(* A core waiting at a barrier has arrived, and some participant has not.  *)
LEMMA SomebodyIsMissing ==
  ASSUME TypeOK, ParkInv, BarrierInv, NEW c \in Core, status[c] = "BlockedOnBarrier"
  PROVE  LET k == BarrierKeyOf(c)
         IN  \E d \in Participants(BlockOf(c), k.mode) : arrivals[d][k] < arrivals[c][k]
<1>1. /\ IsLaunch(launch) /\ pc[c] \in Nat \ {0} /\ At(c, "barrier") /\ NoStrangers
  BY DEF TypeOK, ParkInv, ParkedCannotGo, BarrierInv
<1>2. PICK k \in BarrierKey : k = BarrierKeyOf(c)
  BY <1>1, BarrierKeyFacts
<1>3. c \in Members(k) /\ Participants(BlockOf(c), k.mode) = Members(k)
  BY <1>1, <1>2, MembersOfKey
<1>4. c \in arrived[k] /\ Cardinality(arrived[k]) < expected[k]
  BY <1>2 DEF ParkInv, ParkedCannotGo
<1>5. SiteInv(k)
  BY DEF BarrierInv
<1>6. IsFiniteSet(Members(k)) /\ Cardinality(Members(k)) \in Nat /\ Members(k) \subseteq Core
  BY <1>1, FiniteMembers
<1>7. arrived[k] # Members(k)
  <2>1. Cardinality(arrived[k]) \in Nat
    BY <1>5, <1>6, FS_Subset, FS_CardinalityType DEF SiteInv
  <2>2. expected[k] = 0 \/ expected[k] = Cardinality(Members(k))
    BY <1>5 DEF SiteInv
  <2> QED BY <1>4, <1>6, <2>1, <2>2
<1>8. PICK d \in Members(k) : d \notin arrived[k]
  BY <1>5, <1>7 DEF SiteInv
<1>9. arrivals[d][k] = generation[k] /\ arrivals[c][k] = generation[k] + 1
      /\ generation[k] \in Nat
  BY <1>3, <1>4, <1>5, <1>8 DEF SiteInv, TypeOK
<1>10. arrivals[d][k] < arrivals[c][k]
  BY <1>9
<1> QED BY <1>2, <1>3, <1>8, <1>10

(* A deadlock is reported only where the operations executed leave every   *)
(* parked core without what it waits for: no flag counter, barrier site or *)
(* lock variable ever disagrees with what the program has done.            *)
THEOREM DeadlocksAreGenuine == Spec /\ NoStrangers => []GenuineDeadlock
<1>1. TypeOK /\ ParkInv /\ BarrierInv /\ CountInv /\ LockInv => GenuineDeadlock
  <2> SUFFICES ASSUME TypeOK, ParkInv, BarrierInv, CountInv, LockInv, NEW c \in Core
               PROVE  /\ status[c] = "BlockedOnFlag" /\ At(c, "wait") =>
                           ~Earned(c, FlagKeyOf(c))
                      /\ status[c] = "BlockedOnBarrier" =>
                           LET k == BarrierKeyOf(c)
                           IN  \E d \in Participants(BlockOf(c), k.mode) :
                                 arrivals[d][k] < arrivals[c][k]
                      /\ status[c] = "BlockedOnLock" =>
                           LockOps(Core, "unlock", Op(c).lock) % launch.blockDim # BlockOf(c)
    BY DEF GenuineDeadlock
  <2>1. ParkedCannotGo(c) /\ IsLaunch(launch) /\ pc[c] \in Nat \ {0}
    BY DEF ParkInv, TypeOK
  <2>2. ASSUME status[c] = "BlockedOnFlag", At(c, "wait") PROVE ~Earned(c, FlagKeyOf(c))
    BY <2>1, <2>2, ReadyIsEarned DEF ParkedCannotGo
  <2>3. ASSUME status[c] = "BlockedOnLock"
        PROVE  LockOps(Core, "unlock", Op(c).lock) % launch.blockDim # BlockOf(c)
    <3>1. At(c, "lock") /\ lockVar[Op(c).lock] # BlockOf(c)
      BY <2>1, <2>3 DEF ParkedCannotGo
    <3>2. Op(c).lock \in Lock
      BY <2>1, <3>1, LockFacts
    <3> QED BY <3>1, <3>2 DEF LockInv
  <2> QED BY <2>2, <2>3, SomebodyIsMissing
<1> QED
  BY <1>1, InitTypes, NextKeepsTypes, InitParked, NextKeepsParked, InitSites,
     NextKeepsSites, InitCounts, NextCounts, InitLocks, NextLocks, PTL DEF Spec

-----------------------------------------------------------------------------
(***************************************************************************)
(* The diagnosis of a deadlock.  detectDeadlock reads the sets of arrivals *)
(* and not the cores: the two agree because a core stays at the barrier it *)
(* has arrived at until that fires, and a core standing at a barrier that  *)
(* is not runnable is parked there.  Who is missing then follows from the  *)
(* counting of the sites.                                                  *)
(***************************************************************************)
ThereInv ==
  \A c \in Core : \A k \in BarrierKey : c \in arrived[k] =>
    At(c, "barrier") /\ BarrierKeyOf(c) = k /\ ~ Due(c, k)

AwayInv == \A c \in Core : status[c] \in {"Done", "Failed"} => ~At(c, "barrier")

(* A core leaves a barrier it has arrived at by firing it, or once it has  *)
(* been fired.                                                             *)
LEMMA NextThere ==
  ASSUME TypeOK, ThereInv, [Next]_vars
  PROVE  ThereInv'
<1>1. launch' = launch /\ Core' = Core
  BY NextKeepsLaunch
<1>2. ASSUME NEW c \in Core, NEW k \in BarrierKey, c \in arrived[k], pc'[c] = pc[c],
             passed'[c][k] = passed[c][k], generation'[k] = generation[k]
      PROVE  (At(c, "barrier") /\ BarrierKeyOf(c) = k /\ ~ Due(c, k))'
  <2>1. At(c, "barrier") /\ BarrierKeyOf(c) = k /\ ~ Due(c, k)
    BY <1>2 DEF ThereInv
  <2>2. At(c, "barrier")' /\ BarrierKeyOf(c)' = k
    BY <1>1, <1>2, <2>1, SameOperation
  <2>3. ~ Due(c, k)'
    BY <1>2, <2>1 DEF Due
  <2> QED BY <2>2, <2>3
<1>3. ASSUME NEW d \in Core, Step(d), ~ (SyncBlockReleased(d) \/ SyncBlockParks(d) \/ SyncBlockFires(d))
      PROVE  ThereInv'
  <2>1. UNCHANGED << arrived, passed, generation >>
    BY <1>3, SitesApart DEF barrierVars
  <2>2. ~ At(d, "barrier") /\ (Advance(d) \/ UNCHANGED pc)
    BY <1>3 DEF Step, SyncBlockSet, SyncBlockWait, SyncBlockWaitParks, SyncBlockLock,
           SyncBlockLockParks, ReleaseLock, Compute, WaitFlagParks, Fail, Return, At, Park
  <2>3. \A c \in Core : c # d => pc'[c] = pc[c]
    BY <2>2 DEF Advance, TypeOK
  <2>4. \A c \in Core : \A k \in BarrierKey : c \in arrived[k] => c # d
    BY <2>2 DEF ThereInv
  <2> QED BY <1>1, <1>2, <2>1, <2>3, <2>4 DEF ThereInv
<1>4. ASSUME NEW d \in Core, SyncBlockReleased(d) PROVE ThereInv'
  <2>1. PICK j \in BarrierKey : j = BarrierKeyOf(d) /\ Due(d, j)
    BY <1>4, BarrierKeyFacts DEF SyncBlockReleased, TypeOK
  <2>2. /\ UNCHANGED << arrived, generation >> /\ passed' = [passed EXCEPT ![d][j] = @ + 1]
        /\ \A c \in Core : c # d => pc'[c] = pc[c]
    BY <1>4, <2>1 DEF SyncBlockReleased, Advance, TypeOK
  <2>3. \A c \in Core : \A k \in BarrierKey : c \in arrived[k] => c # d
    BY <2>1 DEF ThereInv
  <2>4. \A c \in Core : c # d => passed'[c] = passed[c]
    BY <2>2 DEF TypeOK
  <2> QED BY <1>1, <1>2, <2>2, <2>3, <2>4 DEF ThereInv
<1>5. ASSUME NEW d \in Core, SyncBlockParks(d) PROVE ThereInv'
  <2>1. PICK j \in BarrierKey : j = BarrierKeyOf(d) /\ ~ Due(d, j) /\ At(d, "barrier")
    BY <1>5, BarrierKeyFacts DEF SyncBlockParks, TypeOK
  <2>2. /\ UNCHANGED << pc, passed, generation >>
        /\ arrived' = [arrived EXCEPT ![j] = arrived[j] \cup {d}]
    BY <1>5, <2>1 DEF SyncBlockParks, Park
  <2>3. (At(d, "barrier") /\ BarrierKeyOf(d) = j /\ ~ Due(d, j))'
    <3>1. At(d, "barrier")' /\ BarrierKeyOf(d)' = j
      BY <1>1, <2>1, <2>2, SameOperation
    <3> QED BY <2>1, <2>2, <3>1 DEF Due
  <2>4. ASSUME NEW c \in Core, NEW k \in BarrierKey, c \in arrived'[k]
        PROVE  c \in arrived[k] \/ (c = d /\ k = j)
    BY <2>2, <2>4 DEF TypeOK
  <2> QED BY <1>1, <1>2, <2>2, <2>3, <2>4 DEF ThereInv
<1>6. ASSUME NEW d \in Core, SyncBlockFires(d) PROVE ThereInv'
  <2>1. PICK j \in BarrierKey : j = BarrierKeyOf(d)
    BY <1>6, BarrierKeyFacts DEF SyncBlockFires, TypeOK
  <2>2. /\ arrived' = [arrived EXCEPT ![j] = {}]
        /\ generation' = [generation EXCEPT ![j] = @ + 1]
        /\ passed' = [passed EXCEPT ![d][j] = @ + 1]
        /\ \A c \in Core : c # d => pc'[c] = pc[c]
    BY <1>6, <2>1 DEF SyncBlockFires, Advance, TypeOK
  <2>3. ASSUME NEW c \in Core, NEW k \in BarrierKey, c \in arrived'[k]
        PROVE  c \in arrived[k] /\ k # j
    BY <2>2, <2>3 DEF TypeOK
  <2>4. \A c \in Core : \A k \in BarrierKey : c \in arrived[k] /\ k # j => c # d
    BY <2>1 DEF ThereInv
  <2>5. /\ \A c \in Core : c # d => passed'[c] = passed[c]
        /\ \A k \in BarrierKey : k # j => generation'[k] = generation[k]
    BY <2>2 DEF TypeOK
  <2> QED BY <1>1, <1>2, <2>2, <2>3, <2>4, <2>5 DEF ThereInv
<1>7. CASE Finish \/ Retry \/ Deadlock \/ UNCHANGED vars
  <2>1. UNCHANGED << pc, arrived, passed, generation >>
    BY <1>7 DEF Finish, Retry, Deadlock, vars, barrierVars
  <2> QED BY <1>1, <1>2, <2>1 DEF ThereInv
<1> QED BY <1>3, <1>4, <1>5, <1>6, <1>7 DEF Next

(* Whoever is at a barrier is not through with its program, and a core     *)
(* that fails does so at another operation.                                *)
LEMMA NextAway ==
  ASSUME TypeOK, AwayInv, [Next]_vars
  PROVE  AwayInv'
<1>1. launch' = launch /\ Core' = Core
  BY NextKeepsLaunch
<1>2. ASSUME NEW c \in Core, pc'[c] = pc[c], status'[c] = status[c]
      PROVE  (status[c] \in {"Done", "Failed"} => ~At(c, "barrier"))'
  <2>1. At(c, "barrier")' = At(c, "barrier")
    BY <1>1, <1>2, SameOperation
  <2> QED BY <1>2, <2>1 DEF AwayInv
<1>3. ASSUME NEW d \in Core, Step(d), NEW c \in Core
      PROVE  (status[c] \in {"Done", "Failed"} => ~At(c, "barrier"))'
  <2>1. status[d] = "Runnable"
    BY <1>3 DEF Step, SyncBlockSet, SyncBlockWait, SyncBlockWaitParks, SyncBlockReleased,
           SyncBlockParks, SyncBlockFires, SyncBlockLock, SyncBlockLockParks, ReleaseLock,
           Compute, WaitFlagParks, Fail, Return, Turn, CanPick
  <2>2. CASE Fail(d) \/ Return(d)
    <3>1. UNCHANGED pc /\ ~At(d, "barrier")
          /\ status' \in {[status EXCEPT ![d] = "Failed"], [status EXCEPT ![d] = "Done"]}
      BY <2>2 DEF Fail, Return, At
    <3>2. CASE c = d
      <4>1. At(c, "barrier")' = At(c, "barrier")
        BY <1>1, <3>1, SameOperation
      <4> QED BY <3>1, <3>2, <4>1
    <3>3. CASE c # d
      BY <1>2, <3>1, <3>3 DEF TypeOK
    <3> QED BY <3>2, <3>3
  <2>3. CASE ~(Fail(d) \/ Return(d))
    <3>1. /\ status'[c] \in {status[c], "Runnable", "BlockedOnFlag", "BlockedOnBarrier",
                             "BlockedOnLock"}
          /\ c # d => pc'[c] = pc[c]
      BY <1>3, <2>3 DEF Step, SyncBlockSet, SyncBlockWait, SyncBlockWaitParks,
             SyncBlockReleased, SyncBlockParks, SyncBlockFires, SyncBlockLock,
             SyncBlockLockParks, ReleaseLock, Compute, WaitFlagParks, Advance, Park, Stay, Wake,
             TypeOK
    <3>2. CASE c = d
      BY <2>1, <3>1, <3>2
    <3>3. CASE c # d
      BY <1>2, <3>1, <3>3
    <3> QED BY <3>2, <3>3
  <2> QED BY <2>2, <2>3
<1>4. ASSUME Retry, NEW c \in Core
      PROVE  (status[c] \in {"Done", "Failed"} => ~At(c, "barrier"))'
  <2>1. pc' = pc /\ status'[c] \in {status[c], "Runnable"}
    BY <1>4 DEF Retry, Wake
  <2> QED BY <1>2, <2>1
<1>5. ASSUME Finish \/ Deadlock \/ UNCHANGED vars, NEW c \in Core
      PROVE  (status[c] \in {"Done", "Failed"} => ~At(c, "barrier"))'
  <2>1. pc' = pc /\ status' = status
    BY <1>5 DEF Finish, Deadlock, vars
  <2> QED BY <1>2, <2>1
<1> QED BY <1>1, <1>3, <1>4, <1>5 DEF Next, AwayInv

(* Before the first turn nobody has arrived or ended.                      *)
LEMMA InitThere == Init => ThereInv /\ AwayInv
BY DEF Init, ThereInv, AwayInv

(* When nobody can run, those who have arrived at a site are those parked  *)
(* there.                                                                  *)
LEMMA ArrivedIsParked ==
  ASSUME TypeOK, ParkInv, ThereInv, AwayInv, NEW k \in BarrierKey, NEW c \in Core,
         status[c] # "Runnable"
  PROVE  c \in arrived[k] <=> status[c] = "BlockedOnBarrier" /\ BarrierKeyOf(c) = k
<1>1. ASSUME c \in arrived[k] PROVE status[c] = "BlockedOnBarrier" /\ BarrierKeyOf(c) = k
  <2>1. At(c, "barrier") /\ BarrierKeyOf(c) = k
    BY <1>1 DEF ThereInv
  <2>2. status[c] \in Statuses /\ status[c] \notin {"Done", "Failed"}
    BY <2>1 DEF TypeOK, AwayInv
  <2>3. status[c] \notin {"BlockedOnFlag", "BlockedOnLock"}
    BY <2>1 DEF ParkInv, ParkedWhere, ParkedCannotGo, At
  <2> QED BY <2>1, <2>2, <2>3 DEF Statuses
<1>2. ASSUME status[c] = "BlockedOnBarrier", BarrierKeyOf(c) = k PROVE c \in arrived[k]
  BY <1>2 DEF ParkInv, ParkedCannotGo
<1> QED BY <1>1, <1>2

(* What DiagnosisFits says of a report.                                    *)
Fits(R) ==
  /\ {r.key : r \in R} = {BarrierKeyOf(c) : c \in {d \in Core : status[d] = "BlockedOnBarrier"}}
  /\ \A r \in R : r.key.block \in {Global, BlockOf(0)} =>
       /\ Blamed(r) # {}
       /\ \A d \in Blamed(r) : \A c \in arrived[r.key] :
            arrivals[d][r.key] < arrivals[c][r.key]

(* The report detectDeadlock makes.                                        *)
Diagnosis ==
  {[key |-> k, participants |-> Participants(BlockOf(0), k.mode)] :
     k \in {b \in BarrierKey : arrived[b] # {} /\ Cardinality(arrived[b]) < expected[b]}}

LEMMA DiagnosisIsRight ==
  ASSUME TypeOK, ParkInv, BarrierInv, ThereInv, AwayInv,
         \A c \in Core : status[c] # "Runnable"
  PROVE  Fits(Diagnosis)
<1>1. IsLaunch(launch)
  BY DEF TypeOK
<1> DEFINE Named == {b \in BarrierKey : arrived[b] # {} /\ Cardinality(arrived[b]) < expected[b]}
           Waiting == {d \in Core : status[d] = "BlockedOnBarrier"}
<1>2. ASSUME NEW k \in Named PROVE \E c \in Waiting : k = BarrierKeyOf(c)
  <2>1. PICK c \in Core : c \in arrived[k]
    BY DEF TypeOK
  <2> QED BY <2>1, ArrivedIsParked
<1>3. ASSUME NEW c \in Waiting PROVE BarrierKeyOf(c) \in Named
  <2>1. At(c, "barrier") /\ pc[c] \in Nat \ {0}
    BY DEF ParkInv, ParkedCannotGo, TypeOK
  <2>2. BarrierKeyOf(c) \in BarrierKey
    BY <1>1, <2>1, BarrierKeyFacts
  <2>3. c \in arrived[BarrierKeyOf(c)]
        /\ Cardinality(arrived[BarrierKeyOf(c)]) < expected[BarrierKeyOf(c)]
    BY DEF ParkInv, ParkedCannotGo
  <2> QED BY <2>2, <2>3
<1>4. {r.key : r \in Diagnosis} = Named
  <2>1. ASSUME NEW r \in Diagnosis PROVE r.key \in Named
    BY DEF Diagnosis
  <2>2. ASSUME NEW k \in Named PROVE \E r \in Diagnosis : r.key = k
    <3>1. [key |-> k, participants |-> Participants(BlockOf(0), k.mode)] \in Diagnosis
      BY DEF Diagnosis
    <3> QED BY <3>1
  <2> HIDE DEF Named
  <2> QED BY <2>1, <2>2
<1>5. Named = {BarrierKeyOf(c) : c \in Waiting}
  <2> HIDE DEF Named, Waiting
  <2> QED BY <1>2, <1>3
<1>6. ASSUME NEW k \in Named, k.block \in {Global, BlockOf(0)},
             NEW P, P = Participants(BlockOf(0), k.mode)
      PROVE  /\ P \ arrived[k] # {}
             /\ \A d \in P \ arrived[k] : \A c \in arrived[k] : arrivals[d][k] < arrivals[c][k]
  <2>1. SiteInv(k) /\ IsFiniteSet(Members(k)) /\ Cardinality(Members(k)) \in Nat
        /\ Members(k) \subseteq Core
    BY <1>1, FiniteMembers DEF BarrierInv
  <2>2. P = Members(k)
    <3>1. k.mode = "ALL_SUB_VECTOR" => k.block \in Block
      BY DEF BarrierKey
    <3>2. Global \notin Block
      BY LaunchAssumption DEF Global, Block
    <3>3. k.mode = "ALL_SUB_VECTOR" => k.block = BlockOf(0)
      BY <1>6, <3>1, <3>2
    <3> QED BY <1>6, <3>3 DEF Members, Participants
  <2>3. arrived[k] # Members(k)
    BY <2>1 DEF SiteInv
  <2>4. P \ arrived[k] # {}
    BY <2>1, <2>2, <2>3 DEF SiteInv
  <2>5. ASSUME NEW d \in P \ arrived[k], NEW c \in arrived[k]
        PROVE  arrivals[d][k] < arrivals[c][k]
    <3>1. arrivals[d][k] = generation[k] /\ arrivals[c][k] = generation[k] + 1
      BY <2>1, <2>2 DEF SiteInv
    <3>2. generation[k] \in Nat
      BY DEF TypeOK
    <3> QED BY <3>1, <3>2
  <2> QED BY <2>4, <2>5
<1>7. ASSUME NEW r \in Diagnosis, r.key.block \in {Global, BlockOf(0)}
      PROVE  /\ Blamed(r) # {}
             /\ \A d \in Blamed(r) : \A c \in arrived[r.key] :
                  arrivals[d][r.key] < arrivals[c][r.key]
  <2>1. r.key \in Named /\ r.participants = Participants(BlockOf(0), r.key.mode)
    BY DEF Diagnosis
  <2> QED BY <1>6, <1>7, <2>1 DEF Blamed
<1> QED BY <1>4, <1>5, <1>7 DEF Fits

(* Only detectDeadlock gives the verdict, and nothing happens after it.    *)
LEMMA NextDiagnosis ==
  ASSUME TypeOK, ParkInv, BarrierInv, ThereInv, AwayInv, DiagnosisFits, [Next]_vars
  PROVE  DiagnosisFits'
<1>1. launch' = launch /\ Core' = Core
  BY NextKeepsLaunch
<1>2. ASSUME NEW R, Fits(R), UNCHANGED << pc, status, arrived, arrivals >>, report' = R
      PROVE  DiagnosisFits'
  <2>1. \A c \in Core : BarrierKeyOf(c)' = BarrierKeyOf(c)
    BY <1>1, <1>2, SameOperation
  <2>2. BlockOf(0)' = BlockOf(0)
    BY <1>1 DEF BlockOf
  <2>3. \A r : Blamed(r)' = Blamed(r)
    BY <1>2 DEF Blamed
  <2> QED BY <1>1, <1>2, <2>1, <2>2, <2>3 DEF Fits, DiagnosisFits
<1>3. ASSUME NEW c \in Core, Step(c) PROVE DiagnosisFits'
  <2>1. outcome' # "deadlock"
    BY <1>3 DEF Step, SyncBlockSet, SyncBlockWait, SyncBlockWaitParks, SyncBlockReleased,
           SyncBlockParks, SyncBlockFires, SyncBlockLock, SyncBlockLockParks, ReleaseLock,
           Compute, WaitFlagParks, Fail, Return, Turn
  <2> QED BY <2>1 DEF DiagnosisFits
<1>4. ASSUME Finish \/ Retry PROVE DiagnosisFits'
  <2>1. outcome' # "deadlock"
    BY <1>4 DEF Finish, Retry, Stuck
  <2> QED BY <2>1 DEF DiagnosisFits
<1>5. ASSUME Deadlock PROVE DiagnosisFits'
  <2>1. Fits(Diagnosis)
    BY <1>5, DiagnosisIsRight DEF Deadlock, Stuck
  <2>2. report' = Diagnosis /\ UNCHANGED << pc, status, arrived, arrivals >>
    BY <1>5 DEF Deadlock, Diagnosis, barrierVars
  <2> QED BY <1>2, <2>1, <2>2
<1>6. ASSUME UNCHANGED vars PROVE DiagnosisFits'
  <2>1. UNCHANGED << pc, status, arrived, arrivals, report, outcome >>
    BY <1>6 DEF vars, barrierVars
  <2>2. CASE outcome = "deadlock"
    <3>1. Fits(report)
      BY <2>2 DEF DiagnosisFits, Fits
    <3> QED BY <1>2, <2>1, <3>1
  <2>3. CASE outcome # "deadlock"
    BY <2>1, <2>3 DEF DiagnosisFits
  <2> QED BY <2>2, <2>3
<1> QED BY <1>3, <1>4, <1>5, <1>6 DEF Next

(* The diagnosis of every deadlock names the barriers somebody waits at,   *)
(* and blames those who are behind everybody waiting there.                *)
THEOREM DiagnosesFit == Spec /\ NoStrangers => []DiagnosisFits
<1>1. Init => DiagnosisFits
  BY DEF Init, DiagnosisFits
<1> QED
  BY <1>1, InitTypes, NextKeepsTypes, InitParked, NextKeepsParked, InitSites, NextKeepsSites,
     InitThere, NextThere, NextAway, NextDiagnosis, PTL DEF Spec

-----------------------------------------------------------------------------
(* The use of block locks kernels are written with: a core unlocks what it *)
(* has locked and locks nothing twice, and the lanes of one block leave a  *)
(* variable to one of them (the variable tells blocks apart, not lanes).   *)
IsOn(c, i, op, l) == launch.program[c][i].op = op /\ launch.program[c][i].lock = l

Inside(c, l, i) ==
  \E j \in 1 .. (i - 1) : /\ IsOn(c, j, "lock", l)
                          /\ \A m \in (j + 1) .. (i - 1) : ~IsOn(c, m, "unlock", l)

Uses(c, l) ==
  \E i \in 1 .. Len(launch.program[c]) : IsOn(c, i, "lock", l) \/ IsOn(c, i, "unlock", l)

LockDiscipline ==
  \A l \in Lock : \A c \in Core :
    /\ \A i \in 1 .. Len(launch.program[c]) :
         /\ IsOn(c, i, "lock", l) => ~Inside(c, l, i)
         /\ IsOn(c, i, "unlock", l) => Inside(c, l, i)
    /\ \A d \in Core : Uses(c, l) /\ Uses(d, l) /\ BlockOf(c) = BlockOf(d) => c = d

(* A core is between lock and unlock by count exactly when it is so by its *)
(* place in its program, and then the variable holds the index of its      *)
(* block.                                                                  *)
SectionInv(c, l) ==
  /\ LockOps({c}, "lock", l) =
       LockOps({c}, "unlock", l) + (IF Inside(c, l, pc[c]) THEN 1 ELSE 0)
  /\ Inside(c, l, pc[c]) => Uses(c, l) /\ lockVar[l] = BlockOf(c)

ExclusionInv == LockDiscipline /\ \A l \in Lock : \A c \in Core : SectionInv(c, l)

(* What passing one operation does to being inside a section.              *)
LEMMA InsideStep ==
  ASSUME NEW c, NEW l, NEW i \in Nat \ {0}
  PROVE  /\ IsOn(c, i, "lock", l) => Inside(c, l, i + 1)
         /\ IsOn(c, i, "unlock", l) => ~Inside(c, l, i + 1)
         /\ ~IsOn(c, i, "lock", l) /\ ~IsOn(c, i, "unlock", l) =>
              (Inside(c, l, i + 1) <=> Inside(c, l, i))
<1>1. /\ \A j : j \in 1 .. (i + 1 - 1) <=> j \in 1 .. (i - 1) \/ j = i
      /\ \A j \in 1 .. (i - 1) : \A m :
           m \in (j + 1) .. (i + 1 - 1) <=> m \in (j + 1) .. (i - 1) \/ m = i
      /\ \A m : m \notin (i + 1) .. (i + 1 - 1)
  OBVIOUS
<1>2. IsOn(c, i, "lock", l) => Inside(c, l, i + 1)
  BY <1>1 DEF Inside
<1>3. ~(IsOn(c, i, "lock", l) /\ IsOn(c, i, "unlock", l))
  BY DEF IsOn
<1>4. IsOn(c, i, "unlock", l) => ~Inside(c, l, i + 1)
  BY <1>1, <1>3 DEF Inside
<1>5. ASSUME ~IsOn(c, i, "lock", l), ~IsOn(c, i, "unlock", l)
      PROVE  Inside(c, l, i + 1) <=> Inside(c, l, i)
  BY <1>1, <1>5 DEF Inside
<1> QED BY <1>2, <1>4, <1>5

(* The operation a core executes is one of its program's.                  *)
LEMMA OpIsOn ==
  ASSUME TypeOK, NEW c \in Core, ~AtEnd(c)
  PROVE  /\ pc[c] \in 1 .. Len(launch.program[c])
         /\ \A op, l : IsOn(c, pc[c], op, l) <=> Op(c).op = op /\ Op(c).lock = l
<1>1. launch.program[c] \in Seq(Instr) /\ pc[c] \in Nat \ {0}
  BY DEF TypeOK, IsLaunch, Core
<1>2. pc[c] \in 1 .. Len(launch.program[c])
  BY <1>1 DEF AtEnd
<1> QED BY <1>2 DEF IsOn, Op

(* No step changes what the programs say.                                  *)
LEMMA SameProgram ==
  ASSUME launch' = launch
  PROVE  /\ Core' = Core /\ LockDiscipline' = LockDiscipline
         /\ \A c : BlockOf(c)' = BlockOf(c) /\ \A l : Uses(c, l)' = Uses(c, l)
         /\ \A c, l, i : Inside(c, l, i)' = Inside(c, l, i)
<1>1. Core' = Core /\ \A c : BlockOf(c)' = BlockOf(c)
  BY DEF Core, BlockOf
<1>2. \A c, i, op, l : IsOn(c, i, op, l)' = IsOn(c, i, op, l)
  BY DEF IsOn
<1>3. \A c, l : Uses(c, l)' = Uses(c, l)
  BY <1>2 DEF Uses
<1>4. \A c, l, i : Inside(c, l, i)' = Inside(c, l, i)
  BY <1>2 DEF Inside
<1>5. LockDiscipline' = LockDiscipline
  BY <1>1, <1>2, <1>3, <1>4 DEF LockDiscipline
<1> QED BY <1>1, <1>3, <1>4, <1>5

(* The count of one core, and the place of all, over an advance.           *)
LEMMA SectionStep ==
  ASSUME TypeOK, ExclusionInv, NEW c \in Core, Advance(c), ~AtEnd(c), launch' = launch,
         NEW l \in Lock, NEW d \in Core
  PROVE  /\ LockOps({d}, "lock", l)' =
              LockOps({d}, "unlock", l)' + (IF Inside(d, l, pc[d])' THEN 1 ELSE 0)
         /\ d = c /\ IsOn(c, pc[c], "lock", l) =>
              ~Inside(d, l, pc[d]) /\ Inside(d, l, pc[d])' /\ Uses(c, l)
         /\ d = c /\ IsOn(c, pc[c], "unlock", l) =>
              Inside(d, l, pc[d]) /\ ~(Inside(d, l, pc[d])') /\ Uses(c, l)
         /\ ~(d = c /\ (IsOn(c, pc[c], "lock", l) \/ IsOn(c, pc[c], "unlock", l))) =>
              (Inside(d, l, pc[d])' <=> Inside(d, l, pc[d]))
<1>1. SectionInv(d, l) /\ LockDiscipline
  BY DEF ExclusionInv
<1>2. /\ pc[c] \in 1 .. Len(launch.program[c]) /\ pc[c] \in Nat \ {0}
      /\ \A op : IsOn(c, pc[c], op, l) <=> Op(c).op = op /\ Op(c).lock = l
  BY OpIsOn DEF TypeOK
<1>3. pc'[d] = IF d = c THEN pc[d] + 1 ELSE pc[d]
  BY DEF Advance, TypeOK
<1>4. Inside(d, l, pc[d])' <=> Inside(d, l, pc'[d])
  BY SameProgram DEF Inside, IsOn
<1>5. /\ \A op : LockOps({d}, op, l) \in Nat
      /\ \A op : d = c /\ Op(c).op = op /\ Op(c).lock = l =>
                   LockOps({d}, op, l)' = LockOps({d}, op, l) + 1
      /\ \A op : ~(d = c /\ Op(c).op = op /\ Op(c).lock = l) =>
                   LockOps({d}, op, l)' = LockOps({d}, op, l)
  BY LockOpsStep
<1>6. /\ IsOn(c, pc[c], "lock", l) => ~Inside(c, l, pc[c]) /\ Uses(c, l)
      /\ IsOn(c, pc[c], "unlock", l) => Inside(c, l, pc[c]) /\ Uses(c, l)
  BY <1>1, <1>2 DEF LockDiscipline, Uses
<1>7. CASE d # c
  <2>1. Inside(d, l, pc[d])' <=> Inside(d, l, pc[d])
    BY <1>3, <1>4, <1>7
  <2> QED BY <1>1, <1>5, <1>7, <2>1 DEF SectionInv
<1>8. CASE d = c /\ IsOn(c, pc[c], "lock", l)
  <2>1. Inside(d, l, pc[d])' /\ ~Inside(d, l, pc[d])
    BY <1>2, <1>3, <1>4, <1>6, <1>8, InsideStep
  <2>2. LockOps({d}, "lock", l)' = LockOps({d}, "lock", l) + 1
        /\ LockOps({d}, "unlock", l)' = LockOps({d}, "unlock", l)
    BY <1>2, <1>5, <1>8
  <2>3. ~IsOn(c, pc[c], "unlock", l)
    BY <1>8 DEF IsOn
  <2> QED BY <1>1, <1>5, <1>6, <1>8, <2>1, <2>2, <2>3 DEF SectionInv
<1>9. CASE d = c /\ IsOn(c, pc[c], "unlock", l)
  <2>1. ~(Inside(d, l, pc[d])') /\ Inside(d, l, pc[d])
    BY <1>2, <1>3, <1>4, <1>6, <1>9, InsideStep
  <2>2. LockOps({d}, "unlock", l)' = LockOps({d}, "unlock", l) + 1
        /\ LockOps({d}, "lock", l)' = LockOps({d}, "lock", l)
    BY <1>2, <1>5, <1>9
  <2>3. ~IsOn(c, pc[c], "lock", l)
    BY <1>9 DEF IsOn
  <2> QED BY <1>1, <1>5, <1>6, <1>9, <2>1, <2>2, <2>3 DEF SectionInv
<1>10. CASE d = c /\ ~IsOn(c, pc[c], "lock", l) /\ ~IsOn(c, pc[c], "unlock", l)
  <2>1. Inside(d, l, pc[d])' <=> Inside(d, l, pc[d])
    BY <1>2, <1>3, <1>4, <1>10, InsideStep
  <2>2. LockOps({d}, "unlock", l)' = LockOps({d}, "unlock", l)
        /\ LockOps({d}, "lock", l)' = LockOps({d}, "lock", l)
    BY <1>2, <1>5, <1>10
  <2> QED BY <1>1, <1>10, <2>1, <2>2 DEF SectionInv
<1> QED BY <1>7, <1>8, <1>9, <1>10

(* A step leaves the locks alone, passes a lock whose turn it is, or       *)
(* releases one.                                                           *)
LEMMA LockSteps ==
  ASSUME NEW c \in Core, Step(c)
  PROVE  /\ launch' = launch
         /\ \/ UNCHANGED <<pc, lockVar>>
            \/ /\ Advance(c) /\ ~AtEnd(c) /\ lockVar' = lockVar
               /\ Op(c).op = "lock" => lockVar[Op(c).lock] = BlockOf(c)
               /\ Op(c).op # "unlock"
            \/ ReleaseLock(c)
<1>1. launch' = launch
  BY DEF Step, SyncBlockSet, SyncBlockWait, SyncBlockWaitParks, SyncBlockReleased,
         SyncBlockParks, SyncBlockFires, SyncBlockLock, SyncBlockLockParks, ReleaseLock,
         Compute, WaitFlagParks, Fail, Return, Turn
<1>2. CASE SyncBlockWaitParks(c) \/ SyncBlockParks(c) \/ SyncBlockLockParks(c)
           \/ WaitFlagParks(c) \/ Fail(c) \/ Return(c)
  <2>1. UNCHANGED <<pc, lockVar>>
    BY <1>2 DEF SyncBlockWaitParks, SyncBlockParks, SyncBlockLockParks, WaitFlagParks, Fail,
                Return, Park
  <2> QED BY <1>1, <2>1
<1>3. CASE SyncBlockSet(c) \/ SyncBlockWait(c) \/ SyncBlockReleased(c) \/ SyncBlockFires(c)
           \/ SyncBlockLock(c) \/ Compute(c)
  <2>1. /\ Advance(c) /\ ~AtEnd(c) /\ lockVar' = lockVar
        /\ Op(c).op \in {"set", "wait", "barrier", "lock", "compute"}
    BY <1>3 DEF SyncBlockSet, SyncBlockWait, SyncBlockReleased, SyncBlockFires,
                SyncBlockLock, Compute, At
  <2>2. Op(c).op = "lock" => lockVar[Op(c).lock] = BlockOf(c)
    BY <1>3 DEF SyncBlockSet, SyncBlockWait, SyncBlockReleased, SyncBlockFires,
                SyncBlockLock, Compute, At
  <2> QED BY <1>1, <2>1, <2>2
<1> QED BY <1>1, <1>2, <1>3 DEF Step

(* A release comes from the one core inside, so it takes nothing from      *)
(* anybody else.                                                           *)
LEMMA StepExcludes ==
  ASSUME TypeOK, ExclusionInv, NEW c \in Core, Step(c)
  PROVE  ExclusionInv'
<1>1. launch' = launch
  BY LockSteps
<1>2. /\ Core' = Core /\ LockDiscipline' /\ LockDiscipline
      /\ \A d : BlockOf(d)' = BlockOf(d) /\ \A l : Uses(d, l)' = Uses(d, l)
      /\ \A d, l, i : Inside(d, l, i)' = Inside(d, l, i)
  BY <1>1, SameProgram DEF ExclusionInv
<1>3. ASSUME NEW l \in Lock, NEW d \in Core PROVE SectionInv(d, l)'
  <2>1. SectionInv(d, l)
    BY DEF ExclusionInv
  <2>2. CASE UNCHANGED <<pc, lockVar>>
    <3>1. \A op : LockOps({d}, op, l)' = LockOps({d}, op, l)
      BY <1>1, <1>2, <2>2 DEF LockOps, Executed, InstrAt
    <3>2. Inside(d, l, pc[d])' <=> Inside(d, l, pc[d])
      BY <1>1, <2>2 DEF Inside, IsOn
    <3> QED BY <1>2, <2>1, <2>2, <3>1, <3>2 DEF SectionInv
  <2>3. CASE /\ Advance(c) /\ ~AtEnd(c) /\ lockVar' = lockVar
             /\ Op(c).op = "lock" => lockVar[Op(c).lock] = BlockOf(c)
             /\ Op(c).op # "unlock"
    <3>1. \A op : IsOn(c, pc[c], op, l) <=> Op(c).op = op /\ Op(c).lock = l
      BY <2>3, OpIsOn
    <3>2. ~IsOn(c, pc[c], "unlock", l)
      BY <2>3, <3>1
    <3>3. /\ LockOps({d}, "lock", l)' =
                LockOps({d}, "unlock", l)' + (IF Inside(d, l, pc[d])' THEN 1 ELSE 0)
          /\ d = c /\ IsOn(c, pc[c], "lock", l) => Uses(c, l)
          /\ ~(d = c /\ IsOn(c, pc[c], "lock", l)) =>
               (Inside(d, l, pc[d])' <=> Inside(d, l, pc[d]))
      BY <1>1, <2>3, <3>2, SectionStep
    <3>4. Inside(d, l, pc[d])' => Uses(d, l) /\ lockVar[l] = BlockOf(d)
      BY <2>1, <2>3, <3>1, <3>3 DEF SectionInv
    <3> QED BY <1>2, <2>3, <3>3, <3>4 DEF SectionInv
  <2>4. CASE ReleaseLock(c)
    <3>1. /\ Advance(c) /\ ~AtEnd(c) /\ Op(c).op = "unlock"
          /\ lockVar' = [lockVar EXCEPT ![Op(c).lock] =
                           IF @ + 1 >= launch.blockDim THEN 0 ELSE @ + 1]
      BY <2>4 DEF ReleaseLock, At
    <3>2. \A op : IsOn(c, pc[c], op, l) <=> Op(c).op = op /\ Op(c).lock = l
      BY <3>1, OpIsOn
    <3>3. ~IsOn(c, pc[c], "lock", l)
      BY <3>1, <3>2
    <3>4. /\ LockOps({d}, "lock", l)' =
                LockOps({d}, "unlock", l)' + (IF Inside(d, l, pc[d])' THEN 1 ELSE 0)
          /\ d = c /\ IsOn(c, pc[c], "unlock", l) => ~(Inside(d, l, pc[d])')
          /\ ~(d = c /\ IsOn(c, pc[c], "unlock", l)) =>
               (Inside(d, l, pc[d])' <=> Inside(d, l, pc[d]))
      BY <1>1, <3>1, <3>3, SectionStep
    <3>5. CASE Op(c).lock # l
      <4>1. lockVar'[l] = lockVar[l] /\ ~IsOn(c, pc[c], "unlock", l)
        BY <3>1, <3>2, <3>5 DEF TypeOK
      <4> QED BY <1>2, <2>1, <3>4, <4>1 DEF SectionInv
    <3>6. CASE Op(c).lock = l
      <4>1. IsOn(c, pc[c], "unlock", l) /\ pc[c] \in 1 .. Len(launch.program[c])
        BY <3>1, <3>2, <3>6, OpIsOn
      <4>2. Inside(c, l, pc[c])
        BY <1>2, <4>1 DEF LockDiscipline
      <4>3. Uses(c, l) /\ lockVar[l] = BlockOf(c)
        BY <4>2 DEF ExclusionInv, SectionInv
      <4>4. ~(Inside(d, l, pc[d])')
        <5>1. SUFFICES ASSUME d # c, Inside(d, l, pc[d])' PROVE FALSE
          BY <3>4, <4>1
        <5>2. Uses(d, l) /\ lockVar[l] = BlockOf(d)
          BY <2>1, <3>4, <5>1 DEF SectionInv
        <5> QED BY <1>2, <4>3, <5>1, <5>2 DEF LockDiscipline
      <4> QED BY <3>4, <4>4 DEF SectionInv
    <3> QED BY <3>5, <3>6
  <2> QED BY <2>2, <2>3, <2>4, LockSteps
<1> QED BY <1>2, <1>3 DEF ExclusionInv

(* The exclusion is inductive, given the types.                            *)
LEMMA NextExcludes == TypeOK /\ ExclusionInv /\ [Next]_vars => ExclusionInv'
<1> SUFFICES ASSUME TypeOK, ExclusionInv, [Next]_vars PROVE ExclusionInv'
  OBVIOUS
<1>1. ASSUME NEW c \in Core, Step(c) PROVE ExclusionInv'
  BY <1>1, StepExcludes
<1>2. CASE Finish \/ Retry \/ Deadlock \/ UNCHANGED vars
  <2>1. launch' = launch /\ pc' = pc /\ lockVar' = lockVar
    BY <1>2 DEF Finish, Retry, Deadlock, vars
  <2>2. /\ Core' = Core /\ LockDiscipline' = LockDiscipline
        /\ \A c : BlockOf(c)' = BlockOf(c) /\ \A l : Uses(c, l)' = Uses(c, l)
    BY <2>1, SameProgram
  <2>3. \A c, l : Inside(c, l, pc[c])' <=> Inside(c, l, pc[c])
    BY <2>1 DEF Inside, IsOn
  <2>4. \A c, op, l : LockOps({c}, op, l)' = LockOps({c}, op, l)
    BY <2>1, <2>2 DEF LockOps, Executed, InstrAt
  <2>5. ASSUME NEW l \in Lock, NEW c \in Core PROVE SectionInv(c, l)'
    <3>1. SectionInv(c, l)
      BY DEF ExclusionInv
    <3>2. LockOps({c}, "lock", l)' = LockOps({c}, "lock", l)
          /\ LockOps({c}, "unlock", l)' = LockOps({c}, "unlock", l)
      BY <2>4
    <3>3. Inside(c, l, pc[c])' <=> Inside(c, l, pc[c])
      BY <2>3
    <3>4. lockVar'[l] = lockVar[l] /\ BlockOf(c)' = BlockOf(c) /\ Uses(c, l)' = Uses(c, l)
      BY <2>1, <2>2
    <3> QED BY <3>1, <3>2, <3>3, <3>4 DEF SectionInv
  <2> QED BY <2>2, <2>5 DEF ExclusionInv
<1> QED BY <1>1, <1>2 DEF Next

(* At the start nobody is inside.                                          *)
LEMMA InitExcludes == Init /\ LockDiscipline => ExclusionInv
<1> SUFFICES ASSUME Init, LockDiscipline, NEW l \in Lock, NEW c \in Core
             PROVE  SectionInv(c, l)
  BY DEF ExclusionInv
<1>1. Executed = {}
  <2>1. \A d \in Core : {d} \X (1 .. (pc[d] - 1)) = {}
    BY DEF Init
  <2> QED BY <2>1 DEF Executed
<1>2. \A op : LockOps({c}, op, l) = 0
  BY <1>1, FS_EmptySet DEF LockOps
<1>3. ~Inside(c, l, pc[c])
  BY DEF Init, Inside
<1> QED BY <1>2, <1>3 DEF SectionInv

(* Where kernels keep to the discipline, two cores are never between lock  *)
(* and unlock of one variable: SyncBlockLock lets a block in by the number *)
(* the variable holds, and only the block inside moves it on.              *)
THEOREM LocksExclude == Spec /\ LockDiscipline => []LockExcludes
<1>1. TypeOK /\ ExclusionInv => LockExcludes
  <2> SUFFICES ASSUME TypeOK, ExclusionInv, NEW l \in Lock, NEW c \in Core, NEW d \in Core,
                      Holding(c, l), Holding(d, l)
               PROVE  c = d
    BY DEF LockExcludes
  <2>1. ASSUME NEW e \in Core, Holding(e, l) PROVE Uses(e, l) /\ lockVar[l] = BlockOf(e)
    <3>1. SectionInv(e, l)
      BY DEF ExclusionInv
    <3>2. LockOps({e}, "unlock", l) \in Nat
      <4> DEFINE S == {x \in Executed : x[1] \in {e} /\ InstrAt(x).op = "unlock"
                                        /\ InstrAt(x).lock = l}
      <4>1. IsFiniteSet(S)
        BY FiniteExecuted, FS_Subset
      <4> QED BY <4>1, FS_CardinalityType DEF LockOps
    <3>3. Inside(e, l, pc[e])
      BY <2>1, <3>1, <3>2 DEF SectionInv, Holding
    <3> QED BY <3>1, <3>3 DEF SectionInv
  <2> QED BY <2>1 DEF ExclusionInv, LockDiscipline
<1> QED
  BY <1>1, InitTypes, NextKeepsTypes, InitExcludes, NextExcludes, PTL DEF Spec
=============================================================================
