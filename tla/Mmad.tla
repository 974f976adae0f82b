-------------------------------- MODULE Mmad --------------------------------
(***************************************************************************)
(* mmadL1 as a client of the pipe engine (lib/OpsMisc.cpp).  The operation *)
(* takes its input flags, then queues two effects that share one state: on *)
(* MTE1 the copy of the L1 tiles into L0, on M the product of the copies   *)
(* into the accumulator.  Either half may be drained first: a rule that    *)
(* drains M alone finds the tiles not yet copied and copies them then.     *)
(*                                                                         *)
(* Both halves are entries of the engine's logs with the number of the     *)
(* operation; the half on MTE1 reads the tiles, the half on M reads the    *)
(* accumulator unless it clears it, and writes it.                         *)
(***************************************************************************)
EXTENDS PipeEngine, FiniteSetsExt

CONSTANTS
  M, Mte1, Mte2,   \* the pipes
  Macro            \* mmads: [op, tiles, acc : byte ranges, clear, slots], see MacroAssumption

(* slots are the seven sync_related_args: an event, or -1 for none         *)
Slot == 0 .. 6

ASSUME MacroAssumption ==
  /\ {M, Mte1, Mte2} \subseteq Pipe \ {PipeS} /\ M # Mte1 /\ Mte1 # Mte2
  /\ \A x \in Macro : /\ x.op \in STRING /\ \A i \in Instr : i.op # x.op
                      /\ x.tiles \subseteq ByteRange /\ x.acc \subseteq ByteRange
                      /\ x.clear \in BOOLEAN /\ x.slots \in [Slot -> Int]

(* The tiles lie in L1 and the accumulator in L0C; what else is issued on  *)
(* MTE1 moves data out of L1 (L12UBOp), never into it.                     *)
ASSUME TilesAssumption ==
  \A x \in Macro :
    /\ \A y \in Macro : Bytes(x.tiles) \cap Bytes(y.acc) = {}
    /\ \A ins \in Instr : ins.how = "deferred" /\ ins.pipe = Mte1
                          => Bytes(x.tiles) \cap Bytes(ins.writes) = {}

VARIABLES
  captured,     \* the mmads that hold a copy of their tiles (MmadStaging::staged)
  wrongTiles,   \* history: some mmad copied other tiles than those of program order
  parked        \* the mmad the core is parked in, or {}

mmadVars == <<vars, captured, wrongTiles, parked>>

-----------------------------------------------------------------------------
(***************************************************************************)
(* The flags of an mmad                                                    *)
(***************************************************************************)
UsedSlots(x, S) == {s \in S : x.slots[s] >= 0}

KeyOf(x, s) ==
  [set   |-> IF s \in {0, 1} THEN Mte2 ELSE IF s \in {2, 3} THEN Mte1 ELSE M,
   wait  |-> IF s \in {2, 3} THEN Mte2 ELSE Mte1,
   event |-> x.slots[s]]

(* Key holds every flag in use.                                            *)
ASSUME MacroKeyAssumption ==
  \A x \in Macro : \A s \in UsedSlots(x, Slot \ {4}) : KeyOf(x, s) \in Key

(* Two slots may name the same event; it must then be raised twice.        *)
Needs(x, k) == Cardinality({s \in UsedSlots(x, {0, 1, 5, 6}) : KeyOf(x, s) = k})
Needed(x) == {k \in Key : Needs(x, k) > 0}

Token(k) == [kind |-> "token", key |-> k]
TokenOf(x, s) == IF x.slots[s] >= 0 THEN <<Token(KeyOf(x, s))>> ELSE << >>
Released(x) == TokenOf(x, 2) \o TokenOf(x, 3)
Published(x) == TokenOf(x, 5) \o TokenOf(x, 6)
Raises(x, k) == Cardinality({s \in UsedSlots(x, {2, 3, 5, 6}) : KeyOf(x, s) = k})

(* Raises of k to be had once its pipe is drained up to n                  *)
Have(k, n) ==
  flagSem[k] + Cardinality(TokensUpTo(k, n)) - Cardinality(TokensUpTo(k, retired[k.set]))

MutShort(x) == {k \in Needed(x) : Have(k, Len(issued[k.set])) < 1}
Short(x) == {k \in Needed(x) : Have(k, Len(issued[k.set])) < Needs(x, k)}

KeyBefore(k, l) ==
  \/ k.set < l.set
  \/ k.set = l.set /\ k.wait < l.wait
  \/ k.set = l.set /\ k.wait = l.wait /\ k.event < l.event
FirstShort(x) == CHOOSE k \in Short(x) : \A l \in Short(x) \ {k} : KeyBefore(k, l)

(* Where draining towards one flag stops: at the token that suffices, or   *)
(* at the last one there is.                                               *)
Cut(x, k) ==
  Min({n \in InFlight(k.set) \cup {retired[k.set]} : Have(k, n) >= Needs(x, k)}
      \cup {Max(TokensUpTo(k, Len(issued[k.set])) \cup {retired[k.set]})})

MutDrainedFor(x, keys) == retired
DrainedFor(x, keys) ==
  [p \in Pipe |-> Max({retired[p]} \cup {Cut(x, k) : k \in {l \in keys : l.set = p}})]

-----------------------------------------------------------------------------
(***************************************************************************)
(* The copies                                                              *)
(***************************************************************************)
Halves(upto) ==
  {y \in Popped(upto) : /\ y[2] <= Len(issued[y[1]])
                        /\ At(y).kind = "effect"
                        /\ \E x \in Macro : x.op = At(y).op}

(* The first half to be popped copies the tiles.                           *)
MutCopying(upto) == {y \in Halves(upto) : y[1] = M /\ At(y).id \notin captured}
Copying(upto) ==
  {y \in Halves(upto) : /\ At(y).id \notin captured
                        /\ \A z \in Halves(upto) : At(z).id = At(y).id => ~PoppedBefore(z, y)}

Staging(id) == CHOOSE e \in {issued[Mte1][i] : i \in DOMAIN issued[Mte1]} :
                 e.kind = "effect" /\ e.id = id

CopiesWrong(upto) ==
  \E y \in Copying(upto) :
     LET stage == Staging(At(y).id)
         held == {z \in Popped(upto) : PoppedBefore(z, y)}
     IN  \E b \in Bytes(stage.reads) : Landed(held, b) # stage.expect[b]

Copies(upto) ==
  /\ captured' = captured \cup {At(y).id : y \in Copying(upto)}
  /\ wrongTiles' = (wrongTiles \/ CopiesWrong(upto))

-----------------------------------------------------------------------------
Half(x, pipe) ==
  [op |-> x.op, pipe |-> pipe, raw |-> FALSE,
   reads |-> IF pipe = Mte1 THEN x.tiles ELSE IF x.clear THEN {} ELSE x.acc,
   writes |-> IF pipe = Mte1 THEN {} ELSE x.acc]

Queued(ins) ==
  [kind |-> "effect", op |-> ins.op, reads |-> ins.reads, writes |-> ins.writes,
   raw |-> ins.raw, id |-> count + 1,
   expect |-> [b \in Byte |-> IF b \in Bytes(ins.reads) THEN prog[b] ELSE 0]]

MmadInit == Init /\ captured = {} /\ wrongTiles = FALSE /\ parked = {}

(* What a flag loses                                                      *)
MutTaken(x, k) == IF k \in Needed(x) THEN 1 ELSE 0
Taken(x, k) == Needs(x, k)

(* Each half is checked against the pipes but its own.                     *)
MutChecked(x, upto) == Reported(Half(x, M), upto, missing)
Checked(x, upto) == Reported(Half(x, M), upto, Reported(Half(x, Mte1), upto, missing))

(* execMmad when every flag can be had: drain towards them, take them all, *)
(* then check and queue the half on MTE1, its tokens, the half on M, its   *)
(* tokens.                                                                 *)
MmadQueues(x) ==
  LET upto == DrainedFor(x, Needed(x))
      stage == Half(x, Mte1)
      multiply == Half(x, M)
  IN  /\ ~inOrder /\ Short(x) = {}
      /\ Issue
      /\ Drain(upto) /\ Copies(upto)
      /\ flagSem' = [k \in Key |-> DrainedFlags(upto)[k] - Taken(x, k)]
      /\ waits' = [k \in Key |-> waits[k] + Needs(x, k)]
      /\ missing' = Checked(x, upto)
      /\ issued' = [issued EXCEPT ![Mte1] = @ \o <<Queued(stage)>> \o Released(x),
                                  ![M] = @ \o <<Queued(multiply)>> \o Published(x)]
      /\ prog' = Written(prog, multiply)
      /\ UNCHANGED <<capWarned, parked>>

(* The same in order: nothing is queued and tokens are raised at once.     *)
MmadInOrder(x) ==
  /\ inOrder /\ Short(x) = {}
  /\ Issue
  /\ issued' = [issued EXCEPT ![Mte1] = @ \o Released(x), ![M] = @ \o Published(x)]
  /\ retired' = [p \in Pipe |-> Len(issued'[p])]
  /\ flagSem' = [k \in Key |-> flagSem[k] - Taken(x, k) + Raises(x, k)]
  /\ waits' = [k \in Key |-> waits[k] + Needs(x, k)]
  /\ Complete(mem, [reads |-> x.tiles \cup Half(x, M).reads, writes |-> x.acc], stale)
  /\ prog' = Written(prog, Half(x, M))
  /\ UNCHANGED <<missing, owed, capWarned, captured, wrongTiles, parked>>

(* A flag is missing: the pipes of the flags before it, and its own, have  *)
(* been drained, and no flag has been taken.                               *)
MutParkedTake(x, k) == IF k \in Needed(x) \ Short(x) THEN Needs(x, k) ELSE 0
ParkedTake(x, k) == 0

MmadParks(x) ==
  LET short == FirstShort(x)
      upto == DrainedFor(x, {k \in Needed(x) : k = short \/ KeyBefore(k, short)})
  IN  /\ status = "Runnable" /\ Short(x) # {}
      /\ Drain(upto) /\ Copies(upto)
      /\ flagSem' = [k \in Key |-> DrainedFlags(upto)[k] - ParkedTake(x, k)]
      /\ status' = "BlockedOnFlag" /\ blockedOn' = {short} /\ parked' = {x}
      /\ UNCHANGED <<inOrder, count, issued, waits, missing, prog, capWarned>>

(* Everything else the core does; its drains pop halves too.               *)
EngineStep ==
  /\ Next
  /\ Copies(retired')
  /\ UNCHANGED parked

MmadNext ==
  \/ EngineStep
  \/ \E x \in Macro : MmadQueues(x) \/ MmadInOrder(x) \/ MmadParks(x)

MmadSpec == MmadInit /\ [][MmadNext]_mmadVars

-----------------------------------------------------------------------------
MmadTypeOK == /\ TypeOK
              /\ captured \subseteq 1 .. count /\ wrongTiles \in BOOLEAN
              /\ parked \subseteq Macro

(* As long as no MISSING SYNC was reported, an mmad multiplies the tiles   *)
(* of program order, whatever has been loaded over them since and in       *)
(* whichever order its halves are drained (MmadStaging: "the cube must     *)
(* still see the values MTE1 captured").                                   *)
TilesMatchProgramOrder == CheckSync /\ missing = {} => ~wrongTiles

(* An mmad parks only if the program has not set its flags often enough,   *)
(* counting an event that two of its slots name twice, and a parked mmad   *)
(* has taken nothing: what it found raised is still there for the retry    *)
(* (consumeMmadFlags: "retrying the op must not consume the first event    *)
(* twice").                                                                *)
ParksEmptyHanded ==
  \A x \in parked :
    /\ \E k \in blockedOn :
         Cardinality(TokensUpTo(k, Len(issued[k.set]))) - waits[k] < Needs(x, k)
    /\ \A k \in Needed(x) :
         flagSem[k] = Cardinality(TokensUpTo(k, retired[k.set])) - waits[k]
=============================================================================
