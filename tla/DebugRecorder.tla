--------------------------- MODULE DebugRecorder ---------------------------
(***************************************************************************)
(* The debug session of a launch (lib/Debug.cpp) and its replay in the     *)
(* viewer (src/tools/debug-ui/app.js): memory is recorded as patches, one  *)
(* set of them per recorded state, found by comparing the bytes somebody   *)
(* reported with a copy of what was recorded last.                         *)
(*                                                                         *)
(* A turn of the interpreter is one action: what the operation does to the *)
(* arenas, and then recordStep.  A core stands for its block, by which     *)
(* cores and arenas are selected; the control state a session also carries *)
(* is a copy of the interpreter's and left out.                            *)
(***************************************************************************)
EXTENDS Integers, Sequences, FiniteSets, FiniteSetsExt

CONSTANTS
    Block,          \* block indices, 0 first
    Arena,          \* the arenas of the launch
    OwnerOf,        \* the block an arena is local to, or Shared
    Shared,
    Capacity,       \* bytes of each arena
    Gm,             \* the arena that holds the arguments and the lock
    ArgBytes,       \* bytes of Gm set up before the launch
    Poison,         \* the content of fresh storage
    MaxByte,        \* contents are 0..MaxByte
    LockAt,         \* the byte of Gm a lock variable is carved from
    DebugCores,     \* what --debug-core may name: blocks, Nobody or a stranger
    Nobody,         \* no --debug-core given
    PatchBytes,     \* kPatchBytes, longest patch
    MaxTurns        \* bound on the turns of a launch

ASSUME RecorderAssumption ==
    /\ 0 \in Block /\ Block \subseteq Nat
    /\ Shared \notin Block /\ Nobody \notin Block
    /\ OwnerOf \in [Arena -> Block \cup {Shared}]
    /\ Capacity \in [Arena -> Nat]
    /\ Gm \in Arena /\ OwnerOf[Gm] = Shared
    /\ ArgBytes \in 1 .. Capacity[Gm] /\ LockAt \in 0 .. ArgBytes - 1
    /\ MaxByte \in Nat /\ Poison \in 0 .. MaxByte
    /\ PatchBytes \in Nat \ {0} /\ MaxTurns \in Nat

VARIABLES
    storage,         \* the bytes of each arena
    bumpTop,         \* getHighWaterMark of each arena
    allocs,          \* the ranges alloc sites have been given
    programFilter,   \* the block recorded, or Nobody for all of them
    pendingWrites,   \* ranges reported since the last recorded state
    previousMemory,  \* the recorder's copy of each arena
    states,          \* the patches of each recorded state
    turns, finished,
    memory,          \* viewer: the bytes shown, for each arena
    replayedThrough, \* viewer: the last state applied, 0 before the first
    unreported,      \* history: bytes changed behind the recorder's back
    truth            \* history: the launch at each recorded state

session == <<pendingWrites, previousMemory, states, unreported, truth>>
viewer == <<memory, replayedThrough>>
vars == <<storage, bumpTop, allocs, programFilter, turns, finished, session, viewer>>

Bytes(a) == 0 .. Capacity[a] - 1
Covers(r, a, x) == r.arena = a /\ x \in r.lo .. r.hi - 1

\* The cores of a block reach its own arenas and those of the launch.
Reaches(b, a) == OwnerOf[a] \in {Shared, b}

Ranges(b) ==
    UNION {{[arena |-> a, lo |-> lo, hi |-> hi] : lo \in Bytes(a), hi \in 1 .. Capacity[a]} :
             a \in {x \in Arena : Reaches(b, x)}}

----------------------------------------------------------------------------
(***************************************************************************)
(* Recording.  The operators take the arenas, their high-water marks, the  *)
(* ranges reported and the recorder's copy.                                *)
(***************************************************************************)

\* A name no core has falls back on the block of the first core.
ResolveProgramFilter(debugCore) ==
    IF debugCore \in Block \cup {Nobody} THEN debugCore ELSE 0

RecordsCore(b) == programFilter \in {Nobody, b}

RecordsArena(a) == programFilter = Nobody \/ Reaches(programFilter, a)

\* Bytes below the high-water mark, allocated since the last state or reported.
Dirty(top, writes, copy, a) ==
    {x \in 0 .. top[a] - 1 :
        RecordsArena(a) /\ (x >= Len(copy[a]) \/ \E r \in writes : Covers(r, a, x))}

Changed(bytes, top, writes, copy, a) ==
    {x \in Dirty(top, writes, copy, a) :
        x >= Len(copy[a]) \/ copy[a][x + 1] # bytes[a][x]}

\* Each run of changed bytes, cut into patches of at most PatchBytes.
PatchesOf(bytes, changed, a) ==
    LET runStart(x) == Min({s \in changed : s .. x \subseteq changed})
        end(x) == Max({y \in x .. x + PatchBytes - 1 : x .. y \subseteq changed})
    IN  {[arena |-> a, offset |-> x,
          bytes |-> [i \in 1 .. end(x) - x + 1 |-> bytes[a][x + i - 1]]] :
            x \in {y \in changed : (y - runStart(y)) % PatchBytes = 0}}

Patches(bytes, top, writes, copy) ==
    UNION {PatchesOf(bytes, Changed(bytes, top, writes, copy, a), a) : a \in Arena}

Copied(bytes, top, writes, copy) ==
    [a \in Arena |->
        IF RecordsArena(a)
        THEN [i \in 1 .. top[a] |-> IF i - 1 \in Changed(bytes, top, writes, copy, a)
                                    THEN bytes[a][i - 1] ELSE copy[a][i]]
        ELSE copy[a]]

\* recordState, with what has been reported and what has not.
RecordState(writes, silent) ==
    LET hidden == {c \in silent : c[2] \notin Dirty(bumpTop', writes, previousMemory, c[1])}
    IN  /\ states' = Append(states, Patches(storage', bumpTop', writes, previousMemory))
        /\ previousMemory' = Copied(storage', bumpTop', writes, previousMemory)
        /\ pendingWrites' = {}
        /\ unreported' = hidden
        /\ truth' = Append(truth, [bytes |-> storage', top |-> bumpTop', hidden |-> hidden])

MutRecordStepDropsOthers(b, writes, silent) ==
    IF RecordsCore(b) THEN RecordState(pendingWrites \cup writes, unreported \cup silent)
    ELSE /\ unreported' = unreported \cup silent
         /\ UNCHANGED <<pendingWrites, previousMemory, states, truth>>
\* recordStep: the turns of other blocks leave what they reported pending.
RecordStep(b, writes, silent) ==
    IF RecordsCore(b) THEN RecordState(pendingWrites \cup writes, unreported \cup silent)
    ELSE /\ pendingWrites' = pendingWrites \cup writes
         /\ unreported' = unreported \cup silent
         /\ UNCHANGED <<previousMemory, states, truth>>

----------------------------------------------------------------------------
(***************************************************************************)
(* Turns.                                                                  *)
(***************************************************************************)
Turn ==
    /\ ~finished /\ turns < MaxTurns
    /\ turns' = turns + 1
    /\ UNCHANGED <<finished, programFilter, viewer>>

\* The effects a turn of block b drains, if any: a range and what it gets.
Effects(b) == {{}} \cup {{[to |-> r, value |-> v]} : r \in Ranges(b), v \in 0 .. MaxByte}

Landed(bytes, effects) ==
    [a \in Arena |-> [x \in Bytes(a) |->
        IF \E e \in effects : Covers(e.to, a, x)
        THEN (CHOOSE e \in effects : Covers(e.to, a, x)).value ELSE bytes[a][x]]]

Poisoned(r) == {[to |-> r, value |-> Poison]}
Reported(effects) == {e.to : e \in effects}

\* commitEffect, for operations of all kinds: it reports the ranges the
\* effect declares, which need not lie below the high-water mark, for a
\* pointer_cast takes its buffer at an address of its own.
Commit(b) ==
    /\ Turn
    /\ \E es \in Effects(b) :
         /\ storage' = Landed(storage, es)
         /\ UNCHANGED <<bumpTop, allocs>>
         /\ RecordStep(b, Reported(es), {})

\* allocateMemRef, a new site: the storage is poisoned and not reported, for
\* it lies above what has been recorded so far.
AllocateFresh(b) ==
    /\ Turn
    /\ \E r \in Ranges(b) :
         /\ r.lo = bumpTop[r.arena] /\ r.lo < r.hi
         /\ bumpTop' = [bumpTop EXCEPT ![r.arena] = r.hi]
         /\ allocs' = allocs \cup {r}
         /\ storage' = Landed(storage, Poisoned(r))
    /\ RecordStep(b, {}, {})

\* allocateMemRef, a site executed again: poisoned and reported.
AllocateAgain(b) ==
    /\ Turn
    /\ UNCHANGED <<bumpTop, allocs>>
    /\ \E r \in allocs \cap Ranges(b) :
         /\ storage' = Landed(storage, Poisoned(r))
         /\ RecordStep(b, {r}, {})

\* releaseLock: drains the pipes, then stores the next turn into the lock
\* variable itself, and tells the recorder nothing.
ReleaseLock(b) ==
    /\ Turn
    /\ \E es \in Effects(b) :
         LET bytes == Landed(storage, es)
             next == bytes[Gm][LockAt] + 1
         IN  /\ storage' = [bytes EXCEPT ![Gm][LockAt] =
                               IF next >= Cardinality(Block) THEN 0 ELSE next]
             /\ UNCHANGED <<bumpTop, allocs>>
             /\ RecordStep(b, Reported(es), {<<Gm, LockAt>>})

\* The end of run(): a last state, whoever had the last turn.
RecordFinal ==
    /\ ~finished /\ finished' = TRUE
    /\ UNCHANGED <<storage, bumpTop, allocs, programFilter, turns, viewer>>
    /\ RecordState(pendingWrites, unreported)

----------------------------------------------------------------------------
(***************************************************************************)
(* The viewer, on a session that is complete.                              *)
(***************************************************************************)

\* Bytes 1 .. n shown of arena a, after the patches of the states of T on top
\* of those shown already; a buffer that grows is filled with zeros.
Applied(shown, T, a) ==
    LET hits(x) == {k \in T : \E p \in states[k] :
                      p.arena = a /\ x \in p.offset + 1 .. p.offset + Len(p.bytes)}
        last(x) == CHOOSE p \in states[Max(hits(x))] :
                      p.arena = a /\ x \in p.offset + 1 .. p.offset + Len(p.bytes)
        ends == {p.offset + Len(p.bytes) : p \in {q \in UNION {states[k] : k \in T} : q.arena = a}}
    IN  [x \in 1 .. Max({Len(shown)} \cup ends) |->
            IF hits(x) # {} THEN last(x).bytes[x - last(x).offset]
            ELSE IF x <= Len(shown) THEN shown[x] ELSE 0]

Nothing == [a \in Arena |-> <<>>]

\* replayMemory: forwards from where the viewer is, or from the start.
Seek(target) ==
    /\ finished
    /\ LET back == target < replayedThrough
           from == IF back THEN 0 ELSE replayedThrough
       IN  memory' = [a \in Arena |-> Applied(IF back THEN <<>> ELSE memory[a],
                                              from + 1 .. target, a)]
    /\ replayedThrough' = target
    /\ UNCHANGED <<storage, bumpTop, allocs, programFilter, turns, finished, session>>

----------------------------------------------------------------------------
Init ==
    /\ \E debugCore \in DebugCores : programFilter = ResolveProgramFilter(debugCore)
    /\ storage = [a \in Arena |-> [x \in Bytes(a) |->
                    IF a = Gm /\ x < ArgBytes THEN 0 ELSE Poison]]
    /\ bumpTop = [a \in Arena |-> IF a = Gm THEN ArgBytes ELSE 0]
    /\ allocs = {} /\ turns = 0 /\ finished = FALSE
    /\ pendingWrites = {} /\ unreported = {}
    /\ states = <<Patches(storage, bumpTop, {}, Nothing)>>
    /\ previousMemory = Copied(storage, bumpTop, {}, Nothing)
    /\ truth = <<[bytes |-> storage, top |-> bumpTop, hidden |-> {}]>>
    /\ memory = Nothing /\ replayedThrough = 0

Next ==
    \/ \E b \in Block : Commit(b) \/ AllocateFresh(b) \/ AllocateAgain(b) \/ ReleaseLock(b)
    \/ RecordFinal
    \/ \E target \in DOMAIN states : Seek(target)

Spec == Init /\ [][Next]_vars

----------------------------------------------------------------------------
Shows(a, x) ==
    x < Len(memory[a]) /\ memory[a][x + 1] = truth[replayedThrough].bytes[a][x]

\* Wherever the user drags the timeline, forwards or back, each byte of a
\* recorded arena below its high-water mark is shown as it was at that state,
\* unless something changed it without reporting it and nothing reported the
\* byte since (recordState and replayMemory).
ReplayShowsMemory ==
    replayedThrough > 0 =>
        \A a \in Arena : RecordsArena(a) =>
            \A x \in 0 .. truth[replayedThrough].top[a] - 1 :
                <<a, x>> \in truth[replayedThrough].hidden \/ Shows(a, x)

\* The viewer can rebuild the contents of any address at any step
\* (docs/Debugger_zh.md): of any address that is allocated, or no longer as it
\* was before the launch.
AnyAddressAnyStep ==
    replayedThrough > 0 =>
        \A a \in Arena : RecordsArena(a) =>
            \A x \in Bytes(a) :
                \/ x < truth[replayedThrough].top[a]
                \/ truth[replayedThrough].bytes[a][x] # truth[1].bytes[a][x]
                => Shows(a, x)
=============================================================================
