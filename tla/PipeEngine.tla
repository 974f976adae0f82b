------------------------------ MODULE PipeEngine ------------------------------
(***************************************************************************)
(* One core's asynchronous pipes: lib/PipeEngine.cpp, the issue and flush  *)
(* half of lib/Interpreter.cpp and the intra-core handlers of              *)
(* lib/OpsSync.cpp.                                                        *)
(*                                                                         *)
(* An operation with a pipe is queued as an effect and moves its data only *)
(* when a flush rule drains the queue.  set_flag queues a token; wait_flag *)
(* drains the setting pipe up to its token.  A scalar access completes on  *)
(* the spot and leaves a resident marker behind, so that later operations  *)
(* on other pipes can still be told they are not ordered after it.         *)
(*                                                                         *)
(* The deque of a pipe is modelled as a log with a cursor: issued[p] is    *)
(* everything pushed so far and retired[p] how much of it was popped, so   *)
(* the queue itself is issued[p][retired[p]+1 .. Len(issued[p])].  Keeping *)
(* the popped part is a history variable; no action reads it.              *)
(*                                                                         *)
(* A written byte holds the number of the operation that wrote it, which   *)
(* is all the properties tell apart.                                       *)
(***************************************************************************)
EXTENDS Integers, Sequences, FiniteSets

CONSTANTS
  NumPipes,    \* kNumPipes; pipe 0 is PIPE_S
  Key,         \* the intra-core flags in use: [set, wait, event] records
  Instr,       \* the operations a program may issue, see InstrAssumption
  MaxAddr,     \* bytes 0 .. MaxAddr of one arena
  CheckSync,   \* options.checkSync
  CheckRaw,    \* options.checkRawPointerRaces
  ScanDepth,   \* kScanDepth of coalesceResident
  MaxMarkers,  \* kMaxResidentMarkers
  MaxIssue     \* bound of the model: operations issued per run

PipeS == 0
Pipe  == 0 .. (NumPipes - 1)
Byte  == 0 .. MaxAddr
ByteRange == [lo : Byte, hi : 1 .. (MaxAddr + 1)]

(* "deferred": issueEffect on a pipe other than PIPE_S.  "resident": an    *)
(* access that completes where it stands.  "direct": prepareDirectAccess.  *)
Instruction == [op : STRING, pipe : Pipe, how : {"deferred", "resident", "direct"},
                reads : SUBSET ByteRange, writes : SUBSET ByteRange, raw : BOOLEAN]

ASSUME PipeAssumption ==
  /\ NumPipes \in Nat \ {0}
  /\ MaxAddr \in Nat
  /\ ScanDepth \in Nat /\ MaxMarkers \in Nat /\ MaxIssue \in Nat
  /\ CheckSync \in BOOLEAN /\ CheckRaw \in BOOLEAN

ASSUME KeyAssumption == Key \subseteq [set : Pipe, wait : Pipe, event : Nat]

(* Only a macro op has its two halves on two pipes; every other op names   *)
(* one pipe for good.  The scalar unit is never the one waiting in a       *)
(* queue, and it alone leaves markers without a drain of its own pipe; raw *)
(* pointers are read and written by it (llvm.load, llvm.store and          *)
(* load_scalar).                                                           *)
ASSUME InstrAssumption ==
  /\ Instr \subseteq Instruction
  /\ \A i \in Instr : i.how = "deferred" => i.pipe # PipeS
  /\ \A i \in Instr : i.how = "resident" => i.pipe = PipeS
  /\ \A i \in Instr : i.raw => i.how = "resident"
  /\ \A i, j \in Instr : i.op = j.op => i.pipe = j.pipe

VARIABLES
  inOrder,   \* options.sched = SchedMode::InOrder, fixed for the run
  count,     \* history: operations issued so far
  issued,    \* per pipe, the log of everything pushed
  retired,   \* per pipe, how many entries of the log have been popped
  flagSem,   \* the flag semaphores
  waits,     \* history: wait_flag operations that got through, per flag
  missing,   \* reportedHazards: the MISSING SYNC reports, as pairs of ops
  mem,       \* the data as it has landed: byte -> writing operation
  prog,      \* history: the data had every operation completed in order
  stale,     \* history: some drained operation read a byte out of order
  owed,      \* history: scalar accesses no drain has retired, byte by byte
  capWarned, \* residentCapWarned
  status,    \* "Runnable", "BlockedOnFlag" or "Done"
  blockedOn  \* the flag the core is parked on, or {}

vars == <<inOrder, count, issued, retired, flagSem, waits, missing, mem, prog,
          stale, owed, capWarned, status, blockedOn>>

-----------------------------------------------------------------------------
Bytes(ranges) == UNION {r.lo .. (r.hi - 1) : r \in ranges}

InFlight(p) == (retired[p] + 1) .. Len(issued[p])

IsToken(p, i, k) == issued[p][i].kind = "token" /\ issued[p][i].key = k

(* The tokens of flag k among the first n entries of its setting pipe.     *)
TokensUpTo(k, n) == {i \in 1 .. n : IsToken(k.set, i, k)}

MutHasTokenFront(k) == \E i \in InFlight(k.set) : i = retired[k.set] + 1 /\ IsToken(k.set, i, k)
HasToken(k) == \E i \in InFlight(k.set) : IsToken(k.set, i, k)

SegmentOf(p, i) == Cardinality({j \in 1 .. i : issued[p][j].kind = "token"})

-----------------------------------------------------------------------------
(***************************************************************************)
(* Draining.  upto says, for every pipe, how far its queue is popped; the  *)
(* loop of flushPipe pops entry after entry, pipe after pipe.              *)
(***************************************************************************)
UpToEnd(P) == [p \in Pipe |-> IF p \in P THEN Len(issued[p]) ELSE retired[p]]

(* flushUntilToken: stop at the first queued token of the flag.            *)
UpToToken(k) ==
  [UpToEnd({}) EXCEPT ![k.set] =
     CHOOSE i \in InFlight(k.set) :
        /\ IsToken(k.set, i, k)
        /\ \A j \in InFlight(k.set) : IsToken(k.set, j, k) => i <= j]

Popped(upto) == UNION {{p} \X ((retired[p] + 1) .. upto[p]) : p \in Pipe}

At(x) == issued[x[1]][x[2]]

PoppedBefore(x, y) == x[1] < y[1] \/ (x[1] = y[1] /\ x[2] < y[2])

(* What byte b holds once the entries X have been committed one by one.    *)
(* commitEffect returns at once for a resident marker.                     *)
Landed(X, b) ==
  LET writers == {x \in X : At(x).kind = "effect" /\ b \in Bytes(At(x).writes)}
  IN  IF writers = {} THEN mem[b]
      ELSE At(CHOOSE x \in writers : \A y \in writers : ~PoppedBefore(x, y)).id

(* Some committed effect finds a byte that is not the one program order    *)
(* gave it when it was issued.                                             *)
ReadsStale(upto) ==
  \E x \in Popped(upto) :
     /\ At(x).kind = "effect"
     /\ \E b \in Bytes(At(x).reads) :
           Landed({y \in Popped(upto) : PoppedBefore(y, x)}, b) # At(x).expect[b]

DrainedMem(upto) == [b \in Byte |-> Landed(Popped(upto), b)]

(* Every token popped on the way raises its own flag.                      *)
MutDrainedFlagsOnlyLast(upto) ==
  [k \in Key |-> flagSem[k] +
     Cardinality({i \in (retired[k.set] + 1) .. upto[k.set] :
                    IsToken(k.set, i, k) /\ i = upto[k.set]})]
DrainedFlags(upto) ==
  [k \in Key |-> flagSem[k] +
     Cardinality({i \in (retired[k.set] + 1) .. upto[k.set] : IsToken(k.set, i, k)})]

(* A drain retires whole segments: a queue is cut after a token or at its  *)
(* end, never between two accesses of one segment.                         *)
StillOwed(upto) ==
  {a \in owed : /\ upto[a.pipe] < Len(issued[a.pipe])
                /\ SegmentOf(a.pipe, upto[a.pipe]) <= a.seg}

(* Everything a plain drain changes.                                       *)
Drain(upto) ==
  /\ retired' = upto
  /\ mem' = DrainedMem(upto)
  /\ stale' = (stale \/ ReadsStale(upto))
  /\ owed' = StillOwed(upto)

-----------------------------------------------------------------------------
(***************************************************************************)
(* checkPipeHazards: the queued work of the other pipes that the operation *)
(* would overtake.  The scan goes pipe by pipe and stops at the first pair *)
(* it has not reported yet.                                                *)
(***************************************************************************)
MutConflictNoWar(e, ins) ==
  /\ e.kind # "token"
  /\ e.op # ins.op
  /\ ~(~CheckRaw /\ ins.raw /\ e.raw)
  /\ \/ Bytes(e.writes) \cap Bytes(ins.writes) # {}
     \/ Bytes(e.writes) \cap Bytes(ins.reads) # {}
Conflict(e, ins) ==
  /\ e.kind # "token"
  /\ e.op # ins.op
  /\ ~(~CheckRaw /\ ins.raw /\ e.raw)
  /\ \/ Bytes(e.reads) \cap Bytes(ins.writes) # {}
     \/ Bytes(e.writes) \cap Bytes(ins.writes) # {}
     \/ Bytes(e.writes) \cap Bytes(ins.reads) # {}

NewHazards(ins, base, seen) ==
  {x \in UNION {{p} \X ((base[p] + 1) .. Len(issued[p])) : p \in Pipe \ {ins.pipe}} :
     Conflict(At(x), ins) /\ <<At(x).op, ins.op>> \notin seen}

(* The reports once ins has been checked against the queues that begin     *)
(* after base.                                                             *)
Reported(ins, base, seen) ==
  LET new == NewHazards(ins, base, seen)
      first == CHOOSE x \in new : \A y \in new : ~PoppedBefore(y, x)
  IN  IF CheckSync /\ new # {} THEN seen \cup {<<At(first).op, ins.op>>} ELSE seen

CheckHazards(ins) == missing' = Reported(ins, retired, missing)

-----------------------------------------------------------------------------
(***************************************************************************)
(* coalesceResident: fold a scalar access into a marker it continues.      *)
(* Only entries pushed after the last token and within ScanDepth of the    *)
(* tail are candidates; the scan runs from the tail.                       *)
(***************************************************************************)
SoleRange(x) == Cardinality(x.reads) + Cardinality(x.writes) = 1

TheRange(x) == CHOOSE r \in x.reads \cup x.writes : TRUE

(* Overlapping or abutting; a gap would widen the marker over bytes nobody *)
(* touched.                                                                *)
MutTouchesGap(r, s) == r.lo <= s.hi + 1 /\ s.lo <= r.hi + 1
Touches(r, s) == r.lo <= s.hi /\ s.lo <= r.hi

Candidates(ins) ==
  {i \in InFlight(ins.pipe) :
     /\ i > Len(issued[ins.pipe]) - ScanDepth
     /\ \A j \in i .. Len(issued[ins.pipe]) : issued[ins.pipe][j].kind # "token"
     /\ LET e == issued[ins.pipe][i] IN
          /\ e.kind = "marker" /\ e.op = ins.op /\ e.raw = ins.raw
          /\ (e.writes # {}) = (ins.writes # {})
          /\ SoleRange(e) /\ SoleRange(ins)
          /\ Touches(TheRange(ins), TheRange(e))}

Hull(r, s) == [lo |-> IF r.lo < s.lo THEN r.lo ELSE s.lo,
               hi |-> IF r.hi > s.hi THEN r.hi ELSE s.hi]

Widened(e, ins) ==
  LET hull == {Hull(TheRange(e), TheRange(ins))}
  IN  [kind |-> "marker", op |-> e.op, raw |-> e.raw,
       reads |-> IF e.writes = {} THEN hull ELSE e.reads,
       writes |-> IF e.writes # {} THEN hull ELSE e.writes]

Marker(ins) == [kind |-> "marker", op |-> ins.op, reads |-> ins.reads,
                writes |-> ins.writes, raw |-> ins.raw]

(* What stays queued of an access that has completed: nothing without the  *)
(* sync check, a wider marker, a new one, or nothing past the cap.  base   *)
(* is the cursor of the pipe after the drain that preceded the access.     *)
LeaveMarker(ins, base) ==
  LET p == ins.pipe
      found == {i \in Candidates(ins) : i > base}
  IN  IF ~CheckSync
        THEN UNCHANGED <<issued, capWarned>>
        ELSE IF found # {}
          THEN LET i == CHOOSE i \in found : \A j \in found : j <= i
               IN  /\ issued' = [issued EXCEPT ![p][i] = Widened(@, ins)]
                   /\ UNCHANGED capWarned
          ELSE IF Len(issued[p]) - base >= MaxMarkers
            THEN /\ capWarned' = TRUE
                 /\ UNCHANGED issued
            ELSE /\ issued' = [issued EXCEPT ![p] = Append(@, Marker(ins))]
                 /\ UNCHANGED capWarned

(* What a scalar access owes the other pipes: an ordering for every byte.  *)
Owing(p, seg, e, write, b) ==
  [pipe |-> p, seg |-> seg, op |-> e.op, raw |-> e.raw, write |-> write, byte |-> b]

Owings(p, seg, e) == {Owing(p, seg, e, TRUE, b) : b \in Bytes(e.writes)}
                     \cup {Owing(p, seg, e, FALSE, b) : b \in Bytes(e.reads)}

-----------------------------------------------------------------------------
Init ==
  /\ inOrder \in BOOLEAN
  /\ count = 0
  /\ issued = [p \in Pipe |-> << >>]
  /\ retired = [p \in Pipe |-> 0]
  /\ flagSem = [k \in Key |-> 0]
  /\ waits = [k \in Key |-> 0]
  /\ missing = {}
  /\ mem = [b \in Byte |-> 0] /\ prog = mem
  /\ stale = FALSE
  /\ owed = {}
  /\ capWarned = FALSE
  /\ status = "Runnable" /\ blockedOn = {}

(* The core runs one more operation of its program.                        *)
Issue ==
  /\ status = "Runnable"
  /\ count < MaxIssue
  /\ count' = count + 1
  /\ UNCHANGED <<inOrder, status, blockedOn>>

Written(m, ins) == [b \in Byte |-> IF b \in Bytes(ins.writes) THEN count + 1 ELSE m[b]]

(* An operation that completes on the spot, on memory m.                   *)
Complete(m, ins, staleSoFar) ==
  /\ mem' = Written(m, ins)
  /\ stale' = (staleSoFar \/ \E b \in Bytes(ins.reads) : m[b] # prog[b])

(* issueEffectImpl with SchedMode::InOrder: commit, queue nothing, check   *)
(* nothing.                                                                *)
IssueInOrder(ins) ==
  /\ inOrder
  /\ Issue
  /\ Complete(mem, ins, stale)
  /\ prog' = Written(prog, ins)
  /\ UNCHANGED <<issued, retired, flagSem, waits, missing, owed, capWarned>>

(* issueEffect on an asynchronous pipe: check, then queue.                 *)
IssueDeferred(ins) ==
  /\ ~inOrder /\ ins.how = "deferred"
  /\ Issue
  /\ CheckHazards(ins)
  /\ issued' = [issued EXCEPT ![ins.pipe] = Append(@,
        [kind |-> "effect", op |-> ins.op, reads |-> ins.reads,
         writes |-> ins.writes, raw |-> ins.raw, id |-> count + 1,
         expect |-> [b \in Byte |-> IF b \in Bytes(ins.reads) THEN prog[b] ELSE 0]])]
  /\ prog' = Written(prog, ins)
  /\ UNCHANGED <<retired, flagSem, waits, mem, stale, owed, capWarned>>

(* issueResidentAccess, preceded by a drain of the pipe for an operation   *)
(* that goes through prepareDirectAccess.                                  *)
IssueNow(ins) ==
  /\ ~inOrder /\ ins.how # "deferred"
  /\ Issue
  /\ LET upto == UpToEnd(IF ins.how = "direct" THEN {ins.pipe} ELSE {})
     IN  /\ retired' = upto
         /\ flagSem' = DrainedFlags(upto)
         /\ CheckHazards(ins)
         /\ Complete(DrainedMem(upto), ins, stale \/ ReadsStale(upto))
         /\ LeaveMarker(ins, upto[ins.pipe])
         /\ owed' = StillOwed(upto) \cup
              (IF CheckSync
                 THEN Owings(ins.pipe, SegmentOf(ins.pipe, Len(issued[ins.pipe])), ins)
                 ELSE {})
  /\ prog' = Written(prog, ins)
  /\ UNCHANGED waits

(* execSetFlag: raised at once in order, else when its token is popped.    *)
(* The log keeps the token of an in-order set as one already popped.       *)
MutSetFlag(k) ==
  /\ Issue
  /\ flagSem' = [flagSem EXCEPT ![k] = @ + 1]
  /\ UNCHANGED <<issued, retired, waits, missing, mem, prog, stale, owed, capWarned>>
SetFlag(k) ==
  /\ Issue
  /\ issued' = [issued EXCEPT ![k.set] = Append(@, [kind |-> "token", key |-> k])]
  /\ IF inOrder
       THEN /\ flagSem' = [flagSem EXCEPT ![k] = @ + 1]
            /\ retired' = [retired EXCEPT ![k.set] = @ + 1]
       ELSE UNCHANGED <<flagSem, retired>>
  /\ UNCHANGED <<waits, missing, mem, prog, stale, owed, capWarned>>

(* execWaitFlag: the flag is already raised.                               *)
MutWaitRaised(k) ==
  /\ status = "Runnable"
  /\ flagSem[k] >= 0
  /\ flagSem' = [flagSem EXCEPT ![k] = @ - 1]
  /\ waits' = [waits EXCEPT ![k] = @ + 1]
  /\ UNCHANGED <<inOrder, count, issued, retired, missing, mem, prog, stale, owed,
                 capWarned, status, blockedOn>>
WaitRaised(k) ==
  /\ status = "Runnable"
  /\ flagSem[k] > 0
  /\ flagSem' = [flagSem EXCEPT ![k] = @ - 1]
  /\ waits' = [waits EXCEPT ![k] = @ + 1]
  /\ UNCHANGED <<inOrder, count, issued, retired, missing, mem, prog, stale, owed,
                 capWarned, status, blockedOn>>

(* execWaitFlag: drain the setting pipe up to the token.                   *)
WaitDrains(k) ==
  /\ status = "Runnable"
  /\ flagSem[k] <= 0 /\ HasToken(k)
  /\ Drain(UpToToken(k))
  /\ flagSem' = [DrainedFlags(UpToToken(k)) EXCEPT ![k] = @ - 1]
  /\ waits' = [waits EXCEPT ![k] = @ + 1]
  /\ UNCHANGED <<inOrder, count, issued, missing, prog, capWarned, status, blockedOn>>

(* execWaitFlag: nothing to drain towards, so the core parks.              *)
WaitBlocks(k) ==
  /\ status = "Runnable"
  /\ flagSem[k] <= 0 /\ ~HasToken(k)
  /\ status' = "BlockedOnFlag" /\ blockedOn' = {k}
  /\ UNCHANGED <<inOrder, count, issued, retired, flagSem, waits, missing, mem,
                 prog, stale, owed, capWarned>>

(* execPipeBarrier on one pipe, which is also what sync_block_set does to  *)
(* its tpipe; on all pipes it is PIPE_ALL, sync_block, sync_block_lock and *)
(* sync_block_unlock.                                                      *)
PipeBarrier(P) ==
  /\ status = "Runnable"
  /\ Drain(UpToEnd(P))
  /\ flagSem' = DrainedFlags(UpToEnd(P))
  /\ UNCHANGED <<inOrder, count, issued, waits, missing, prog, capWarned, status,
                 blockedOn>>

(* execReturn of the kernel entry.                                         *)
Return ==
  /\ status = "Runnable"
  /\ Drain(UpToEnd(Pipe))
  /\ flagSem' = DrainedFlags(UpToEnd(Pipe))
  /\ status' = "Done"
  /\ UNCHANGED <<inOrder, count, issued, waits, missing, prog, capWarned, blockedOn>>

Next ==
  \/ \E ins \in Instr : IssueInOrder(ins) \/ IssueDeferred(ins) \/ IssueNow(ins)
  \/ \E k \in Key : SetFlag(k) \/ WaitRaised(k) \/ WaitDrains(k) \/ WaitBlocks(k)
  \/ \E P \in {{p} : p \in Pipe} \cup {Pipe} : PipeBarrier(P)
  \/ Return

Spec == Init /\ [][Next]_vars

-----------------------------------------------------------------------------
Entry ==
  [kind : {"effect"}, op : STRING, reads : SUBSET ByteRange, writes : SUBSET ByteRange,
   raw : BOOLEAN, id : Nat, expect : [Byte -> Nat]]
  \cup [kind : {"marker"}, op : STRING, reads : SUBSET ByteRange,
        writes : SUBSET ByteRange, raw : BOOLEAN]
  \cup [kind : {"token"}, key : Key]

(* The semaphores count from zero up: --flagSem[key] in decFlag is never   *)
(* reached at zero.  The cursors stay inside their logs.                   *)
TypeOK ==
  /\ inOrder \in BOOLEAN
  /\ count \in Nat
  /\ issued \in [Pipe -> Seq(Entry)]
  /\ retired \in [Pipe -> Nat] /\ \A p \in Pipe : retired[p] <= Len(issued[p])
  /\ flagSem \in [Key -> Nat]
  /\ waits \in [Key -> Nat]
  /\ missing \subseteq STRING \X STRING
  /\ mem \in [Byte -> Nat] /\ prog \in [Byte -> Nat]
  /\ stale \in BOOLEAN
  /\ owed \subseteq [pipe : Pipe, seg : Nat, op : STRING, raw : BOOLEAN,
                     write : BOOLEAN, byte : Byte]
  /\ capWarned \in BOOLEAN
  /\ status \in {"Runnable", "BlockedOnFlag", "Done"}
  /\ blockedOn \subseteq Key

(* Every set whose token was reached has raised its flag exactly once and  *)
(* every wait has taken one raise, whichever drain popped the token: a     *)
(* wait on another flag, a barrier, a direct access or the return.         *)
FlagConservation ==
  \A k \in Key :
     flagSem[k] + waits[k] = Cardinality(TokensUpTo(k, retired[k.set]))

(* A wait_flag that got through was paid for by a set_flag issued before   *)
(* every effect still queued on the setting pipe: the n-th wait never      *)
(* passes while an effect issued before the n-th set is outstanding.       *)
FlagOrder ==
  \A k \in Key : \A i \in InFlight(k.set) :
     issued[k.set][i].kind = "effect" => waits[k] <= Cardinality(TokensUpTo(k, i))

(* A core parks on a flag only when every set of it has been consumed, so  *)
(* that nothing it has issued itself could ever release it.                *)
ParksOnlyWhenUnset ==
  \A k \in blockedOn :
     waits[k] = Cardinality(TokensUpTo(k, Len(issued[k.set])))

(* What makes the lazy commit order a sound test: as long as no MISSING    *)
(* SYNC was reported, every operation has read what program order gives    *)
(* it, and the kernel leaves the memory program order leaves.              *)
LazyMatchesProgramOrder ==
  CheckSync /\ missing = {} =>
     /\ ~stale
     /\ status = "Done" => mem = prog

(* Coalescing, segment boundaries and partial drains neither lose an       *)
(* ordering a scalar access owes nor invent one over bytes nobody touched; *)
(* only the cap may lose some.                                             *)
MarkerOwings ==
  UNION {Owings(x[1], SegmentOf(x[1], x[2]), At(x)) :
           x \in {y \in UNION {{p} \X InFlight(p) : p \in Pipe} : At(y).kind = "marker"}}

MarkersExact == /\ MarkerOwings \subseteq owed
                /\ ~capWarned => owed \subseteq MarkerOwings
=============================================================================
