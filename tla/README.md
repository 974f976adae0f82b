# NPUIR-Interpreter in TLA+

A verification project for the HIVM (NPU IR) interpreter in `src/`: TLA+
modules of its execution engine, TLC configurations that check them on small
launches, and TLAPS proofs for launches of every size.  Paths such as
`lib/OpsSync.cpp:348` are relative to `src/`.

## 1. Inventory of the system

The interpreter executes one kernel launch in one thread.  Each hardware core
is a green thread: `Interpreter::run` picks a runnable core and executes one
operation of it (`Interpreter::step`), or up to eight under `--sched=fuzz`.
Nothing is preempted inside an operation; everything hard comes from the order
of turns, from effects a core has issued but not committed, and from the
synchronisation state cores share.

| Component | State | Operations | Talks to |
|---|---|---|---|
| Scheduler (`lib/Interpreter.cpp` 1250-1357, 1400-1521) | status and `blockedOn` of each core, round-robin cursor, progress counter | `pickCore`, turn, retry, `detectDeadlock`, end of run | every operation (blocks, advances or fails a core) |
| Cross-core synchronisation (`lib/OpsSync.cpp` 140-460) | `CrossFlagState` (three counting disciplines), `BarrierState`, lock variables and lock clocks | `sync_block_set/wait`, `sync_block`, `sync_block_lock/unlock`, `free_lock_var` | wakes cores; flushes pipes; joins clocks |
| Pipe engine (`lib/PipeEngine.cpp`, `Interpreter.cpp` 431-669, `OpsSync.cpp` 62-140) | seven queues of effects, tokens and resident markers per core; flag semaphores | issue, flush, flush to a token, coalesce, `set_flag`, `wait_flag`, `pipe_barrier`, hazard check | commits effects into arenas and shadow memory |
| Shadow memory (`lib/Memory.cpp` 55-159) | interval map of last write and reads per core | `access`, `invalidate` | called by every commit and by deallocation |
| Vector clocks (`lib/Memory.cpp` 26-42 and every sync operation) | a clock per core, flag, barrier and lock | tick, join, publish | stamp effects, decide races |
| Arenas and allocation sites (`lib/Memory.cpp` 160-254, `Interpreter.cpp` 255-360) | bump pointer, allocations, bytes, the cache of sites | allocate, deallocate, poison, bounds | all memory operations |
| Launch set-up (`Interpreter.cpp` 904-1205) | topology, argument buffers | `setupCores`, `materializeGlobalArgs` | scheduler, arenas |
| Control flow (`lib/OpsCommunity.cpp` 226-660, `Interpreter.cpp` 1205-1250) | call stack, regions, loop state, environment | `call`, `return`, `scf.*`, `cf.*`, `yield`, scalar arithmetic | the program counter of a core |
| Views (`include/.../Value.h`, `lib/OpsCommunity.cpp` 790-1000, `OpsMemory.cpp` 500-629) | none of their own | `subview`, casts, reshapes, `pointer_cast`, byte ranges | every operation on memory |
| Data operations (`lib/Ops{Memory,Indirect,Vector,Elementwise,Shape}.cpp`, `OpUtils`) | none of their own | compute values and byte ranges | pipe engine |
| Macro operations (`lib/OpsMisc.cpp` 334-639) | staged tiles, internal flags | `mmadL1` in two halves | pipe engine |
| Debug recorder (`lib/Debug.cpp`, `tools/debug-ui/app.js`) | copy of what was recorded, ranges reported, the session | record a state, replay to a state | told by commits and allocations |
| Driver, web server, debug UI (`tools/`) | one request | parse options, run, report | around the interpreter |

What is hard, and what makes each component correct:

* **Wake-ups.** A core parks in one turn and is woken by the turn of another,
  through three different release paths with three ways to find the waiters.
  Correct: nobody stays parked who could go.  `run()` also retries everybody
  after any progress; a correct kernel must never need that, and a deadlock
  verdict must be the program's own.
* **Flag disciplines.** One `CrossFlagState` serves a broadcast (cube to
  vector), an aggregate (vector to cube) and a semaphore (launches of one
  kind).  Correct: no wait takes what was not earned, by its own discipline.
* **Barriers in loops.** A site is re-armed by a generation counter while slow
  participants are still inside.  Correct: each site is a rendezvous.
* **Locks.** Correct: one holder at a time, and in block order.
* **Deferred effects.** Effects of one core complete out of issue order across
  pipes.  Correct: what is never reported as a hazard computes what program
  order computes; a flag is raised exactly when its queue has drained to it.
* **Resident markers.** Scalar accesses leave markers that are merged.
  Correct: a merged marker covers the bytes of its accesses and no others.
* **Interval map.** Partial overlaps split, fill and erase intervals in a map
  under iteration.  Correct: verdicts are those of a map with a history per
  byte.
* **Clocks.** Correct: two accesses are ordered by their clocks exactly when
  the program orders them, and every unordered conflict is reported.
* **Termination.** The retry loop must not feed on itself.
* **Regions and calls.** A terminator pops its region and moves the parent,
  all regions of a call share one environment, a loop overwrites the arguments
  of its body.  Correct: the walk does what the nested program means.
* **Allocation sites.** Storage is never taken back; a site gets the same bytes
  each time.  Correct: sites stay apart, and repetition does not exhaust them.
* **Views and ranges.** Every handler lists by hand the ranges its deferred
  effect touches, through views derived from views.  Correct: the effect stays
  within what was declared, and computes what the operation promises even when
  source and destination are views of one buffer.
* **Staged halves.** The two halves of an `mmadL1` are drained by different
  pipes in either order.  Correct: it multiplies the tiles of program order.
* **Recording by difference.** Only bytes somebody reports are compared.
  Correct: the replay shows each state as it was.

The list with lines is `hazards` in `PROJECT.json`.

## 2. Modules

| Module | Models | Notes |
|---|---|---|
| `PipeEngine` | one core: queues, tokens, markers, flags, hazard check, the in-order and the lazy mode | byte contents are kept as "the operation that wrote it" |
| `PipeEngineProofs`, `OrderProofs` | theorems about it | the second extends the first |
| `Rendezvous` | what a barrier promises its members | abstract |
| `CrossSync` | scheduler, cross-core flags, barriers, locks, deadlock detection | composes all cores of a launch |
| `CrossSyncProofs` | theorems about it | |
| `AccessHistory` | vector-clock order, `ShadowEntry`, the conflict test, what an access leaves behind | operators |
| `ByteShadow` | shadow memory with a history per byte | abstract |
| `ShadowMemory` | the interval map | refines `ByteShadow` |
| `ShadowProofs` | theorems about it | |
| `RaceDetector` | the clocks of cores, flags, barriers and locks, pending effects, commits and reports | composes `CrossSync` and `AccessHistory` |
| `RaceProofs` | theorems about it | extends `CrossSyncProofs` |
| `MemRef` | strided views, their addressing, the view operations, declared ranges | operators |
| `Effects` | committing an effect element by element; small integers and floats | operators |
| `ShapeKernels`, `TransferKernels`, `VectorKernels` | the handlers: shapes and sorts; copies, padding and indirect accesses; elementwise, reductions, scans | operators, each a check at issue, ranges and an effect |
| `KernelSpec` | what each data operation promises | abstract, no loops and no order |
| `Kernels` | a core derives a view, issues an operation on it, commits it | composes the five above |
| `ControlFlow` | call stack, regions, environment, scalar operations, the arena | state machine, one program at a time |
| `FlowProofs` | theorems about it | |
| `FlowMeaning` | what a program means, by structural recursion | abstract |
| `Mmad` | `mmadL1` and its flags | extends `PipeEngine` |
| `MmadProofs` | theorems about it | extends `OrderProofs` |
| `DebugRecorder` | the memory of a debug session and its replay | |
| `RecorderProofs` | a theorem about it | |
| `MC*` | the instances TLC checks | |

### PipeEngine

Each `std::deque<Effect>` is the part of a log not yet popped: `issued[p]` is
everything pushed on pipe `p` (deferred effects, tokens and resident markers),
`retired[p]` how many entries have left it.  `IssueInOrder`, `IssueDeferred`
and `IssueNow` are the three exits of `issueEffectImpl`; `SetFlag`,
`WaitRaised`, `WaitDrains`, `WaitBlocks`, `PipeBarrier` and `Return` the
handlers.  Draining is given by its result: the tokens popped raise their
flags, the effects popped land in the order in which pipes and queues are
drained.  A byte of `mem` holds the identity of the operation that last wrote
it, `prog` what program order would have written, and every effect remembers
what it expects to read, so "computes the same" can be compared; `count`,
`waits`, `prog`, `stale` and `owed` are history.

### CrossSync

A launch is a record: topology (`blockDim`, cube kernel or none,
`subBlockNum`), scheduling mode, and for each core the straight-line sequence
of synchronising operations its kernel unfolds to.  One action per operation
outcome: `SyncBlockWait` / `SyncBlockWaitParks`, `SyncBlockReleased` /
`SyncBlockParks` / `SyncBlockFires`, and so on; `Finish`, `Retry` and
`Deadlock` are the three exits of `run()` when `pickCore` finds nobody.  A
flag id stands for `(tpipe, pipe, id)`, its scope is explicit.  A parked core
re-executes its operation when woken, as in the code.  `arrivals` and
`skipped` are history.  A slice of several operations under fuzz is several
turns of one core; under fuzz nobody reads the cursor, so it is not moved.
An intra-core `wait_flag` that finds nothing parks for good: nobody but the
core itself could raise the flag, which is `ParkingIsFinal`, proved of
`PipeEngine`.  A release of any lock wakes everybody parked on any lock.

### ShadowMemory

`entries` is the `std::map` as a function from interval starts.  The loop of
`access`, which fills gaps as it walks, is given by its result: the intervals
after both splits, plus one per maximal gap, each then touched.  The report is
that of the first interval with a conflict.  `call` remembers the arguments,
so that the refinement compares calls with calls.

### RaceDetector

Each action takes a step of `CrossSync` and adds what the same handler does to
clocks and effects: `Publish` is `SyncBlockSet` with the drain of the flag's
pipe, the tick and the join into the clock of the flag's discipline, and so on;
`Other` are the outcomes that touch neither.  A launch says of every `compute`
operation what it accesses.  The histories are kept per byte, which is what
`ShadowIsAByteMap` justifies, and one byte is enough: bytes do not interact
except that the filter looks at the first conflicting interval of a range
only.  `known`, `pub`, `lanePub`, `mergedKnown` and `lockKnown` are history:
they carry sets of accesses, along exactly the edges the documentation names,
where the code carries clocks; `pub` keeps the sets of a flag by kind, `lanePub`
those of each vector core for the aggregate discipline, and a wait is paired
with the set whose credit it takes.

### Views and data operations

`MemRef` has the record `MemRefValue` with `getByteAddr`, `getByteAddrLinear`
and `collectRanges`, and every operation that makes a view of a view.  A
handler is three operators: what it refuses at issue, the ranges it declares,
and its effect, a fold over the positions in the order of the code that leaves
a memory, an error flag and the places touched.  `Kernels` drives them:
`Derive` binds a view and goes on from it, `Issue` picks an operation with its
operands among such views, often one buffer, `Commit` runs the effect.
`elements` is history: the addresses the view *means*, carried along the
chain without offsets or strides.  `KernelSpec` states each operation as a
relation of the memory before and after, a scan as a total over a box of
indices, a sort as a stable rearrangement.  An integer has four bits; a float
is an integer, NaN or minus zero, without rounding, which would be the same on
both sides; a byte address stands for the element that starts there.

### ControlFlow

A program is a sequence of blocks; an operation is known by its place.
`stack` is `callStack`: frames with one environment and a stack of regions,
each with its position, its owner and the state of its loop.  One action per
handler: `For`, `If`, `While`, `Condition`, the three kinds of `Yield`,
`Call`, `Return`, `Branch` and so on, and the scalar operations; each ends in
`advanceIp` as the code does.  `Alloc` is `allocateMemRef` with its cache.
`FlowMeaning` evaluates the program by structure: regions inside the scope
that encloses them, iterations counted beforehand, a buffer of its own for
every execution of an alloc.  The two are compared by what they load and store
and how they end.  This is what the straight-line programs of `CrossSync` and
the unrelated operations of `PipeEngine` rest on.

### Mmad

`Mmad` adds to the engine an operation with up to seven flag slots, `MmadQueues`
(flags taken, two halves and the tokens between them queued), `MmadInOrder`,
and `MmadParks`, after which it is tried again.  Which flags a wait for all of
them lowers, and which it drains for, are `Taken` and `DrainedFor`.
`captured` is `MmadStaging::staged`; tiles are compared, as bytes are in
`PipeEngine`, by the operation that wrote them.

### DebugRecorder

A turn of the interpreter (effects drained, an allocation, a lock released) and
the `recordStep` after it are one action; the turns of other blocks leave what
they reported pending.  `RecordState` is the memory part of `recordState`:
dirty bytes, comparison, patches cut to length, copy.  `Seek` is
`replayMemory`, forwards or from the start.  `truth` and `unreported` are
history.

## 3. Runs

| Run | Bounds | Shows |
|---|---|---|
| `pipe_engine` (685 341 states) | 3 pipes, 4 bytes, 4 issued operations, look-back 2 (8 in the code), at most 3 markers per pipe (4096), 3 flags | flags are conserved, raised in queue order, a park is never premature; hazard-free lazy runs equal program order; markers are exact |
| `cross_sync` (127 324) | all short programs on four topologies: cube and two vector lanes; two blocks of cube and vector; 2x2 vector lanes with per-block barriers; three blocks with locks, failing and never-released cores | complete wake-ups, genuine deadlock verdicts whose diagnosis fits, round robin, barrier sites implement `Rendezvous`, mutual exclusion of blocks, every run ends |
| `shadow_memory` (220 679) | all sequences of 4 calls on all ranges of 3 bytes, 2 cores, 3 records of which one pair is ordered | interval map well formed, implements `ByteShadow`, one read per core |
| `race_detector` (251 715) | 2 and 3 cores, one byte, 2 pipes, accesses around one or two synchronisations each: flags of the three disciplines, barriers, locks, a chain of two flags, a flag set while an effect waits on another pipe, a flag used twice with an answer between, all three classes of access | reports are races, races are reported, clocks are the happens-before relation |
| `kernels` (45 304) | 8 bindings, chains of up to 2 of the view operations, every data operation the view fits, at most 4 ranges (1024), 4-bit integers | views keep their elements, declared ranges are exact and contain what is touched, results meet `KernelSpec` |
| `core` (15 172) | every nest of three loops, branches, switches, graphs and calls, 29 small programs; 12 bytes, 500 steps | the walk means what the program says, popped regions return to their owners, allocation sites stay apart and do not exhaust |
| `mmad` (232 509) | 4 pipes, 2 bytes, 3 mmads with different slots, 4 operations | flags of an mmad balance and order like the others, tiles are those of program order, a park takes nothing |
| `debug_recorder` (1 465 578) | 2 blocks with an arena each and a shared one of 3 bytes, patches of 2 bytes (4096), 3 turns, filters by block, by a name nobody has and none | every state is replayed as it was, forwards and back |
| `indirect_folds`, `one_element_tail`, `alloc_sites`, `any_address` | violation | findings 1 to 4 |

Why the bounds are enough to meet the interesting cases: a barrier is used
twice (re-arming), a flag is set twice before it is waited on (counting), a
lock goes round past the last block (wrap), a token has effects on both sides
in its queue, a marker lies beyond the look-back and at the cap, a range cuts
one interval, spans a gap and swallows another; a view is a slice of a slice
with its own offset and stride, of one element and of none, and meets itself as
the destination; a loop of zero, one and several iterations stands in the body
of another and in a callee called twice; the halves of two mmads are queued
together; a run of changed bytes is longer than a patch, and a turn of another
block lies between two recorded ones.  The launches of `race_detector` leave
out a second set before the first wait, an atomic after a plain access of its
core (both under "limits of the code" in section 5), and two accesses of a
core to one byte that commit out of turn, except before a barrier (a hazard
listed without a property: the older commit replaces the newer record).  The requests of `kernels` leave out the
two of its findings, and the programs of `core` the buffers carried round a
loop.  For the safety properties with a theorem the bound is immaterial.

Fairness: `FairSpec` is `WF_vars(Next)`.  `run()` is a loop that takes a turn
whenever there is one to take and ends otherwise; no fairness between cores is
assumed, because under fuzz `pickCore` gives none.  `CHECK_DEADLOCK FALSE`:
runs end, programs and sessions have a last operation.

## 4. Theorems

All for every value of the constants: any number of pipes, flags and bytes,
any program over them, any launch, schedule and sequence of calls.

**`PipeEngineProofs`**: `TypeCorrect`, `FlagsConserved`, `WaitsAreOrdered`,
`ParkingIsFinal`.  The inductive invariant `IInv` adds to the checked ones the
bookkeeping of tokens: every set not yet raised is a token in its own queue, in
order.  Alone, `FlagConservation` is not inductive: a drain moves many tokens
at once, and what it raises must be what the queue lost.

**`OrderProofs`**: `LazyOrderIsSound` (`LazyMatchesProgramOrder`) and
`MarkersAreExact` (`MarkersExact`).
The first speaks of commits, which happen long after the hazard check at issue
has let an effect in.  `OrderInv` therefore says of every state without a
report what would happen if all queues were drained now: no two effects that
wait on different pipes conflict (`NoOvertaking`: the check at issue would have
reported the second), so each waiting effect will find the bytes it expects
(`FindsExpected`), and memory will be what program order leaves
(`LeadsToProg`).  A drain pops a prefix of some queues; `Landed`, what a set of
positions leaves in memory, is cut along it.
The second compares the markers queued with `owed`, the accesses they stand
for.  A merge must give a marker the ranges of both accesses and no gap or
overlap between them, and must not carry an access across a token, or it
would fall in another segment.

**`CrossSyncProofs`**: `TypeCorrect`, `WakeupsAreComplete` (`NoLostWakeup`).
Strengthened by `ParkInv`: where a parked core stands in its program agrees
with its status and key, which ties the waker's key to the waiter.
Then `SitesAreRendezvous` (`SitesImplementRendezvous`), whose invariant counts:
the arrivals of a member are its generation, or one more while it is listed as
arrived, and members are at most one generation behind the site.

The same module, of the scheduler: `EverybodyGetsATurn` (`RoundRobinFair`),
`DeadlocksAreGenuine` (`GenuineDeadlock`), `DiagnosesFit` (`DiagnosisFits`),
`LocksExclude` (`LockExcludes`).
For the first, `FairInv` adds the distance of the cursor: the turns a core has
been passed over and the places the cursor has still to move to it make less
than a round, and every turn that passes it over shortens the distance.  For
the second, `CountInv` ties each counter of a cross-core flag to the operations
executed, by the discipline of the launch (broadcast generation, aggregate
counts, semaphore), and `LockInv` a lock variable to the unlocks; the verdict is
then read off the programs and not off the counters `detectDeadlock` looks at.
For the third, `ThereInv` says that a core stays at the barrier it has arrived
at until that fires, and `AwayInv` that who has ended stands at none: once
nobody is runnable, the sets of arrivals `detectDeadlock` reads are exactly the
cores parked, and the counting of the sites says who is behind.
For the last, `ExclusionInv` says that a core stands inside a section exactly
when its locks outnumber its unlocks, and that the variable then holds its
block.

**`ShadowProofs`**: `TypeCorrect`, `IntervalsStayApart` (`Disjoint`),
`ShadowIsAByteMap` (`ImplementsBytes`), `OneReadEach` (`OneReadPerCore`).
Splitting and filling keep the map well formed and each byte's history; after
them each byte of the range lies in an interval of the range, so recording per
interval is recording per byte and the first conflicting interval starts at the
first conflicting byte.

**`RaceProofs`**: `RaceTypesHold` (`RaceTypeOK`) and `ReportsAreGenuine`
(`ReportsAreRaces`): no report is false.  The property compares a report with
happens-before, computed from the sets of accesses the edges of the program
carry; the code compares clocks.  `RaceInv` has three parts.  `Books`: wherever
knowledge is kept (a core, the sets published on a flag, a barrier, a lock) the
clock there is past every access known there.  This is where the disciplines
matter: one clock per flag joins all sets and a wait is paired with one of
them, so the invariant holds the clock past *every* set published, and the
counters show that the set paired with exists.  `LogInv`: the same at the moment
of each access.  `MemoryInv`: every history and every effect still queued is an
access of the log, and what was reported clashes and is unordered; so a commit
at any later time compares stamps of the log only.  The positions executed
bound all knowledge, which is why a new access is past nobody's clock.  TLC
agrees with `RaceInv` on the launches of `race_detector`.
`ClocksArePrecise` (`ClocksOrderNothingElse`) is the converse: clocks order no
two accesses that nothing else orders.  Its invariant, `PreciseInv`, reads the
`Books` backwards.  Wherever a clock is kept, an access whose stamp it is past is
one known there; the same for the clock of every access of the log; and the
component a core keeps for itself exceeds everybody else's of that core, so a new
access is past no clock kept elsewhere.  The premise `OneSetAtATime` enters at a
wait only: the clock of the flag joins all sets, and the wait learns one of
them; they are the same when the set taken is the last, and knows what the
earlier ones of its lanes published.
`RacesAreFound` (`RacesAreReported`): under that premise and two more no race is
missed, so reports and races are the same.  `FoundInv` says of a byte without a
report that its entry stands for all the accesses committed to it: each is
before the last write or, if a read, before a read that is kept; and those that
clash have ordered clocks (`Store`).  A commit keeps it because it comes in
line: nothing committed is later than it, for accesses of its core because they
commit in turn, for those of another core because an access whose effect still
waits is a secret of its core (`SecretInv`).  Nobody else knows it, and neither
does a flag, a barrier or a lock, as every handler that publishes drains first;
hence no clock but its core's is past it.  A run that finishes has nothing
waiting (`ReturnInv`), so the entries stand for the whole log, and two accesses
that clash without a report have ordered clocks; `LogExact` of `PreciseInv`
turns that into happens-before.

**`RecorderProofs`**: `ReplayIsFaithful` (`ReplayShowsMemory`), for arenas,
patches and histories of any length.  The lemmas on `PatchesOf` say that cutting
runs of changed bytes covers them and nothing else; the rest follows one byte.
Three clauses make the invariant: each recorded state is what the last patches
to cover a byte say of it (`ArchiveInv`); so is the recorder's copy (`CopyInv`);
and the copy differs from the arena only where something was reported, or done
silently, since the last recorded state (`PendingInv`).  The last is what a turn
must keep, of a core that is recorded or not, and why fresh storage need not be
reported: it lies beyond the copy.  `View` then says of the viewer, at any state
it is at, what `ArchiveInv` says of the archive, so moving forwards from there
and starting again agree.

**`FlowProofs`**: `ParentsStandOnOwners` (`NestedOnOwners`) and `SitesStayApart`
(`SitesApart`), for programs that are not verified IR too: nothing is assumed of
the operations.  For the first, `NestInv` has the nesting of all frames and a
frame wherever the core runs; the lemmas say what each primitive of the stack
(`pushRegion`, `popRegion`, `advanceIp`, `pushCall`, `popCall`) does to a frame
whose regions stand on their owners, and every handler is a composition of
these.  A branch replaces the region it is in by one of the same owner, which is
why it may do so in the body of a function.  For the second, `SiteInv` keeps the
records a sequence in order below the high-water mark, dead or alive.

**`MmadProofs`**: `MmadTypeCorrect` (`MmadTypeOK`), `MmadFlagsConserved`
(`FlagConservation`, `FlagOrder`), `MmadParksEmptyHanded` (`ParksEmptyHanded`),
`MmadTilesAreRight` (`TilesMatchProgramOrder`) and `MmadOrderIsSound`
(`LazyMatchesProgramOrder`): what is proved of the engine survives an operation
that takes four flags, queues effects on two pipes and raises four flags, and
that operation multiplies the right tiles.  `FlagInv` is the bookkeeping: one
look at what every flag can be drained to is enough for taking all of them,
because `Cut` is monotone and nothing else lowers a flag in between.  `TileInv`
adds `OrderInv` of the engine and, for the copies, `CopyInv`: where the halves
are (`HalvesPlaced`), that no effect on MTE1 writes a tile (`TilesSpared`), that
an operation has one effect per pipe (`IdsOnce`), and that an mmad of which a
half was popped holds its copy (`Held`).  None of the four can be left out: the
copy is right because its half on MTE1 still waits (`Held`), is the only entry
`Staging` can mean (`IdsOnce`), and no writer of its bytes waits ahead of it
(`TilesSpared` on its own pipe, `NoOvertaking` on the others), so memory holds
what that half expects (`FindsExpected`).

Assumptions on the constants, each named and evaluated by TLC in a run:

* `InstrAssumption` of `PipeEngine`: deferred effects are not on the scalar
  pipe, resident markers are and only they are raw (`issueResidentAccess` is
  always called with `Pipe::S`, and `load_scalar`, `llvm.load`, `llvm.store` are
  the raw accesses), and an operation has one pipe.
* `MacroAssumption`, `MacroKeyAssumption` and `TilesAssumption` of `Mmad`: the
  pipes of an mmad are three asynchronous ones, no other operation has its name,
  `Key` lists every flag in use; its tiles lie in L1 and accumulators in L0C, and
  the other operation on MTE1 moves data out of L1
  (`lib/OpsMemory.cpp:614`).  Without the last, TLC refutes
  `TilesMatchProgramOrder`: an effect on MTE1 could refill a tile behind the
  staging half of the same pipe, and draining M alone would copy before it.
* `ArenaAssumption` and `WidthAssumption` of `ControlFlow`: an arena has a
  capacity and an alignment of at least 1; integers have a whole number of bits.
* `RecorderAssumption` of `DebugRecorder`: the arguments and the lock lie in the
  arena of the launch, patches have a length.
* `AccessAssumption` and `NoneAssumption` of `RaceDetector`: pipes are numbered,
  and each `compute` operation of a launch has an access; the value that says a
  byte has no last write is not a record.

Premises on the launch, stated in the theorem:

* `NoStrangers` (`SitesAreRendezvous`, `DeadlocksAreGenuine`, `DiagnosesFit`):
  every core that executes a barrier is a participant of it.  Without it they
  are false: `lib/OpsSync.cpp:348` counts every core that arrives.
* `LockDiscipline` (`LocksExclude`): a core brackets its lock and unlock, and
  one core of a block uses a variable.  Without it the property is not what
  the code offers: see the lanes in section 5.
* `OneSetAtATime` (`ClocksArePrecise`, `RacesAreFound`), of the behaviour: a core
  that is about to take a set of a flag finds no second one published, and who
  sets a flag knows what those who set it before knew.  Without it the properties
  are false: `lib/OpsSync.cpp:186` accumulates every set in one clock per flag,
  and the wait is ordered after all of them.

* `CommitsInTurn` (`RacesAreFound`), of the behaviour: when a core issues an
  access, no effect on the same byte waits on another of its pipes, and when it
  sets a flag nothing waits on a pipe the set does not drain.  Without the first
  the commit of the older access replaces the record of the newer
  (`lib/Memory.cpp:131`).  Without the second the set publishes the stamp of an
  effect that has yet to commit (`lib/OpsSync.cpp:174`): TLC refutes the
  property where one core writes on the pipe of its second flag and sets both,
  and two others each wait for one and write; the late commit replaces the
  record of the second core's write.
* `OneClassEach` (`RacesAreFound`), of the behaviour: the accesses to a byte are
  all plain, all atomic or all raw.  Without it an exempt pair hides a plain one
  (`lib/Interpreter.cpp:445`, section 5).

Every launch `cross_sync` checks satisfies the first two.  `OneSetAtATime` holds
of every behaviour of every launch of `race_detector` (TLC agrees), and 242 259 of
its 251 715 states are reached by behaviours that satisfy the last two as well;
of the others, two thirds set a flag while an effect waits on another pipe, most
of the rest access the byte while an older access to it waits on another pipe,
and a few access it in two ways.

Only model-checked, and why:

* `RacesAreReported` outside the premises of `RacesAreFound`, where it does not
  hold of every launch: that it does of those of `race_detector` that set a flag
  with an effect waiting, or mix the classes of access, is a statement about
  these launches.
* `Terminates`, and all liveness: ENABLED is beyond the proof system.
* `Kernels`, `FlowMeaning` and what `ControlFlow` means: induction over data and
  RECURSIVE operators are beyond it too; `TransferKernels` uses `Bitwise`.
* The type invariants of `ControlFlow` and `Kernels`: the first holds of
  programs as the IR verifier leaves them, which the model does not define; the
  second is of a module that reaches `Bitwise`.

## 5. Findings

Each is a run TLC refutes, by what the code does.

1. `indirect_folds`: `indirect_load` and its kin hand their offset to an
   addressing that takes it modulo every extent (`lib/OpsIndirect.cpp:153`), so
   an offset past the source is answered with another of its elements.
   `docs/Architecture.md:383` says it is always an error.
2. `one_element_tail`: `lib/OpsMemory.cpp:68` takes a source extent of one for
   a broadcast before it tests the range, so a padded load of a one-element row
   repeats the element.  The comment at line 38 says positions outside the
   source get the pad value.
3. `alloc_sites`: `lib/Interpreter.cpp:263` hands the same storage back at every
   execution of a site, and a buffer carried by `iter_args` into the next
   iteration is then overwritten.  `docs/Architecture.md:410` says two buffers
   of one alloc cannot be live at once.
4. `any_address`: `lib/Debug.cpp:551` compares bytes below the high-water mark
   only, which `pointer_cast` does not move, and `releaseLock`
   (`lib/OpsSync.cpp:441`) does not tell the recorder of its store.
   `docs/Debugger_zh.md:76` says any address can be rebuilt at any step.

Limits of the code met while modelling, not stated as runs:

* A core that is no participant of a barrier's mode is counted as an arrival
  (`lib/OpsSync.cpp:348`): two cubes do not meet if a vector core executes
  `sync_block[ALL_CUBE]`.
* The lanes of a block hold a lock together, and the first unlock admits the
  next block (`lib/OpsSync.cpp:409`).
* `detectDeadlock` lists the participants core 0 would have, whatever block the
  barrier's key names (`lib/Interpreter.cpp:1302`); `DiagnosisFits` leaves out
  the sites of other blocks, where it names cores that have no part in them.
* A participant that has returned is reported as one that "never reached" the
  barrier (`lib/Interpreter.cpp:1323`), even if it met the others there before.
* An alloc executed again poisons its bytes and forgets their history at once
  (`lib/Interpreter.cpp:275`), while effects on them may wait in a pipe, and no
  hazard check sees it.  `PipeEngine` has no such step, so `LazyMatchesProgramOrder`
  is about programs whose sites do not execute again while effects wait.
* One clock per flag accumulates every set (`lib/OpsSync.cpp:186`), so with two
  sets before the first wait an access between them is ordered before what
  follows the first wait, and a race is missed on schedules on which the
  producer runs ahead.
* A pair of atomics is exempt (`lib/Interpreter.cpp:445`), and the atomic of a
  core has replaced its plain write in the history, so that write is not
  reported against an unordered atomic of another core.

## 6. Plan

All of it is done: the engine, the synchronisation of cores, shadow memory,
clocks, views and data operations, control flow with allocation sites, macro
operations, the memory of debug sessions, and their proofs.  What would come
next is the types of `ControlFlow` for programs whose operations have as many
results as values.

## 7. Not modelled

* Launch set-up (`setupCores`, `materializeGlobalArgs`): it runs once, alone,
  before the first turn; its result is the set of initial states.
* Value conversions and float formats (`lib/Value.cpp`): the floating-point
  library does them; a model with formats of a few bits would state the
  library's definition again.
* Npy files, option parsing, dialect registration, report wording, the web
  server and the rest of the debug UI: input, output and display.
* Inside modelled components: the step limit and `checkDeadlock=off` of the
  scheduler; `create_sync_block_lock` (an allocation) and raw stores to a lock
  variable; the clocks carried by tokens, which never leave their core; the
  exemption of lockstep lanes and the option that reports races of raw
  pointers; transcendental kernels, the shifts of vectors, `vpow`, `vldexp`;
  `--no-poison`, the widening of an alloc with a strided layout, and the arenas
  lanes share (one core walks alone in `ControlFlow`); the control state
  repeated in a session.
* A scalar access is bounds-checked against the arena only, as in the code.
