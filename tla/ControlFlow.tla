----------------------------- MODULE ControlFlow -----------------------------
(***************************************************************************)
(* How one core walks through a kernel: the call stack, the regions nested *)
(* in a frame, the environment, and the storage of memref.alloc.           *)
(*                                                                         *)
(* A program is a sequence of blocks, an operation is known by its place   *)
(* <<block, position>> and is a record whose field kind names its handler; *)
(* operands and results are names of SSA values.  A frame has one          *)
(* environment for all of its regions.  A region remembers the place of    *)
(* the operation that opened it: popping the region binds the results of   *)
(* that operation and moves the parent past it, so the parent must still   *)
(* stand on it.                                                            *)
(***************************************************************************)
EXTENDS Integers, Sequences, FiniteSets

CONSTANTS
  Programs,     \* what may be launched: [blocks |-> ..., args |-> values of block 1]
  Capacity,     \* bytes of the core's arena
  Align,        \* alignment of an allocation
  Poison,       \* what a byte of a fresh buffer reads as
  Half,         \* integers are those of -Half..Half - 1 and wrap
  MaxSteps      \* --max-steps

ASSUME ArenaAssumption == Capacity \in Nat /\ Align \in Nat \ {0}
ASSUME WidthAssumption == Half \in Nat \ {0} /\ \E w \in 0..Half : Half = 2^w
ASSUME StepsAssumption == MaxSteps \in Nat

VARIABLES
  program,      \* which program runs
  stack,        \* callStack: a frame is [callOp, env, regions]
  status,       \* "running", "done", "error" or "limit"
  steps,        \* totalSteps
  top,          \* bumpTop
  records,      \* allocs: [lo, hi, site, live]
  cache,        \* allocCache: the buffer each site owns
  cells,        \* the bytes of the arena
  log           \* the values loaded and stored so far (history)

flow == <<program, stack, status, steps>>
arena == <<top, records, cache, cells>>
vars == <<flow, arena, log>>

Blocks == Programs[program].blocks
Op(place) == Blocks[place[1]].ops[place[2]]

----------------------------------------------------------------------------
(* Values *)

None == [tag |-> "none"]
IntValue(n) == [tag |-> "int", n |-> n]
Buffer(site, lo, size) == [tag |-> "memref", site |-> site, lo |-> lo, size |-> size]

IsInt(v) == v.tag = "int"
IsMemRef(v) == v.tag = "memref"
Taken(v) == v.n # 0

Wrap(n) == ((n + Half) % (2 * Half)) - Half
Unsigned(n) == n % (2 * Half)

----------------------------------------------------------------------------
(* The environment and the stack *)

NamesIn(names) == {names[k] : k \in DOMAIN names}

\* SSA names are distinct, so each is bound once.
Extended(env, names, values) ==
  [x \in DOMAIN env \cup NamesIn(names) |->
     IF x \in NamesIn(names) THEN values[CHOOSE k \in DOMAIN names : names[k] = x] ELSE env[x]]

ButLast(s) == SubSeq(s, 1, Len(s) - 1)
Last(s) == s[Len(s)]

MakeFrame(callOp, env, regions) == [callOp |-> callOp, env |-> env, regions |-> regions]
WithRegions(f, regions) == MakeFrame(f.callOp, f.env, regions)
Bind(f, names, values) == MakeFrame(f.callOp, Extended(f.env, names, values), f.regions)

NoLoop == [kind |-> "none", iv |-> 0, ub |-> 0, step |-> 1]
MakeRegion(owner, block, ip, loop) == [owner |-> owner, block |-> block, ip |-> ip, loop |-> loop]
MovedTo(r, ip) == MakeRegion(r.owner, r.block, ip, r.loop)

PushRegion(f, region) == WithRegions(f, Append(f.regions, region))
PopRegion(f) == WithRegions(f, ButLast(f.regions))
AdvanceIp(f) ==
  WithRegions(f, Append(ButLast(f.regions), MovedTo(Last(f.regions), Last(f.regions).ip + 1)))

Frame == Last(stack)
Region == Last(Frame.regions)
Here == <<Region.block, Region.ip>>
RanOff == Region.ip > Len(Blocks[Region.block].ops)
CurrentOp == Op(Here)

Get(x) == IF x \in DOMAIN Frame.env THEN Frame.env[x] ELSE None
Gather(names) == [k \in DOMAIN names |-> Get(names[k])]

\* A region of the operation executing: its block's arguments are bound to values.
Enter(f, owner, block, loop, values) ==
  Bind(PushRegion(f, MakeRegion(owner, block, 1, loop)), Blocks[block].args, values)

NoPlace == <<0, 0>>
NewFrame(callOp, block, values) ==
  Bind(MakeFrame(callOp, [x \in {} |-> None], <<MakeRegion(NoPlace, block, 1, NoLoop)>>),
       Blocks[block].args, values)

Init ==
  /\ program \in DOMAIN Programs
  /\ stack = <<NewFrame(NoPlace, 1, Programs[program].args)>>
  /\ status = "running" /\ steps = 0 /\ top = 0
  /\ records = <<>> /\ log = <<>>
  /\ cache = [s \in {} |-> None]
  /\ cells = [b \in 0..Capacity - 1 |-> Poison]

----------------------------------------------------------------------------
(* A step: the scheduler counts it, looks the operation up and runs its    *)
(* handler.                                                                *)

Counted ==
  /\ status = "running" /\ steps < MaxSteps
  /\ steps' = steps + 1
  /\ UNCHANGED program

Executes(kind) == Counted /\ ~RanOff /\ CurrentOp.kind = kind

\* A terminator of a region of an operation: the verifier of the IR keeps those out of the
\* blocks of a function.
Ends(kind) == Executes(kind) /\ Len(Frame.regions) > 1

Continue(f) == stack' = Append(ButLast(stack), f) /\ UNCHANGED status
Advance(f) == Continue(AdvanceIp(f))
Fail == status' = "error" /\ UNCHANGED stack

Computing == UNCHANGED <<arena, log>>

\* The step budget of the whole run is used up.
StepLimit ==
  /\ status = "running" /\ steps = MaxSteps
  /\ status' = "limit"
  /\ UNCHANGED <<program, stack, steps, arena, log>>

\* Malformed or unsupported input
RunsOff == Counted /\ RanOff /\ Fail /\ Computing
Unsupported == Executes("unsupported") /\ Fail /\ Computing

----------------------------------------------------------------------------
(* Scalars *)

Abs(n) == IF n < 0 THEN -n ELSE n
Divided(a, b) == IF (a < 0) = (b < 0) THEN Abs(a) \div Abs(b) ELSE -(Abs(a) \div Abs(b))

\* The bits set in n, and the number whose bits are S
Bits(n) == {i \in 0..Half : (Unsigned(n) \div 2^i) % 2 = 1}
OfBits(S) == CHOOSE n \in 0..2 * Half - 1 : Bits(n) = S

\* Mutant: the result keeps more bits than its type has.
MutIntBinary(fn, a, b) ==
  CASE fn = "addi" -> a + b [] fn = "subi" -> a - b [] fn = "muli" -> a * b [] OTHER -> a

IntBinary(fn, a, b) ==
  LET ua == Unsigned(a)
      ub == Unsigned(b)
      exact ==
        CASE fn = "addi" -> a + b
          [] fn = "subi" -> a - b
          [] fn = "muli" -> a * b
          [] fn = "divsi" -> IF b = 0 THEN 0 ELSE Divided(a, b)
          [] fn = "remsi" -> IF b = 0 THEN 0 ELSE a - b * Divided(a, b)
          [] fn = "divui" -> IF b = 0 THEN 0 ELSE ua \div ub
          [] fn = "remui" -> IF b = 0 THEN 0 ELSE ua % ub
          [] fn = "maxsi" -> IF a > b THEN a ELSE b
          [] fn = "minsi" -> IF a < b THEN a ELSE b
          [] fn = "maxui" -> IF ua > ub THEN a ELSE b
          [] fn = "minui" -> IF ua < ub THEN a ELSE b
          [] fn = "andi" -> OfBits(Bits(a) \cap Bits(b))
          [] fn = "ori" -> OfBits(Bits(a) \cup Bits(b))
          [] fn = "xori" -> OfBits((Bits(a) \cup Bits(b)) \ (Bits(a) \cap Bits(b)))
          [] fn = "shli" -> a * 2^ub
          [] fn = "shrsi" -> a \div 2^ub
          [] fn = "shrui" -> ua \div 2^ub
  IN Wrap(exact)

CmpI(predicate, a, b) ==
  CASE predicate = "eq" -> a = b
    [] predicate = "ne" -> a # b
    [] predicate = "slt" -> a < b
    [] predicate = "sle" -> a <= b
    [] predicate = "sgt" -> a > b
    [] predicate = "sge" -> a >= b
    [] predicate = "ult" -> Unsigned(a) < Unsigned(b)
    [] predicate = "ule" -> Unsigned(a) <= Unsigned(b)
    [] predicate = "ugt" -> Unsigned(a) > Unsigned(b)
    [] predicate = "uge" -> Unsigned(a) >= Unsigned(b)

Constant ==
  /\ Executes("constant") /\ Computing
  /\ Advance(Bind(Frame, CurrentOp.results, <<IntValue(CurrentOp.value)>>))

Binary ==
  LET args == Gather(CurrentOp.args)
      result == IntValue(IntBinary(CurrentOp.fn, args[1].n, args[2].n))
  IN /\ Executes("binary") /\ Computing
     /\ IF IsInt(args[1]) /\ IsInt(args[2])
        THEN Advance(Bind(Frame, CurrentOp.results, <<result>>))
        ELSE Fail

Compare ==
  LET args == Gather(CurrentOp.args)
      result == IntValue(IF CmpI(CurrentOp.predicate, args[1].n, args[2].n) THEN 1 ELSE 0)
  IN /\ Executes("cmpi") /\ Computing
     /\ IF IsInt(args[1]) /\ IsInt(args[2])
        THEN Advance(Bind(Frame, CurrentOp.results, <<result>>))
        ELSE Fail

Select ==
  LET args == Gather(CurrentOp.args)
  IN /\ Executes("select") /\ Computing
     /\ IF IsInt(args[1])
        THEN Advance(Bind(Frame, CurrentOp.results, <<args[IF Taken(args[1]) THEN 2 ELSE 3]>>))
        ELSE Fail

----------------------------------------------------------------------------
(* scf *)

\* args = <<lower bound, upper bound, step, initial values...>>
For ==
  LET args == Gather(CurrentOp.args)
      lb == args[1].n
      ub == args[2].n
      step == args[3].n
      inits == SubSeq(args, 4, Len(args))
      zeroTrip == (step > 0 /\ lb >= ub) \/ (step < 0 /\ lb <= ub)
      loop == [kind |-> "for", iv |-> lb, ub |-> ub, step |-> step]
  IN /\ Executes("for") /\ Computing
     /\ IF \E k \in 1..3 : ~IsInt(args[k]) THEN Fail
        ELSE IF step = 0 THEN Fail
        ELSE IF zeroTrip THEN Advance(Bind(Frame, CurrentOp.results, inits))
        ELSE Continue(Enter(Frame, Here, CurrentOp.body, loop, <<IntValue(lb)>> \o inits))

NoBlock == 0

\* Mutant: the position moves past the operation before its region has run.
MutIf ==
  LET cond == Get(CurrentOp.args[1])
      target == IF Taken(cond) THEN CurrentOp.then ELSE CurrentOp.else
  IN /\ Executes("if") /\ Computing
     /\ IF ~IsInt(cond) THEN Fail
        ELSE IF target = NoBlock THEN Advance(Frame)
        ELSE Continue(Enter(AdvanceIp(Frame), Here, target, NoLoop, <<>>))

If ==
  LET cond == Get(CurrentOp.args[1])
      target == IF Taken(cond) THEN CurrentOp.then ELSE CurrentOp.else
  IN /\ Executes("if") /\ Computing
     /\ IF ~IsInt(cond) THEN Fail
        ELSE IF target = NoBlock THEN Advance(Frame)
        ELSE Continue(Enter(Frame, Here, target, NoLoop, <<>>))

Before == [NoLoop EXCEPT !.kind = "before"]
After == [NoLoop EXCEPT !.kind = "after"]

While ==
  /\ Executes("while") /\ Computing
  /\ Continue(Enter(Frame, Here, CurrentOp.before, Before, Gather(CurrentOp.args)))

\* args = <<condition, forwarded values...>>; the owner of the region is the scf.while.
Condition ==
  LET args == Gather(CurrentOp.args)
      forwarded == Tail(args)
      while == Op(Region.owner)
  IN /\ Ends("condition") /\ Computing
     /\ IF ~IsInt(args[1]) THEN Fail
        ELSE IF Taken(args[1])
        THEN Continue(Enter(PopRegion(Frame), Region.owner, while.after, After, forwarded))
        ELSE Advance(Bind(PopRegion(Frame), while.results, forwarded))

\* Mutant: the next iteration starts with the values of this one.
MutYieldFor ==
  LET values == Gather(CurrentOp.args)
      next == [Region.loop EXCEPT !.iv = @ + Region.loop.step]
      more == IF next.step > 0 THEN next.iv < next.ub ELSE next.iv > next.ub
  IN /\ Ends("yield") /\ Region.loop.kind = "for" /\ Computing
     /\ IF more
        THEN Continue(Bind(PushRegion(PopRegion(Frame), MakeRegion(Region.owner, Region.block, 1, next)),
                           SubSeq(Blocks[Region.block].args, 1, 1), <<IntValue(next.iv)>>))
        ELSE Advance(Bind(PopRegion(Frame), Op(Region.owner).results, values))

YieldFor ==
  LET values == Gather(CurrentOp.args)
      next == [Region.loop EXCEPT !.iv = @ + Region.loop.step]
      more == IF next.step > 0 THEN next.iv < next.ub ELSE next.iv > next.ub
  IN /\ Ends("yield") /\ Region.loop.kind = "for" /\ Computing
     /\ IF more
        THEN Continue(Enter(PopRegion(Frame), Region.owner, Region.block, next,
                            <<IntValue(next.iv)>> \o values))
        ELSE Advance(Bind(PopRegion(Frame), Op(Region.owner).results, values))

YieldAfter ==
  /\ Ends("yield") /\ Region.loop.kind = "after" /\ Computing
  /\ Continue(Enter(PopRegion(Frame), Region.owner, Op(Region.owner).before, Before,
                    Gather(CurrentOp.args)))

YieldPlain ==
  /\ Ends("yield") /\ Region.loop.kind \notin {"for", "after"} /\ Computing
  /\ Advance(Bind(PopRegion(Frame), Op(Region.owner).results, Gather(CurrentOp.args)))

\* scf.execute_region and scope.scope
ExecuteRegion ==
  /\ Executes("region") /\ Computing
  /\ Continue(Enter(Frame, Here, CurrentOp.body, NoLoop, <<>>))

\* cases: a sequence of <<value, block>>
IndexSwitch ==
  LET arg == Get(CurrentOp.args[1])
      hits == {k \in DOMAIN CurrentOp.cases : CurrentOp.cases[k][1] = arg.n}
      first == CHOOSE k \in hits : \A j \in hits : k <= j
      target == IF hits = {} THEN CurrentOp.default ELSE CurrentOp.cases[first][2]
  IN /\ Executes("switch") /\ Computing
     /\ IF IsInt(arg) THEN Continue(Enter(Frame, Here, target, NoLoop, <<>>)) ELSE Fail

----------------------------------------------------------------------------
(* cf and func *)

\* All values are read before the first argument is bound.
JumpTo(dest, values) ==
  Continue(Bind(PushRegion(PopRegion(Frame), MakeRegion(Region.owner, dest, 1, Region.loop)),
                Blocks[dest].args, values))

Branch ==
  /\ Executes("br") /\ Computing
  /\ JumpTo(CurrentOp.dest, Gather(CurrentOp.args))

CondBranch ==
  LET cond == Get(CurrentOp.cond)
  IN /\ Executes("cond_br") /\ Computing
     /\ IF ~IsInt(cond) THEN Fail
        ELSE IF Taken(cond) THEN JumpTo(CurrentOp.true, Gather(CurrentOp.trueArgs))
        ELSE JumpTo(CurrentOp.false, Gather(CurrentOp.falseArgs))

\* A function is known by its entry block.
Call ==
  /\ Executes("call") /\ Computing
  /\ stack' = Append(stack, NewFrame(Here, CurrentOp.callee, Gather(CurrentOp.args)))
  /\ UNCHANGED status

Return ==
  LET caller == Last(ButLast(stack))
      bound == Bind(caller, Op(Frame.callOp).results, Gather(CurrentOp.args))
  IN /\ Executes("return") /\ Computing
     /\ IF Len(stack) = 1 THEN stack' = <<>> /\ status' = "done"
        ELSE stack' = Append(ButLast(ButLast(stack)), AdvanceIp(bound)) /\ UNCHANGED status

----------------------------------------------------------------------------
(* Storage *)

\* Mutant: rounded down.
MutAlignUp(n) == (n \div Align) * Align

AlignUp(n) == ((n + Align - 1) \div Align) * Align

\* A dynamic extent is an operand of the alloc.
Extent == IF CurrentOp.args = <<>> THEN IntValue(CurrentOp.size) ELSE Get(CurrentOp.args[1])

Poisoned(lo, size) == [b \in DOMAIN cells |-> IF b \in lo..lo + size - 1 THEN Poison ELSE cells[b]]

\* Mutant: every execution takes bytes of its own.
MutReused(site, size) == FALSE

Reused(site, size) == site \in DOMAIN cache /\ cache[site].size = size

\* A site executed again hands back its storage if the shape is the same one.
AllocAgain ==
  LET buffer == cache[Here]
  IN /\ Executes("alloc") /\ IsInt(Extent) /\ Reused(Here, Extent.n)
     /\ Advance(Bind(Frame, CurrentOp.results, <<buffer>>))
     /\ cells' = Poisoned(buffer.lo, buffer.size)
     /\ UNCHANGED <<top, records, cache, log>>

\* Otherwise it takes bytes from the arena and owns those from now on.
AllocFresh ==
  LET lo == AlignUp(top)
      buffer == Buffer(Here, lo, Extent.n)
      hi == lo + buffer.size
  IN /\ Executes("alloc") /\ IsInt(Extent) /\ ~Reused(Here, Extent.n)
     /\ UNCHANGED log
     /\ IF buffer.size \in 0..Capacity - lo
        THEN /\ Advance(Bind(Frame, CurrentOp.results, <<buffer>>))
             /\ cells' = Poisoned(lo, buffer.size)
             /\ top' = hi
             /\ records' = Append(records, [lo |-> lo, hi |-> hi, site |-> Here, live |-> TRUE])
             /\ cache' = [s \in DOMAIN cache \cup {Here} |-> IF s = Here THEN buffer ELSE cache[s]]
        ELSE Fail /\ UNCHANGED arena

AllocUnbound == Executes("alloc") /\ ~IsInt(Extent) /\ Fail /\ Computing

\* The last live record at that offset; the storage itself is not returned.
Dealloc ==
  LET buffer == Get(CurrentOp.args[1])
      there == {k \in DOMAIN records : records[k].lo = buffer.lo /\ records[k].live}
      last == CHOOSE k \in there : \A j \in there : j <= k
  IN /\ Executes("dealloc") /\ UNCHANGED <<top, cache, cells, log>>
     /\ IF IsMemRef(buffer)
        THEN /\ Advance(Frame)
             /\ records' = IF there = {} THEN records ELSE [records EXCEPT ![last].live = FALSE]
        ELSE Fail /\ UNCHANGED records

InArena(addr) == addr \in 0..Capacity - 1

\* args = <<memref, index>>
Load ==
  LET buffer == Get(CurrentOp.args[1])
      index == Get(CurrentOp.args[2])
      addr == buffer.lo + index.n
  IN /\ Executes("load") /\ UNCHANGED arena
     /\ IF IsMemRef(buffer) /\ IsInt(index) /\ InArena(addr)
        THEN /\ Advance(Bind(Frame, CurrentOp.results, <<IntValue(cells[addr])>>))
             /\ log' = Append(log, cells[addr])
        ELSE Fail /\ UNCHANGED log

\* args = <<value, memref, index>>; a value that is not bound is written as zero.
Store ==
  LET value == Get(CurrentOp.args[1])
      buffer == Get(CurrentOp.args[2])
      index == Get(CurrentOp.args[3])
      addr == buffer.lo + index.n
      stored == IF IsInt(value) THEN value.n ELSE 0
  IN /\ Executes("store") /\ UNCHANGED <<top, records, cache>>
     /\ IF IsMemRef(buffer) /\ IsInt(index) /\ InArena(addr)
        THEN /\ Advance(Frame)
             /\ cells' = [cells EXCEPT ![addr] = stored]
             /\ log' = Append(log, stored)
        ELSE Fail /\ UNCHANGED <<cells, log>>

----------------------------------------------------------------------------
Next ==
  \/ Constant \/ Binary \/ Compare \/ Select
  \/ For \/ If \/ While \/ Condition \/ YieldFor \/ YieldAfter \/ YieldPlain
  \/ ExecuteRegion \/ IndexSwitch \/ Branch \/ CondBranch \/ Call \/ Return
  \/ AllocAgain \/ AllocFresh \/ AllocUnbound \/ Dealloc \/ Load \/ Store
  \/ RunsOff \/ Unsupported \/ StepLimit

Spec == Init /\ [][Next]_vars

----------------------------------------------------------------------------
(* Properties.  What the walk computes is the subject of FlowMeaning. *)

FlowTypeOK ==
  /\ program \in DOMAIN Programs
  /\ status \in {"running", "done", "error", "limit"}
  /\ steps \in 0..MaxSteps /\ top \in 0..Capacity
  /\ cells \in [0..Capacity - 1 -> -Half..Half - 1]
  /\ \A k \in DOMAIN stack :
       /\ \A x \in DOMAIN stack[k].env :
            IsInt(stack[k].env[x]) => stack[k].env[x].n \in -Half..Half - 1
       /\ \A j \in DOMAIN stack[k].regions :
            LET r == stack[k].regions[j]
            IN r.block \in DOMAIN Blocks /\ r.ip \in 1..Len(Blocks[r.block].ops) + 1

StandsAt(r) == <<r.block, r.ip>>

\* Whoever pops a region or a call finds the parent standing on the operation
\* that opened it: advanceIp after popRegion and popCall relies on it, and so
\* do the results bound there ("the parent instruction pointer is still on the
\* scf.while").
NestedOnOwners ==
  \A k \in 1..Len(stack) :
    /\ k > 1 => stack[k].callOp = StandsAt(Last(stack[k - 1].regions))
    /\ \A j \in 2..Len(stack[k].regions) :
         stack[k].regions[j].owner = StandsAt(stack[k].regions[j - 1])

\* Bytes handed out once are never handed to another site, whatever is
\* deallocated or changes its shape, and a site owns the storage of its last
\* record (Arena::allocate, allocateMemRef).
SitesApart ==
  /\ \A i, j \in 1..Len(records) : i < j => records[i].hi <= records[j].lo
  /\ \A i \in 1..Len(records) :
       /\ records[i].lo % Align = 0
       /\ records[i].lo <= records[i].hi /\ records[i].hi <= top
  /\ top <= Capacity
  /\ \A s \in DOMAIN cache :
       \E i \in 1..Len(records) :
         /\ records[i].site = s /\ records[i].lo = cache[s].lo
         /\ records[i].hi = cache[s].lo + cache[s].size
         /\ \A j \in 1..Len(records) : j > i => records[j].site # s
=============================================================================
