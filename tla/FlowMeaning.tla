----------------------------- MODULE FlowMeaning -----------------------------
(***************************************************************************)
(* What a program means, apart from any machine: regions are evaluated     *)
(* inside the scope that encloses them and give nothing back but their     *)
(* results, the iterations of a loop are counted before it starts, and     *)
(* every execution of an alloc makes a buffer of its own.  The meaning of  *)
(* a program is how it ends and the values it loads and stores, in order.  *)
(***************************************************************************)
EXTENDS ControlFlow, FiniteSetsExt

Empty == [x \in {} |-> None]
Lookup(env, x) == IF x \in DOMAIN env THEN env[x] ELSE None
Outcome(exit, values, heap, seen) == [exit |-> exit, values |-> values, heap |-> heap, log |-> seen]

Trips(lb, ub, step) ==
  IF step > 0 THEN (IF lb < ub THEN (ub - lb + step - 1) \div step ELSE 0)
  ELSE (IF lb > ub THEN (lb - ub - step - 1) \div (-step) ELSE 0)

\* The arguments of an operation that must be numbers
Numbers(op, args) ==
  CASE op.kind \in {"binary", "cmpi"} -> {args[1], args[2]}
    [] op.kind = "for" -> {args[1], args[2], args[3]}
    [] op.kind \in {"select", "if", "condition", "switch", "cond_br"} -> {args[1]}
    [] op.kind = "alloc" -> {args[k] : k \in DOMAIN args}
    [] op.kind = "load" -> {args[2]}
    [] op.kind = "store" -> {args[3]}
    [] OTHER -> {}

\* The element an access is to, in the buffer it is to
InBuffer(heap, memref, index) ==
  IsMemRef(memref) /\ IsInt(index) /\ index.n \in DOMAIN heap[memref.id]

\* What the operations without a region do: their results, the buffers and
\* the accesses so far.
Simple(op, args, heap, seen) ==
  LET size == IF op.args = <<>> THEN op.size ELSE args[1].n
      Wrong == Outcome("error", <<>>, heap, seen)
      Gives(value) == Outcome("yield", <<value>>, heap, seen)
  IN CASE op.kind = "constant" -> Gives(IntValue(op.value))
       [] op.kind = "binary" -> Gives(IntValue(IntBinary(op.fn, args[1].n, args[2].n)))
       [] op.kind = "cmpi" ->
            Gives(IntValue(IF CmpI(op.predicate, args[1].n, args[2].n) THEN 1 ELSE 0))
       [] op.kind = "select" -> Gives(IF Taken(args[1]) THEN args[2] ELSE args[3])
       [] op.kind = "alloc" ->
            IF size < 0 THEN Wrong
            ELSE Outcome("yield", <<[tag |-> "memref", id |-> Len(heap) + 1]>>,
                         Append(heap, [b \in 0..size - 1 |-> Poison]), seen)
       [] op.kind = "dealloc" ->
            IF IsMemRef(args[1]) THEN Outcome("yield", <<>>, heap, seen) ELSE Wrong
       [] op.kind = "load" ->
            IF ~InBuffer(heap, args[1], args[2]) THEN Wrong
            ELSE LET v == heap[args[1].id][args[2].n]
                 IN Outcome("yield", <<IntValue(v)>>, heap, Append(seen, v))
       [] op.kind = "store" ->
            IF ~InBuffer(heap, args[2], args[3]) THEN Wrong
            ELSE LET v == IF IsInt(args[1]) THEN args[1].n ELSE 0
                 IN Outcome("yield", <<>>, [heap EXCEPT ![args[2].id][args[3].n] = v],
                            Append(seen, v))

Values(env, names) == [k \in DOMAIN names |-> Lookup(env, names[k])]

\* The block an operation enters once, or none: an if without an else
Entered(op, args) ==
  CASE op.kind = "if" -> IF Taken(args[1]) THEN op.then ELSE op.else
    [] op.kind = "region" -> op.body
    [] op.kind = "switch" ->
         LET hits == {k \in DOMAIN op.cases : op.cases[k][1] = args[1].n}
         IN IF hits = {} THEN op.default ELSE op.cases[Min(hits)][2]
    [] op.kind = "call" -> op.callee
    [] op.kind = "br" -> op.dest
    [] op.kind = "cond_br" -> IF Taken(args[1]) THEN op.true ELSE op.false

\* and the values handed to its arguments
Passed(op, env, args) ==
  CASE op.kind \in {"call", "br"} -> args
    [] op.kind = "cond_br" -> Values(env, IF Taken(args[1]) THEN op.trueArgs ELSE op.falseArgs)
    [] OTHER -> <<>>

RECURSIVE Run(_, _, _, _), Iterate(_, _, _, _, _, _), Repeat(_, _, _, _, _)

Inside(b, scope, values, heap, seen) ==
  Run(<<b, 1>>, Extended(scope, Blocks[b].args, values), heap, seen)

\* An operation, with the regions in it
Perform(op, env, args, heap, seen) ==
  CASE op.kind = "for" ->
         IF args[3].n = 0 THEN Outcome("error", <<>>, heap, seen)
         ELSE Iterate(op, 0, SubSeq(args, 1, 3), env, [heap |-> heap, log |-> seen],
                      SubSeq(args, 4, Len(args)))
    [] op.kind = "while" -> Repeat(op, env, heap, seen, args)
    [] op.kind \in {"if", "region", "switch", "call", "br", "cond_br"} ->
         IF Entered(op, args) = NoBlock THEN Outcome("yield", <<>>, heap, seen)
         ELSE Inside(Entered(op, args), IF op.kind = "call" THEN Empty ELSE env,
                     Passed(op, env, args), heap, seen)
    [] OTHER -> Simple(op, args, heap, seen)

\* The operations after place, once that at place is done
RunOn(place, env, o) ==
  IF o.exit = "error" \/ Op(place).kind \in {"br", "cond_br"} THEN o
  ELSE Run(<<place[1], place[2] + 1>>, Extended(env, Op(place).results, o.values), o.heap, o.log)

\* The operations of a block from place on
Run(place, env, heap, seen) ==
  IF \/ place[2] > Len(Blocks[place[1]].ops)
     \/ Op(place).kind = "unsupported"
     \/ \E v \in Numbers(Op(place), Values(env, Op(place).args)) : ~IsInt(v)
  THEN Outcome("error", <<>>, heap, seen)
  ELSE IF Op(place).kind \in {"yield", "condition", "return"}
  THEN Outcome(Op(place).kind, Values(env, Op(place).args), heap, seen)
  ELSE RunOn(place, env, Perform(Op(place), env, Values(env, Op(place).args), heap, seen))

\* Iteration number k of a loop over bounds
Iterate(op, k, bounds, env, s, values) ==
  LET Next1(o) == IF o.exit = "error" THEN o
                  ELSE Iterate(op, k + 1, bounds, env, [heap |-> o.heap, log |-> o.log], o.values)
  IN IF k = Trips(bounds[1].n, bounds[2].n, bounds[3].n)
     THEN Outcome("yield", values, s.heap, s.log)
     ELSE Next1(Inside(op.body, env, <<IntValue(bounds[1].n + k * bounds[3].n)>> \o values,
                       s.heap, s.log))

\* A while loop: the values its condition forwards are its results or go to
\* its body, whose results go round.
Repeat(op, env, heap, seen, values) ==
  LET Round(o) == IF o.exit = "error" THEN o ELSE Repeat(op, env, o.heap, o.log, o.values)
      Tested(c) == IF c.exit = "error" THEN c
                   ELSE IF ~Taken(c.values[1])
                   THEN Outcome("yield", Tail(c.values), c.heap, c.log)
                   ELSE Round(Inside(op.after, env, Tail(c.values), c.heap, c.log))
  IN Tested(Inside(op.before, env, values, heap, seen))

Meaning ==
  Run(<<1, 1>>, Extended(Empty, Blocks[1].args, Programs[program].args), <<>>, <<>>)

----------------------------------------------------------------------------
\* The arena had no room for an alloc.
Refused == status = "error" /\ ~RanOff /\ CurrentOp.kind = "alloc" /\ IsInt(Extent)

\* The walk over frames and regions, with one environment for all regions of
\* a call and one buffer for all executions of an alloc, computes what the
\* program means (execFor to execReturn, allocateMemRef).  It gives up on a
\* program only if that does not end.
MeansWhatItSays ==
  LET meaning == Meaning
  IN /\ status = "done" => meaning.exit = "return" /\ meaning.log = log
     /\ status = "error" /\ ~Refused => meaning.exit = "error" /\ meaning.log = log
     /\ status = "limit" => Programs[program].endless

Sites ==
  {s \in UNION {{b} \X DOMAIN Blocks[b].ops : b \in DOMAIN Blocks} : Op(s).kind = "alloc"}

\* However often its loops and calls repeat, a kernel of static shapes whose
\* buffers fit the arena side by side is never refused one
\* (allocateMemRef: "Fresh bytes every time would make a loop exhaust the pool").
LoopsDoNotExhaust ==
  Refused /\ (\A s \in Sites : Op(s).args = <<>>)
    => MapThenSumSet(LAMBDA s : AlignUp(Op(s).size), Sites) > Capacity
=============================================================================
