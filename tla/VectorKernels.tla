--------------------------- MODULE VectorKernels ---------------------------
(***************************************************************************)
(* The elementwise family on PIPE_V and the vector dialect.  A vector      *)
(* value is its shape and its elements in row-major order; transfer_read   *)
(* makes one when it is issued, transfer_write stores one when it commits. *)
(***************************************************************************)
EXTENDS TransferKernels

TruncatedDiv(a, b) == IF b < 0 THEN Quotient(-a, -b) ELSE Quotient(a, b)

Holds(mode, a, b) ==
  LET ordered == a # NaN /\ b # NaN
      x == Magnitude(a)
      y == Magnitude(b)
  IN CASE mode = "eq" -> ordered /\ x = y
       [] mode = "ne" -> ~(ordered /\ x = y)
       [] mode = "lt" -> ordered /\ x < y
       [] mode = "gt" -> ordered /\ x > y
       [] mode = "ge" -> ordered /\ x >= y
       [] mode = "le" -> ordered /\ x <= y

Truth(b) == IF b THEN 1 ELSE 0

\* The scalar kernels; a missing second operand is the first one again.
Elementwise1(r, args) ==
  LET a == args[1]
      b == IF Len(args) > 1 THEN args[2] ELSE args[1]
  IN CASE r.kind \in {"sum", "prod", "max", "min"} -> Combine(r.kind, r.float, a, b)
       [] r.kind = "sub" -> Wrap(a - b)
       [] r.kind = "div" -> IF b = 0 THEN 0 ELSE Wrap(TruncatedDiv(a, b))
       [] r.kind = "mod" -> IF b = 0 THEN 0 ELSE a - b * TruncatedDiv(a, b)
       [] r.kind = "modui" -> IF b = 0 THEN 0 ELSE Wrap(Unsigned(a) % Unsigned(b))
       [] r.kind \in {"and", "or", "xor"} -> AtomicCombine(r.kind, FALSE, a, b)
       [] r.kind = "not" -> Wrap(-a - 1)
       [] r.kind = "abs" -> IF a < 0 THEN Wrap(-a) ELSE a
       [] r.kind = "relu" -> IF r.float THEN FloatMaximum(0, a) ELSE Larger(a, 0)
       [] r.kind = "isnan" -> Truth(a = NaN)
       [] r.kind = "cmp" -> Truth(Holds(r.mode, a, b))
       [] r.kind = "sel" -> IF Magnitude(a) # 0 THEN args[2] ELSE args[3]

\* r.args[k] is a view (r.srcs[r.args[k].view]) or a splat scalar
Elementwise(r, st) ==
  LET From(k, i) == LET v == r.srcs[r.args[k].view]
                    IN ElementAt(v, SourceIndex(i, v, r.transpose))
      Compute(s, i) ==
        LET places == {From(k, i) : k \in {j \in DOMAIN r.args : r.args[j].view # 0}}
            Value(k) == IF r.args[k].view = 0 THEN r.args[k].scalar ELSE Peek(s, From(k, i))
        IN Put(s, places, ElementAt(Dst(r), i), Elementwise1(r, [k \in DOMAIN r.args |-> Value(k)]))
  IN ForEach(st, Dst(r).sizes, Compute)

----------------------------------------------------------------------------
(* vector dialect *)

Vector(shape, ValueAt(_)) ==
  LET order == Indices(shape)
  IN [shape |-> shape, elems |-> [k \in DOMAIN order |-> ValueAt(order[k])]]

LinearIndex(i, shape) ==
  FoldLeft(LAMBDA acc, d : acc * shape[d] + i[d], 0, [d \in DOMAIN i |-> d])

\* A permutation map is <<>> (the identity) or, for each vector dimension, the
\* memory dimension it varies along, or Broadcast for a constant zero.
Broadcast == -1
ApplyPermutation(map, i, rank) ==
  LET shift == Len(i) - rank
      Along(d) == {k \in DOMAIN map : map[k] = d - 1 /\ k \in DOMAIN i}
  IN [d \in 1..rank |->
        IF map = <<>> THEN (IF shift + d >= 1 THEN i[shift + d] ELSE 0)
        ELSE IF Along(d) = {} THEN 0 ELSE i[CHOOSE k \in Along(d) : \A j \in Along(d) : j <= k]]

\* A transfer t: its permutation map and the indices it starts at.
TransferIndex(t, v, i) ==
  LET along == ApplyPermutation(t.map, i, Rank(v))
  IN [d \in DOMAIN along |-> along[d] + IF d \in DOMAIN t.at THEN t.at[d] ELSE 0]

TransferRead(r, mem) ==
  LET Lane(i) == LET from == TransferIndex(r.read, Src(r), i)
                     p == ElementAt(Src(r), from)
                 IN IF InExtent(from, Src(r)) THEN mem[p.arena][p.lo] ELSE r.pad[1]
  IN Vector(r.read.shape, Lane)

TransferReadOk(r) ==
  \A k \in DOMAIN Indices(r.read.shape) :
    LET from == TransferIndex(r.read, Src(r), Indices(r.read.shape)[k])
    IN InExtent(from, Src(r)) => InArena(ElementAt(Src(r), from))

TransferWrite(r, st) ==
  LET order == Indices(r.vec.shape)
      Lane(s, k) ==
        LET to == TransferIndex(r.write, Dst(r), order[k])
        IN IF InExtent(to, Dst(r)) THEN Put(s, {}, ElementAt(Dst(r), to), r.vec.elems[k]) ELSE s
  IN FoldLeft(Lane, st, [k \in DOMAIN order |-> k])

VectorBroadcast(vec, shape) ==
  LET rank == Len(vec.shape)
      From(i) == [d \in 1..rank |-> IF vec.shape[d] = 1 \/ Len(i) - rank + d < 1 THEN 0
                                    ELSE i[Len(i) - rank + d]]
  IN Vector(shape, LAMBDA i : vec.elems[LinearIndex(From(i), vec.shape) + 1])

Splat(value, shape) == Vector(shape, LAMBDA i : value)
ShapeCast(vec, shape) == [vec EXCEPT !.shape = shape]
ConstantMask(shape, active) ==
  Vector(shape, LAMBDA i : Truth(\A d \in DOMAIN i : i[d] < active[d]))

\* The leading dimensions are indexed, the others are the result.
ExtractOk(vec, position) == InExtent(position, [sizes |-> vec.shape])
Extract(vec, position) ==
  LET rest == SubSeq(vec.shape, Len(position) + 1, Len(vec.shape))
      base == LinearIndex(position, vec.shape) * Product(rest)
  IN [shape |-> rest, elems |-> SubSeq(vec.elems, base + 1, base + Product(rest))]

\* Unlike reduceCombine, a plain comparison decides between the two zeros.
VectorCombine(kind, float, a, b) ==
  IF ~float \/ kind \notin {"max", "min"} THEN Combine(kind, float, a, b)
  ELSE IF a = NaN \/ b = NaN THEN NaN
  ELSE IF kind = "max" THEN (IF FloatGreater(a, b) THEN a ELSE b)
  ELSE (IF FloatGreater(b, a) THEN a ELSE b)

\* acc is <<>> when the accumulator is a mere placeholder (withoutInitMergeOp):
\* the first lane of each slot starts its reduction.
MultiReduction(vec, acc, kind, float, dims) ==
  LET order == Indices(vec.shape)
      Keep(s) == LET kept == SelectSeq([d \in DOMAIN s |-> d], LAMBDA d : d - 1 \notin dims)
                 IN [k \in DOMAIN kept |-> s[kept[k]]]
      shape == Keep(vec.shape)
      Unset == 1002
      start == IF acc = <<>> THEN [k \in 1..Product(shape) |-> Unset] ELSE acc
      FoldIn(elems, k) ==
        [elems EXCEPT ![LinearIndex(Keep(order[k]), shape) + 1] =
           IF @ = Unset THEN vec.elems[k] ELSE VectorCombine(kind, float, @, vec.elems[k])]
  IN [shape |-> shape, elems |-> FoldLeft(FoldIn, start, [k \in DOMAIN order |-> k])]

\* The value a chain of vector operations makes of what transfer_read read.
VectorStep(vec, step) ==
  CASE step.op = "broadcast" -> VectorBroadcast(vec, step.shape)
    [] step.op = "shape_cast" -> ShapeCast(vec, step.shape)
    [] step.op = "extract" -> Extract(vec, step.position)
    [] step.op = "splat" -> Splat(vec.elems[1], step.shape)
    [] step.op = "mask" -> ConstantMask(step.shape, step.active)
    [] step.op = "reduce" -> MultiReduction(vec, step.acc, step.kind, step.float, step.dims)
VectorValue(r, mem) == FoldLeft(VectorStep, TransferRead(r, mem), r.steps)
=============================================================================
