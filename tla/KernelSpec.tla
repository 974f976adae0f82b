----------------------------- MODULE KernelSpec -----------------------------
(***************************************************************************)
(* What each data operation promises, as a relation between the memory     *)
(* before and after it.  Nothing here loops, accumulates or has an order:  *)
(* a scan is a total over a box of indices, a reduction a total over a     *)
(* fibre, a sort a stable rearrangement.  The handlers are checked against *)
(* these relations through whatever strided views they are given.          *)
(***************************************************************************)
EXTENDS VectorKernels

Ix(v) == ToSet(Indices(v.sizes))
At(mem, v, i) == mem[v.arena][ByteAddr(v, i)]

Along(i, ax, n) == [i EXCEPT ![ax] = n]

\* The total of F over a set: modular for sums and products, an extremum
\* otherwise.  It does not depend on an order.
Total(kind, float, S, F(_)) ==
  LET Some(T) == CHOOSE x \in T : TRUE
      values == {F(x) : x \in S}
      Dominates(a, b) == Combine(kind, float, a, b) = a
      sum == MapThenFoldSet(LAMBDA a, b : a + b, 0, LAMBDA x : Magnitude(F(x)), Some, S)
  IN CASE kind = "sum" /\ float -> IF NaN \in values THEN NaN
                                   ELSE IF values = {NegZero} THEN NegZero ELSE sum
       [] kind = "sum" /\ ~float -> Wrap(sum)
       [] kind = "prod" -> Wrap(MapThenFoldSet(LAMBDA a, b : a * b, 1, F, Some, S))
       [] OTHER -> CHOOSE a \in values : \A b \in values : Dominates(a, b)

FlipMeets(r, old, new) ==
  LET ax == Axis(r.axis, Rank(Dst(r)))
  IN \A i \in Ix(Src(r)) :
       At(new, Dst(r), Along(i, ax, Src(r).sizes[ax] - 1 - i[ax])) = At(old, Src(r), i)

\* Cut at the extents of its sources, the destination is its sources.
ConcatMeets(r, old, new) ==
  LET ax == Axis(r.axis, Rank(Dst(r)))
      Piece(k) == LET before == ExtentBefore(r.srcs, k, ax)
                  IN [Dst(r) EXCEPT !.off = @ + before * Dst(r).strides[ax] * Dst(r).eb,
                                    !.sizes = r.srcs[k].sizes]
  IN \A k \in DOMAIN r.srcs : \A i \in Ix(r.srcs[k]) :
       At(new, Piece(k), i) = At(old, r.srcs[k], i)

PadMeets(r, old, new) ==
  LET Shifted(i) == [d \in DOMAIN i |-> i[d] + r.low[d]]
      window == {Shifted(i) : i \in Ix(Src(r))}
  IN /\ \A i \in Ix(Src(r)) : At(new, Dst(r), Shifted(i)) = At(old, Src(r), i)
     /\ \A i \in Ix(Dst(r)) \ window : At(new, Dst(r), i) = r.pad

GatherMeets(r, old, new) ==
  LET ax == Axis(r.axis, Rank(Dst(r)))
      Position(i) == At(old, r.srcs[2], SourceIndex(i, r.srcs[2], <<>>))
  IN \A i \in Ix(Dst(r)) : At(new, Dst(r), i) = At(old, Src(r), Along(i, ax, Position(i)))

\* Every channels-th element of the mixed view, from channel c on.
ChannelOf(v, channels, c) ==
  LET last == Rank(v)
  IN [v EXCEPT !.off = @ + c * v.strides[last] * v.eb,
               !.sizes[last] = @ \div channels, !.strides[last] = @ * channels]
InterleaveMeets(r, old, new) ==
  \A c \in DOMAIN r.srcs : \A i \in Ix(r.srcs[c]) :
    At(new, ChannelOf(Dst(r), Len(r.srcs), c - 1), i) = At(old, r.srcs[c], i)
DeinterleaveMeets(r, old, new) ==
  LET first == IF r.channel = AllChannels THEN 0 ELSE r.channel
  IN \A d \in DOMAIN r.dsts : \A i \in Ix(r.dsts[d]) :
       At(new, r.dsts[d], i) = At(old, ChannelOf(Src(r), r.channels, first + d - 1), i)

\* Each row is sorted; the positions written rearrange the row, and equal keys
\* keep their order.
SortMeets(r, old, new) ==
  LET last == Rank(Src(r))
      n == Src(r).sizes[last]
      Before(a, b) == IF r.descending THEN SortsBefore(b, a) ELSE SortsBefore(a, b)
      Row(mem, v, i) == [j \in 0..n - 1 |-> At(mem, v, Along(i, last, j))]
      Count(row, x) == Cardinality({j \in DOMAIN row : row[j] = x})
      SameValues(a, b) == \A j \in 0..n - 1 : Count(a, a[j]) = Count(b, a[j])
      Sorted(s) == \A j \in 0..n - 2 : ~Before(s[j + 1], s[j])
      Explains(pos, from, to) ==
        /\ \A j \in 0..n - 1 : pos[j] \in 0..n - 1 /\ to[j] = from[pos[j]]
        /\ \A j \in 0..n - 2 : to[j] = to[j + 1] => pos[j] < pos[j + 1]
  IN \A i \in Ix([Src(r) EXCEPT !.sizes[last] = 1]) :
       LET from == Row(old, Src(r), i)
           to == Row(new, Dst(r), i)
       IN /\ Sorted(to) /\ SameValues(from, to)
          /\ Len(r.dsts) = 2 => Explains(Row(new, r.dsts[2], i), from, to)

\* Each element is the total over the box of what precedes it on the axes.
ScanMeets(r, old, new) ==
  LET rank == Rank(Src(r))
      axes == {Axis(r.axes[k], rank) : k \in DOMAIN r.axes}
      Precedes(j, i) == \A d \in 1..rank :
        IF d \notin axes THEN j[d] = i[d] ELSE IF r.reverse THEN j[d] >= i[d] ELSE j[d] <= i[d]
  IN \A i \in Ix(Dst(r)) :
       At(new, Dst(r), i) = Total(r.kind, r.float, {j \in Ix(Src(r)) : Precedes(j, i)},
                                  LAMBDA j : At(old, Src(r), j))

BrcMeets(r, old, new) ==
  \A i \in Ix(Dst(r)) :
    At(new, Dst(r), i) = IF r.srcs = <<>> THEN r.scalar
                         ELSE At(old, Src(r), SourceIndex(i, Src(r), <<>>))

ArangeMeets(r, old, new) ==
  \A i \in Ix(Dst(r)) : Unsigned(At(new, Dst(r), i)) = Unsigned(r.offset + Dot(i, r.strides))

\* Each slot is the total of its start value and of its fibre.
ReduceMeets(r, old, new) ==
  LET start == <<>>
      Value(x, slot) == IF x # start THEN At(old, Src(r), x)
                        ELSE IF r.initialized THEN At(old, Dst(r), slot) ELSE r.init
      Fibre(slot) == {i \in Ix(Src(r)) : ReducedIndex(i, Dst(r), r.dims) = slot}
  IN \A slot \in Ix(Dst(r)) :
       At(new, Dst(r), slot) = Total(r.kind, r.float, Fibre(slot) \cup {start},
                                     LAMBDA x : Value(x, slot))

TransposeMeets(r, old, new) ==
  \A i \in Ix(Src(r)) : At(new, Dst(r), <<i[2], i[1]>>) = At(old, Src(r), i)

CopyMeets(r, old, new) ==
  \A i \in Ix(Dst(r)) :
    LET from == CopyIndex(i, Src(r), r.left)
    IN At(new, Dst(r), i) = IF InExtent(from, Src(r)) THEN At(old, Src(r), from)
                            ELSE IF r.pad # <<>> THEN r.pad[1] ELSE At(old, Dst(r), i)

AtomicMeets(r, old, new) ==
  \A i \in Ix(Dst(r)) :
    At(new, Dst(r), i) = AtomicCombine(r.kind, r.float, At(old, Dst(r), i), At(old, Src(r), i))

\* Logical order is kept, a tail is zero.
LayoutMeets(r, old, new) ==
  LET Nth(mem, v, n) == At(mem, LogicalStorage(v), Indices(v.sizes)[n])
  IN \A n \in 1..NumElements(Dst(r)) :
       Nth(new, Dst(r), n) = IF n <= NumElements(Src(r)) THEN Nth(old, Src(r), n) ELSE 0

SplitMeets(r, old, new) ==
  LET count == NumElements(Dst(r))
      Nth(mem, v, n) == At(mem, v, Indices(v.sizes)[n])
  IN \A l \in DOMAIN r.dsts : \A n \in 1..count :
       Nth(new, r.dsts[l], n) = Nth(old, LogicalStorage(Src(r)), (l - 1) * count + n)

Allowed(r, mem, i) == \A k \in DOMAIN r.mask : Magnitude(At(mem, r.mask[k], i)) # 0
NthOf(v, n) == Indices(v.sizes)[n + 1]

IndirectLoadMeets(r, old, new) ==
  \A i \in Ix(Dst(r)) :
    At(new, Dst(r), i) =
      IF Allowed(r, old, i) THEN At(old, Src(r), NthOf(Src(r), At(old, r.srcs[2], i)))
      ELSE IF Len(r.srcs) = 3 THEN At(old, r.srcs[3], i) ELSE At(old, Dst(r), i)

\* Each element of the destination holds what the last index sent to it, or
\* what it held.
LastOf(senders) ==
  CHOOSE i \in senders : \A j \in senders : j = i \/ \E d \in DOMAIN i :
    j[d] < i[d] /\ \A e \in 1..d - 1 : j[e] = i[e]
ScatterMeets(r, old, new, Target(_), senders) ==
  \A n \in 0..NumElements(Dst(r)) - 1 :
    LET mine == {i \in senders : Target(i) = n}
        slot == NthOf(Dst(r), n)
    IN InArena(ElementAt(Dst(r), slot)) =>
         At(new, Dst(r), slot) = IF mine = {} THEN At(old, Dst(r), slot)
                                 ELSE At(old, Src(r), LastOf(mine))
IndirectStoreMeets(r, old, new) ==
  ScatterMeets(r, old, new, LAMBDA i : At(old, r.srcs[2], i),
               {i \in Ix(Src(r)) : Allowed(r, old, i)})

Counted(r, v) == {i \in Ix(v) : \A d \in DOMAIN i : i[d] < r.numels[d]}
StrideLoadMeets(r, old, new) ==
  \A i \in Ix(Dst(r)) :
    At(new, Dst(r), i) = IF i \in Counted(r, Dst(r))
                         THEN At(old, Src(r), NthOf(Src(r), r.offset + Dot(i, r.strides)))
                         ELSE r.pad[1]
StrideStoreMeets(r, old, new) ==
  ScatterMeets(r, old, new, LAMBDA i : r.offset + Dot(i, r.strides), Counted(r, Src(r)))

CasMeets(r, old, new) ==
  \A i \in Ix(Dst(r)) :
    At(new, Dst(r), i) = IF At(old, Dst(r), i) = At(old, r.srcs[1], i)
                         THEN At(old, r.srcs[2], i) ELSE At(old, Dst(r), i)
XchgMeets(r, old, new) ==
  \A i \in {j \in Ix(Dst(r)) : InArena(ElementAt(Dst(r), j))} :
    At(new, Dst(r), i) = IF Allowed(r, old, i) THEN At(old, Src(r), i) ELSE At(old, Dst(r), i)

\* Pointwise on the operands stretched to the destination's shape.
ElementwiseMeets(r, old, new) ==
  LET Stretched(v) == [i \in Ix(Dst(r)) |-> At(old, v, SourceIndex(i, v, r.transpose))]
      Arg(k, i) == IF r.args[k].view = 0 THEN r.args[k].scalar
                   ELSE Stretched(r.srcs[r.args[k].view])[i]
  IN \A i \in Ix(Dst(r)) :
       At(new, Dst(r), i) = Elementwise1(r, [k \in DOMAIN r.args |-> Arg(k, i)])

(***************************************************************************)
(* Vector values as functions on indices.  r.steps are the operations      *)
(* between the transfer_read and the transfer_write.                       *)
(***************************************************************************)
ReadValue(r, old) ==
  [i \in ToSet(Indices(r.read.shape)) |->
     LET from == TransferIndex(r.read, Src(r), i)
     IN IF InExtent(from, Src(r)) THEN At(old, Src(r), from) ELSE r.pad[1]]

StepValue(value, shape, step) ==
  LET ix == ToSet(Indices(step.shape))
      Aligned(i) == SourceIndex(i, [sizes |-> shape], <<>>)
      Dropped(i) == ReducedIndex(i, [sizes |-> step.shape], step.dims)
  IN CASE step.op = "broadcast" -> [i \in ix |-> value[Aligned(i)]]
       [] step.op = "shape_cast" ->
            [i \in ix |-> value[Indices(shape)[LinearIndex(i, step.shape) + 1]]]
       [] step.op = "extract" -> [i \in ix |-> value[step.position \o i]]
       [] step.op = "splat" -> [i \in ix |-> value[<<>>]]
    [] step.op = "mask" -> [i \in ix |-> Truth(\A d \in DOMAIN i : i[d] \in 0..step.active[d] - 1)]
    [] step.op = "reduce" ->
            LET Start(i) == IF step.acc = <<>> THEN {} ELSE {i}
                Value(i, x) == IF x \in DOMAIN value THEN value[x]
                               ELSE step.acc[LinearIndex(i, step.shape) + 1]
            IN [i \in ix |-> Total(step.kind, step.float,
                                   {j \in DOMAIN value : Dropped(j) = i} \cup Start(i),
                                   LAMBDA x : Value(i, x))]

VectorMeets(r, old, new) ==
  LET Step(acc, k) == [value |-> StepValue(acc.value, acc.shape, r.steps[k]), shape |-> r.steps[k].shape]
      last == FoldLeft(Step, [value |-> ReadValue(r, old), shape |-> r.read.shape],
                       [k \in DOMAIN r.steps |-> k])
  IN \A i \in DOMAIN last.value :
       LET to == TransferIndex(r.write, Dst(r), i)
       IN InExtent(to, Dst(r)) => At(new, Dst(r), to) = last.value[i]
=============================================================================
