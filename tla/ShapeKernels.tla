---------------------------- MODULE ShapeKernels ----------------------------
(***************************************************************************)
(* The reordering operations, the scans, and the broadcasts, reductions    *)
(* and transpositions.  A request r carries the resolved operand views     *)
(* r.srcs and r.dsts and the operation's attributes.  XOk is what the      *)
(* handler checks before it issues the effect, X what the effect does.     *)
(***************************************************************************)
EXTENDS Effects

Src(r) == r.srcs[1]
Dst(r) == r.dsts[1]

AxisOk(axis, rank) == NormalizeAxis(axis, rank) \in 0..rank - 1
Axis(axis, rank) == NormalizeAxis(axis, rank) + 1

VFlipOk(r) == AxisOk(r.axis, Rank(Dst(r)))
VFlip(r, st) ==
  LET ax == Axis(r.axis, Rank(Dst(r)))
      Mirrored(i) == [i EXCEPT ![ax] = Src(r).sizes[ax] - 1 - @]
  IN ForEach(st, Dst(r).sizes, LAMBDA s, i :
       Move(s, ElementAt(Src(r), Mirrored(i)), ElementAt(Dst(r), i)))

ExtentBefore(srcs, k, ax) ==
  FoldLeft(LAMBDA acc, v : acc + v.sizes[ax], 0, SubSeq(srcs, 1, k - 1))

VConcatOk(r) ==
  /\ AxisOk(r.axis, Rank(Dst(r)))
  /\ \A k \in DOMAIN r.srcs : Rank(r.srcs[k]) = Rank(Dst(r))
  /\ LET ax == Axis(r.axis, Rank(Dst(r)))
     IN ExtentBefore(r.srcs, Len(r.srcs) + 1, ax) = Dst(r).sizes[ax]
VConcat(r, st) ==
  LET ax == Axis(r.axis, Rank(Dst(r)))
      Append1(s, k) ==
        ForEach(s, r.srcs[k].sizes, LAMBDA t, i :
          Move(t, ElementAt(r.srcs[k], i),
               ElementAt(Dst(r), [i EXCEPT ![ax] = @ + ExtentBefore(r.srcs, k, ax)])))
  IN FoldLeft(Append1, st, [k \in DOMAIN r.srcs |-> k])

VPadOk(r) == Len(r.low) = Rank(Dst(r)) /\ Len(r.high) = Rank(Dst(r))
VPad(r, st) ==
  LET Window(i) == [d \in DOMAIN i |-> i[d] - r.low[d]]
      Inside(w) == \A d \in DOMAIN w : w[d] \in 0..Src(r).sizes[d] - 1
  IN ForEach(st, Dst(r).sizes, LAMBDA s, i :
       IF Inside(Window(i))
       THEN Move(s, ElementAt(Src(r), Window(i)), ElementAt(Dst(r), i))
       ELSE Put(s, {}, ElementAt(Dst(r), i), r.pad))

\* srcs = <<source, indices>>
VGatherOk(r) == AxisOk(r.axis, Rank(Dst(r)))
\* Mutant of VGather: an index beyond the source wraps around instead of being refused.
MutVGather(r, st) ==
  LET ax == Axis(r.axis, Rank(Dst(r)))
      At(s, i) == ElementAt(r.srcs[2], SourceIndex(i, r.srcs[2], <<>>))
      From(s, i) == ElementAt(Src(r), [i EXCEPT ![ax] = Peek(s, At(s, i)) % Src(r).sizes[ax]])
  IN ForEach(st, Dst(r).sizes, LAMBDA s, i : Move(s, From(s, i), ElementAt(Dst(r), i)))

VGather(r, st) ==
  LET ax == Axis(r.axis, Rank(Dst(r)))
      indices == r.srcs[2]
      Collapsed(i) == [d \in 1..Rank(indices) |->
                         IF d > Len(i) \/ indices.sizes[d] = 1 THEN 0 ELSE i[d]]
      Gather(s, i) ==
        LET at == ElementAt(indices, Collapsed(i))
            looked == Look(s, {at})
        IN IF looked.failed THEN looked
           ELSE IF Peek(s, at) \notin 0..Src(r).sizes[ax] - 1 THEN Refuse(looked)
           ELSE Move(looked, ElementAt(Src(r), [i EXCEPT ![ax] = Peek(s, at)]),
                     ElementAt(Dst(r), i))
  IN ForEach(st, Dst(r).sizes, Gather)

VInterleaveOk(r) ==
  LET last == Rank(Dst(r))
  IN r.srcs # <<>> /\ Dst(r).sizes[last] = Src(r).sizes[last] * Len(r.srcs)
VInterleave(r, st) ==
  LET last == Rank(Dst(r))
      Channel(s, c) ==
        ForEach(s, r.srcs[c].sizes, LAMBDA t, i :
          Move(t, ElementAt(r.srcs[c], i),
               ElementAt(Dst(r), [i EXCEPT ![last] = @ * Len(r.srcs) + c - 1])))
  IN FoldLeft(Channel, st, [c \in DOMAIN r.srcs |-> c])

\* r.channel is the single channel kept, or AllChannels
AllChannels == -1
VDeinterleaveOk(r) ==
  Len(r.dsts) = IF r.channel = AllChannels THEN r.channels ELSE 1
VDeinterleave(r, st) ==
  LET last == Rank(Src(r))
      first == IF r.channel = AllChannels THEN 0 ELSE r.channel
      Channel(s, d) ==
        ForEach(s, r.dsts[d].sizes, LAMBDA t, i :
          Move(t, ElementAt(Src(r), [i EXCEPT ![last] = @ * r.channels + first + d - 1]),
               ElementAt(r.dsts[d], i)))
  IN FoldLeft(Channel, st, [d \in DOMAIN r.dsts |-> d])

\* A total preorder: NaN after every number, the two zeros equal
SortsBefore(a, b) ==
  IF a = NaN \/ b = NaN THEN a # NaN /\ b = NaN ELSE Magnitude(a) < Magnitude(b)

\* std::stable_sort: the position each element of values comes to
StableRank(values, Before(_, _), j) ==
  Cardinality({k \in DOMAIN values : \/ Before(values[k], values[j])
                                     \/ ~Before(values[j], values[k]) /\ k < j})

VSortOk(r) == r.dsts # <<>> /\ NormalizeAxis(r.axis, Rank(Src(r))) = Rank(Src(r)) - 1
VSort(r, st) ==
  LET last == Rank(Src(r))
      n == Src(r).sizes[last]
      Before(a, b) == IF r.descending THEN SortsBefore(b, a) ELSE SortsBefore(a, b)
      SortRow(s, base) ==
        LET At(v, j) == ElementAt(v, [base EXCEPT ![last] = j])
            looked == Look(s, {At(Src(r), j) : j \in 0..n - 1})
            values == [j \in 0..n - 1 |-> Peek(s, At(Src(r), j))]
            From(pos) == CHOOSE j \in 0..n - 1 : StableRank(values, Before, j) = pos
            Emit(t, pos) ==
              LET sorted == Put(t, {}, At(Dst(r), pos), values[From(pos)])
              IN IF Len(r.dsts) = 1 THEN sorted
                 ELSE Put(sorted, {}, At(r.dsts[2], pos), Wrap(From(pos)))
        IN IF looked.failed THEN looked
           ELSE FoldLeft(Emit, looked, [k \in 1..n |-> k - 1])
  IN ForEach(st, [Src(r).sizes EXCEPT ![last] = 1], SortRow)

\* Mutant of Scan: every pass starts again from the source.
MutScan(r, st) ==
  LET Pass(s, p) ==
        LET ax == Axis(r.axes[p], Rank(Src(r)))
            n == Dst(r).sizes[ax]
            Slot(base, k) == [base EXCEPT ![ax] = IF r.reverse THEN n - 1 - k ELSE k]
            Step(base, a, k) ==
              LET value == Peek(a.st, ElementAt(Src(r), Slot(base, k)))
                  acc == IF k = 0 THEN value ELSE Combine(r.kind, r.float, a.acc, value)
              IN IF ~InArena(ElementAt(Src(r), Slot(base, k))) THEN [a EXCEPT !.st = Refuse(@)]
                 ELSE [acc |-> acc, st |-> Put(a.st, {}, ElementAt(Dst(r), Slot(base, k)), acc)]
        IN ForEach(s, [Dst(r).sizes EXCEPT ![ax] = 1], LAMBDA t, base :
             FoldLeft(LAMBDA a, k : Step(base, a, k), [st |-> t, acc |-> 0],
                      [k \in 1..n |-> k - 1]).st)
  IN FoldLeft(Pass, st, [p \in DOMAIN r.axes |-> p])

ScanOk(r) == r.axes # <<>> /\ \A k \in DOMAIN r.axes : AxisOk(r.axes[k], Rank(Src(r)))
Scan(r, st) ==
  LET Pass(s, p) ==
        LET ax == Axis(r.axes[p], Rank(Src(r)))
            from == IF p = 1 THEN Src(r) ELSE Dst(r)
            n == Dst(r).sizes[ax]
            Line(t, base) ==
              LET At(v, k) == ElementAt(v, [base EXCEPT ![ax] = IF r.reverse THEN n - 1 - k ELSE k])
                  Accumulate(a, k) ==
                    LET value == Peek(a.st, At(from, k))
                        acc == IF k = 0 THEN value ELSE Combine(r.kind, r.float, a.acc, value)
                    IN IF ~InArena(At(from, k)) \/ a.st.failed THEN [a EXCEPT !.st = Refuse(@)]
                       ELSE [st |-> Put(a.st, {At(from, k)}, At(Dst(r), k), acc), acc |-> acc]
              IN FoldLeft(Accumulate, [st |-> t, acc |-> 0], [k \in 1..n |-> k - 1]).st
        IN ForEach(s, [Dst(r).sizes EXCEPT ![ax] = 1], Line)
  IN FoldLeft(Pass, st, [p \in DOMAIN r.axes |-> p])

\* srcs = <<>> for a scalar source
VBrc(r, st) ==
  ForEach(st, Dst(r).sizes, LAMBDA s, i :
    IF r.srcs = <<>> THEN Put(s, {}, ElementAt(Dst(r), i), r.scalar)
    ELSE Move(s, ElementAt(Src(r), SourceIndex(i, Src(r), <<>>)), ElementAt(Dst(r), i)))

VArangeOk(r) == Len(r.strides) = Rank(Dst(r))
VArange(r, st) ==
  ForEach(st, Dst(r).sizes, LAMBDA s, i :
    Put(s, {}, ElementAt(Dst(r), i), Wrap(r.offset + Dot(i, r.strides))))

\* The destination index a source element folds into.
ReducedIndex(i, dst, reduceDims) ==
  LET zeroed == [d \in DOMAIN i |-> IF d - 1 \in reduceDims THEN 0 ELSE i[d]]
      kept == SelectSeq([d \in DOMAIN i |-> d], LAMBDA d : d - 1 \notin reduceDims)
  IN IF Rank(dst) = Len(i)
     THEN [d \in DOMAIN i |-> IF dst.sizes[d] = 1 THEN 0 ELSE zeroed[d]]
     ELSE [k \in DOMAIN kept |-> zeroed[kept[k]]]

\* r.initialized: already_initialize_init, the destination holds the start value
VReduce(r, st) ==
  LET seeded == IF r.initialized THEN st
                ELSE ForEach(st, Dst(r).sizes, LAMBDA s, i :
                       Put(s, {}, ElementAt(Dst(r), i), r.init))
      Fold(s, i) ==
        LET from == ElementAt(Src(r), i)
            slot == ElementAt(Dst(r), ReducedIndex(i, Dst(r), r.dims))
        IN Put(s, {from, slot}, slot, Combine(r.kind, r.float, Peek(s, slot), Peek(s, from)))
  IN ForEach(seeded, Src(r).sizes, Fold)

VTransposeOk(r) == Rank(Src(r)) = 2 /\ Rank(Dst(r)) = 2
VTranspose(r, st) ==
  ForEach(st, Dst(r).sizes, LAMBDA s, i :
    Move(s, ElementAt(Src(r), <<i[2], i[1]>>), ElementAt(Dst(r), i)))
=============================================================================
