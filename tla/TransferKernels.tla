-------------------------- MODULE TransferKernels --------------------------
(***************************************************************************)
(* The operations that move data between buffers: the copy family with its *)
(* padding and atomic stores, the layout-changing copies, the indirect and *)
(* strided accesses, compare-and-swap and exchange.  Requests are as in    *)
(* ShapeKernels; r.mask is a sequence of at most one view.                 *)
(***************************************************************************)
EXTENDS ShapeKernels, Bitwise

(***************************************************************************)
(* issueCopy: the destination drives the loop.  The source index of a      *)
(* destination index aligns trailing dimensions, shifts the last one by    *)
(* the left padding and reads an extent of one as a broadcast.             *)
(***************************************************************************)
CopyIndex(i, src, left) ==
  LET rank == Rank(src)
      shift == Len(i) - rank
      Shifted(d) == (IF shift + d >= 1 THEN i[shift + d] ELSE 0) - (IF d = rank THEN left ELSE 0)
  IN [d \in 1..rank |-> IF src.sizes[d] = 1 THEN 0 ELSE Shifted(d)]

InExtent(i, v) == \A d \in DOMAIN i : i[d] \in 0..v.sizes[d] - 1

\* r.pad is <<>> or <<value>>: what fills the positions outside the source
Copy(r, st) ==
  ForEach(st, Dst(r).sizes, LAMBDA s, i :
    LET from == CopyIndex(i, Src(r), r.left)
    IN IF InExtent(from, Src(r)) THEN Move(s, ElementAt(Src(r), from), ElementAt(Dst(r), i))
       ELSE IF r.pad # <<>> THEN Put(s, {}, ElementAt(Dst(r), i), r.pad[1])
       ELSE s)

\* PadFirstElem reads the first element when the load is issued.
LoadIssued(r, mem) ==
  LET first == ElementAt(Src(r), [d \in DOMAIN Src(r).sizes |-> 0])
  IN [r EXCEPT !.pad = CASE r.padMode = "first" /\ InArena(first) -> <<mem[first.arena][first.lo]>>
                         [] r.padMode = "value" -> r.pad
                         [] OTHER -> <<>>]

CopyOk(r) == Src(r).layout = Dst(r).layout        \* checkLayout

Bitwise2(Op(_, _), a, b) == Wrap(Op(Unsigned(a), Unsigned(b)))

AtomicCombine(kind, float, a, b) ==
  CASE kind = "add" -> Combine("sum", float, a, b)
    [] kind = "max" -> IF float THEN (IF FloatGreater(a, b) THEN a ELSE b) ELSE Larger(a, b)
    [] kind = "min" -> IF float THEN (IF FloatGreater(b, a) THEN a ELSE b) ELSE Smaller(a, b)
    [] kind = "umax" -> IF Unsigned(a) > Unsigned(b) THEN a ELSE b
    [] kind = "umin" -> IF Unsigned(a) < Unsigned(b) THEN a ELSE b
    [] kind = "and" -> Bitwise2(LAMBDA x, y : x & y, a, b)
    [] kind = "or" -> Bitwise2(LAMBDA x, y : x | y, a, b)
    [] kind = "xor" -> Bitwise2(LAMBDA x, y : x ^^ y, a, b)

AtomicStore(r, st) ==
  ForEach(st, Dst(r).sizes, LAMBDA s, i :
    LET incoming == ElementAt(Src(r), i)
        existing == ElementAt(Dst(r), i)
    IN Put(s, {incoming, existing}, existing,
           AtomicCombine(r.kind, r.float, Peek(s, existing), Peek(s, incoming))))

\* Rank-4 fractal views keep their bytes in dense logical order.
LogicalStorage(v) == IF Rank(v) = 4 THEN [v EXCEPT !.strides = DenseStrides(v.sizes)] ELSE v

LayoutCopy(r, st) ==
  LET src == LogicalStorage(Src(r))
      dst == LogicalStorage(Dst(r))
      Transfer(s, n) == IF n < NumElements(src) THEN Move(s, ElementNo(src, n), ElementNo(dst, n))
                        ELSE Put(s, {}, ElementNo(dst, n), 0)
  IN FoldLeft(Transfer, st, [k \in 1..NumElements(dst) |-> k - 1])

\* fixpipe ROW_SPLIT: one destination per vector lane of the block
RowSplitOk(r) == NumElements(Src(r)) >= 2 * NumElements(Dst(r))
RowSplit(r, st) ==
  LET src == LogicalStorage(Src(r))
      count == NumElements(Dst(r))
      Lane(s, l) ==
        FoldLeft(LAMBDA t, n : Move(t, ElementNo(src, (l - 1) * count + n), ElementNo(r.dsts[l], n)),
                 s, [k \in 1..count |-> k - 1])
  IN FoldLeft(Lane, st, [l \in DOMAIN r.dsts |-> l])

----------------------------------------------------------------------------
(* Indirect and strided accesses *)

WholeBuffer(v) == IF NumElements(v) <= 0 THEN {} ELSE {SpannedBytes(v)}

MaskPlace(r, i) == {ElementAt(r.mask[k], i) : k \in DOMAIN r.mask}
MaskAllows(r, s, i) == \A p \in MaskPlace(r, i) : Magnitude(Peek(s, p)) # 0

\* srcs = <<source, offsets>>, followed by `other' when there is one
IndirectLoad(r, st) ==
  LET Element(s, i) ==
        LET masked == Look(s, MaskPlace(r, i))
            offset == ElementAt(r.srcs[2], i)
            looked == Look(masked, {offset})
        IN IF masked.failed THEN masked
           ELSE IF MaskAllows(r, s, i)
           THEN IF looked.failed THEN looked
                ELSE Move(looked, ElementNo(Src(r), Peek(s, offset)), ElementAt(Dst(r), i))
           ELSE IF Len(r.srcs) = 2 THEN masked
           ELSE Move(masked, ElementAt(r.srcs[3], i), ElementAt(Dst(r), i))
  IN ForEach(st, Dst(r).sizes, Element)

IndirectStore(r, st) ==
  LET Element(s, i) ==
        LET masked == Look(s, MaskPlace(r, i))
            offset == ElementAt(r.srcs[2], i)
            looked == Look(masked, {offset})
        IN IF masked.failed \/ ~MaskAllows(r, s, i) THEN masked
           ELSE IF looked.failed THEN looked
           ELSE Move(looked, ElementAt(Src(r), i), ElementNo(Dst(r), Peek(s, offset)))
  IN ForEach(st, Src(r).sizes, Element)

StrideOk(r, v) == Len(r.strides) = Rank(v) /\ Len(r.numels) = Rank(v)
WithinNumels(r, i) == \A d \in DOMAIN i : i[d] < r.numels[d]

StrideLoadOk(r) == StrideOk(r, Dst(r))
StrideLoad(r, st) ==
  ForEach(st, Dst(r).sizes, LAMBDA s, i :
    IF WithinNumels(r, i)
    THEN Move(s, ElementNo(Src(r), r.offset + Dot(i, r.strides)), ElementAt(Dst(r), i))
    ELSE Put(s, {}, ElementAt(Dst(r), i), r.pad[1]))

StrideStoreOk(r) == StrideOk(r, Src(r))
StrideStore(r, st) ==
  ForEach(st, Src(r).sizes, LAMBDA s, i :
    IF WithinNumels(r, i)
    THEN Move(s, ElementAt(Src(r), i), ElementNo(Dst(r), r.offset + Dot(i, r.strides)))
    ELSE s)

\* srcs = <<expected, desired>>: representations are compared, not numbers
AtomicCas(r, st) ==
  ForEach(st, Dst(r).sizes, LAMBDA s, i :
    LET current == ElementAt(Dst(r), i)
        want == ElementAt(r.srcs[1], i)
        next == ElementAt(r.srcs[2], i)
        looked == Look(s, {current, want, next})
    IN IF looked.failed \/ Peek(s, current) # Peek(s, want) THEN looked
       ELSE Move(looked, next, current))

AtomicXchg(r, st) ==
  ForEach(st, Dst(r).sizes, LAMBDA s, i :
    LET masked == Look(s, MaskPlace(r, i))
    IN IF masked.failed \/ ~MaskAllows(r, s, i) THEN masked
       ELSE Move(masked, ElementAt(Src(r), i), ElementAt(Dst(r), i)))
=============================================================================
