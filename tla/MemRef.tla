------------------------------- MODULE MemRef -------------------------------
(***************************************************************************)
(* The strided views the interpreter computes with (MemRefValue), the      *)
(* operations that derive one view from another without moving data, and   *)
(* the byte ranges a view is declared as to the race detector.             *)
(*                                                                         *)
(* A view is a record: its arena, the byte offset of its first element,    *)
(* the byte offset of the allocation it sits in, extents and strides in    *)
(* elements, the bytes of an element and its layout tag.  The element type *)
(* is left out: the kernels say what kind of number they compute with.     *)
(*                                                                         *)
(* Divisions follow C++: the quotient is truncated towards zero and the    *)
(* remainder takes the sign of the dividend.                               *)
(***************************************************************************)
EXTENDS Integers, Sequences, FiniteSets, SequencesExt

CONSTANT MaxRanges      \* kMaxRanges: 1024 in the code

ASSUME MaxRangesAssumption == MaxRanges \in Nat

Dynamic == -1           \* ShapedType::kDynamic in a static shape

Dims(s) == DOMAIN s
Product(s) == FoldLeft(LAMBDA acc, n : acc * n, 1, s)
Dot(i, strides) ==
  FoldLeft(LAMBDA acc, d : acc + i[d] * strides[d], 0, [d \in Dims(i) |-> d])

Quotient(a, n) == IF a >= 0 THEN a \div n ELSE -((-a) \div n)
Remainder(a, n) == a - n * Quotient(a, n)

(***************************************************************************)
(* The index tuples of a shape in row-major order, as forEachIndex visits  *)
(* them: none when an extent is not positive, one when the rank is zero.   *)
(***************************************************************************)
Indices(sizes) ==
  FoldLeft(LAMBDA acc, n :
             FlattenSeq([k \in DOMAIN acc |-> [j \in 1..n |-> Append(acc[k], j - 1)]]),
           << <<>> >>, sizes)

DenseStrides(sizes) ==
  [d \in Dims(sizes) |-> Product(SubSeq(sizes, d + 1, Len(sizes)))]

----------------------------------------------------------------------------
(* MemRefValue *)

Rank(v) == Len(v.sizes)
NumElements(v) == Product(v.sizes)

ByteAddr(v, i) == v.off + v.eb * Dot(i, v.strides)

ByteAddrLinear(v, pos) ==
  LET Peel(st, d) ==
        IF v.sizes[d] <= 0 THEN st
        ELSE [pos |-> Quotient(st.pos, v.sizes[d]),
              delta |-> st.delta + Remainder(st.pos, v.sizes[d]) * v.strides[d]]
      fastestFirst == Reverse([d \in Dims(v.sizes) |-> d])
  IN v.off + v.eb * FoldLeft(Peel, [pos |-> pos, delta |-> 0], fastestFirst).delta

IsContiguous(v) ==
  LET Ok(d) == \/ v.sizes[d] = 1
               \/ /\ v.sizes[d] > 0
                  /\ v.strides[d] = Product(SubSeq(v.sizes, d + 1, Rank(v)))
  IN \A d \in Dims(v.sizes) : Ok(d)

SpannedBytes(v) ==
  LET extents == [d \in Dims(v.sizes) |->
                    IF v.sizes[d] <= 0 THEN 0 ELSE (v.sizes[d] - 1) * v.strides[d]]
      Total(Keep(_)) == FoldLeft(LAMBDA acc, x : IF Keep(x) THEN acc + x ELSE acc, 0, extents)
      lowest == Total(LAMBDA x : x < 0)
      highest == Total(LAMBDA x : x >= 0)
  IN [arena |-> v.arena, lo |-> v.off + lowest * v.eb, hi |-> v.off + highest * v.eb + v.eb]

\* Mutant of CollectRanges: every strided view is taken for rows of adjacent elements.
MutCollectRanges(v) ==
  LET rows == Indices(SubSeq(v.sizes, 1, Rank(v) - 1))
      RowAt(lo) == [arena |-> v.arena, lo |-> lo, hi |-> lo + v.sizes[Rank(v)] * v.eb]
  IN IF NumElements(v) <= 0 THEN {}
     ELSE IF IsContiguous(v) \/ Len(rows) > MaxRanges THEN {SpannedBytes(v)}
     ELSE {RowAt(ByteAddr(v, Append(rows[k], 0))) : k \in DOMAIN rows}

(***************************************************************************)
(* collectRanges: the byte ranges an operand of this view is declared as.  *)
(***************************************************************************)
CollectRanges(v) ==
  LET rank == Rank(v)
      RunAt(lo, count) == [arena |-> v.arena, lo |-> lo, hi |-> lo + count * v.eb]
      innerContiguous == rank = 0 \/ v.strides[rank] = 1
      rows == Indices(SubSeq(v.sizes, 1, rank - 1))
  IN CASE NumElements(v) <= 0 -> {}
       [] NumElements(v) > 0 /\ IsContiguous(v) -> {SpannedBytes(v)}
       [] NumElements(v) > 0 /\ ~IsContiguous(v) /\ ~innerContiguous ->
            IF NumElements(v) <= MaxRanges
            THEN {RunAt(ByteAddrLinear(v, n), 1) : n \in 0..NumElements(v) - 1}
            ELSE {SpannedBytes(v)}
       [] OTHER ->
            IF Len(rows) <= MaxRanges
            THEN {RunAt(ByteAddr(v, Append(rows[k], 0)), v.sizes[rank]) : k \in DOMAIN rows}
            ELSE {SpannedBytes(v)}

BytesOf(ranges) == UNION {{<<r.arena, b>> : b \in r.lo..r.hi - 1} : r \in ranges}

----------------------------------------------------------------------------
(* Deriving views.  Each guard is the handler's own check, each result the *)
(* view it binds.                                                          *)

SubView(v, offsets, sizes, strides, dropped) ==
  LET Keep(s) == SelectSeq([d \in Dims(s) |-> <<d, s[d]>>], LAMBDA p : p[1] \notin dropped)
      Second(s) == [k \in DOMAIN s |-> s[k][2]]
  IN [v EXCEPT !.off = @ + v.eb * Dot(offsets, v.strides),
               !.sizes = Second(Keep(sizes)),
               !.strides = Second(Keep([d \in Dims(sizes) |-> strides[d] * v.strides[d]]))]

\* memref.view: the shifted address becomes the new allocation base
ByteView(v, byteShift, sizes, eb) ==
  [v EXCEPT !.off = @ + byteShift, !.base = v.off + byteShift,
            !.sizes = sizes, !.strides = DenseStrides(sizes), !.eb = eb]

\* Mutant of ReinterpretCast: the offset is counted from the view, not from the allocation.
MutReinterpretCast(v, offset, sizes, strides, eb) ==
  [v EXCEPT !.off = @ + offset * eb, !.sizes = sizes, !.strides = strides, !.eb = eb]

\* memref.reinterpret_cast: the offset is set from the base, never added up
ReinterpretCast(v, offset, sizes, strides, eb) ==
  [v EXCEPT !.off = v.base + offset * eb, !.sizes = sizes, !.strides = strides, !.eb = eb]

\* Mutant of Retype: a dynamic extent of the result type overwrites a known one.
MutRetype(v, shape) ==
  [v EXCEPT !.sizes = [d \in Dims(@) |-> IF d \in Dims(shape) THEN shape[d] ELSE @[d]]]

\* memref.cast and memory_space_cast: static extents of the result win
Retype(v, shape) ==
  [v EXCEPT !.sizes = [d \in Dims(@) |-> IF d \in Dims(shape) /\ shape[d] # Dynamic
                                         THEN shape[d] ELSE @[d]]]

ReshapeOk(v, shape, declared) ==
  /\ Cardinality({d \in Dims(shape) : shape[d] = Dynamic}) <= 1
  /\ declared = <<>> => IsContiguous(v)

\* declared = <<>>: the result type does not state every stride
Reshape(v, shape, declared) ==
  LET known == Product(SelectSeq(shape, LAMBDA n : n # Dynamic))
      sizes == [d \in Dims(shape) |-> IF shape[d] = Dynamic /\ known > 0
                                      THEN NumElements(v) \div known ELSE shape[d]]
  IN [v EXCEPT !.sizes = sizes,
               !.strides = IF declared # <<>> THEN declared ELSE DenseStrides(sizes)]

ConvertLayoutOk(v, declared) == v.layout = declared
ConvertLayout(v, to, shape) ==
  LET relabelled == [v EXCEPT !.layout = to]
  IN IF \E d \in Dims(shape) : shape[d] = Dynamic THEN relabelled
     ELSE [relabelled EXCEPT !.sizes = shape, !.strides = DenseStrides(shape)]

BitcastOk(v, eb) == v.eb = eb

\* pointer_cast and inttoptr: a view at a byte address baked into the program
AtAddress(arena, address, sizes, eb) ==
  [arena |-> arena, off |-> address, base |-> address, sizes |-> sizes,
   strides |-> DenseStrides(sizes), eb |-> eb, layout |-> "ND"]
PointerCastOk(v, capacity) ==
  v.off >= 0 /\ v.off + NumElements(v) * v.eb <= capacity

GEP(ptr, indices, eb) ==
  [ptr EXCEPT !.off = @ + eb * FoldLeft(LAMBDA acc, n : acc + n, 0, indices)]
=============================================================================
