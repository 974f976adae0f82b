------------------------------- MODULE Kernels -------------------------------
(***************************************************************************)
(* One core derives a view by a chain of view operations, issues a data    *)
(* operation on it and later commits its effect.  The ghost variables say  *)
(* what the views mean: elements gives the byte address of each element,   *)
(* carried along each derivation from the meaning of the operation and not *)
(* from offsets and strides, and aligned is the pointer that casts are     *)
(* relative to.                                                            *)
(***************************************************************************)
EXTENDS KernelSpec

CONSTANTS
  Memory,         \* the initial contents of the arenas
  Bindings,       \* pointer_cast and inttoptr results the program may bind
  Derivations,    \* the view operations it may apply, with their attributes
  Requests(_),    \* the data operations it may issue on a view
  MaxChain        \* bound on the length of a chain of view operations

VARIABLES view, elements, aligned, depth,     \* the view and its meaning
          phase, req,                         \* the effect in flight
          mem, before, result                 \* memory now and at the commit

vars == <<view, elements, aligned, depth, phase, req, mem, before, result>>

NoRequest == [op |-> "none"]
NoResult == Started(<<>>)

Init ==
  /\ view = AtAddress("gm", 0, <<0>>, 1)
  /\ elements = <<>> /\ aligned = 0 /\ depth = 0
  /\ phase = "unbound" /\ req = NoRequest
  /\ mem = Memory /\ before = Memory /\ result = NoResult

----------------------------------------------------------------------------
(* Views *)

IndexSet(sizes) == ToSet(Indices(sizes))
RankOf(i, sizes) == LinearIndex(i, sizes)       \* row-major position

Derived(v, meaning, pointer) ==
  /\ view' = v /\ elements' = meaning /\ aligned' = pointer
  /\ depth' = depth + 1
  /\ UNCHANGED <<phase, req, mem, before, result>>

Rejected ==
  /\ phase' = "error"
  /\ UNCHANGED <<view, elements, aligned, depth, req, mem, before, result>>

\* hivm.hir.pointer_cast, llvm.inttoptr: a dense view at an address
Bind ==
  \E v \in Bindings :
    /\ phase = "unbound"
    /\ IF PointerCastOk(v, Capacity[v.arena])
       THEN /\ view' = v /\ aligned' = v.off
            /\ elements' = [i \in IndexSet(v.sizes) |-> v.off + v.eb * RankOf(i, v.sizes)]
            /\ phase' = "views"
            /\ UNCHANGED <<depth, req, mem, before, result>>
       ELSE Rejected

Deriving(name, d) == phase = "views" /\ depth < MaxChain /\ d \in Derivations /\ d.op = name

\* The verifier's condition: the selected elements exist.
SubViewFits(d) ==
  /\ Len(d.sizes) = Rank(view)
  /\ \A k \in DOMAIN d.sizes :
       d.sizes[k] > 0 => d.offsets[k] + (d.sizes[k] - 1) * d.strides[k] < view.sizes[k]

DeriveSubView ==
  \E d \in Derivations :
    /\ Deriving("subview", d) /\ SubViewFits(d)
    /\ LET v == SubView(view, d.offsets, d.sizes, d.strides, d.dropped)
           Kept(k) == Cardinality({j \in 1..k : j \notin d.dropped})
           Full(i) == [k \in DOMAIN d.sizes |-> IF k \in d.dropped THEN 0 ELSE i[Kept(k)]]
           Selected(i) == [k \in DOMAIN d.sizes |-> d.offsets[k] + Full(i)[k] * d.strides[k]]
       IN Derived(v, [i \in IndexSet(v.sizes) |-> elements[Selected(i)]], aligned)

DeriveByteView ==
  \E d \in Derivations :
    /\ Deriving("view", d)
    /\ Rank(view) = 1 /\ view.eb = 1 /\ IsContiguous(view)
    /\ d.shift + Product(d.sizes) * d.eb <= view.sizes[1]
    /\ LET v == ByteView(view, d.shift, d.sizes, d.eb)
       IN Derived(v, [i \in IndexSet(d.sizes) |-> elements[<<d.shift + d.eb * RankOf(i, d.sizes)>>]],
                  elements[<<d.shift>>])

DeriveReinterpretCast ==
  \E d \in Derivations :
    /\ Deriving("reinterpret_cast", d)
    /\ Derived(ReinterpretCast(view, d.offset, d.sizes, d.strides, d.eb),
               [i \in IndexSet(d.sizes) |-> aligned + d.eb * (d.offset + Dot(i, d.strides))],
               aligned)

\* The verifier's condition: the extents agree where both are known.
DeriveCast ==
  \E d \in Derivations :
    /\ Deriving("cast", d) /\ Len(d.shape) = Rank(view)
    /\ \A k \in DOMAIN d.shape : d.shape[k] \in {Dynamic, view.sizes[k]}
    /\ Derived(Retype(view, d.shape), elements, aligned)

\* A result type that states its strides states the ones of the source's rows.
DeriveReshape ==
  \E d \in Derivations :
    /\ Deriving("reshape", d) /\ NumElements(view) > 0
    /\ LET v == Reshape(view, d.shape, d.declared)
           Same(i) == Indices(view.sizes)[RankOf(i, v.sizes) + 1]
       IN IF ReshapeOk(view, d.shape, d.declared)
          THEN /\ NumElements(v) = NumElements(view)
               /\ d.declared # <<>> => d.from = view.strides
               /\ Derived(v, [i \in IndexSet(v.sizes) |-> elements[Same(i)]], aligned)
          ELSE Rejected

DeriveConvertLayout ==
  \E d \in Derivations :
    /\ Deriving("convert_layout", d)
    /\ IF ConvertLayoutOk(view, d.declared)
       THEN /\ IsContiguous(view) /\ Product(d.shape) = NumElements(view)
            /\ Derived(ConvertLayout(view, d.to, d.shape),
                       [i \in IndexSet(d.shape) |->
                          elements[Indices(view.sizes)[RankOf(i, d.shape) + 1]]],
                       aligned)
       ELSE Rejected

DeriveBitcast ==
  \E d \in Derivations :
    /\ Deriving("bitcast", d)
    /\ IF BitcastOk(view, d.eb) THEN Derived(view, elements, aligned) ELSE Rejected

DeriveGEP ==
  \E d \in Derivations :
    /\ Deriving("getelementptr", d) /\ view.sizes = <<1>>
    /\ LET steps == FoldLeft(LAMBDA acc, n : acc + n, 0, d.indices)
       IN Derived(GEP(view, d.indices, d.eb),
                  [i \in {<<0>>} |-> elements[i] + d.eb * steps], aligned)

----------------------------------------------------------------------------
(* Data operations *)

Accepts(r) ==
  CASE r.op = "vflip" -> VFlipOk(r)
    [] r.op = "vconcat" -> VConcatOk(r)
    [] r.op = "vpad" -> VPadOk(r)
    [] r.op = "vgather" -> VGatherOk(r)
    [] r.op = "vinterleave" -> VInterleaveOk(r)
    [] r.op = "vdeinterleave" -> VDeinterleaveOk(r)
    [] r.op = "vsort" -> VSortOk(r)
    [] r.op = "scan" -> ScanOk(r)
    [] r.op = "varange" -> VArangeOk(r)
    [] r.op = "vtranspose" -> VTransposeOk(r)
    [] r.op = "copy" -> CopyOk(r)
    [] r.op = "row_split" -> RowSplitOk(r)
    [] r.op = "stride_load" -> StrideLoadOk(r)
    [] r.op = "stride_store" -> StrideStoreOk(r)
    [] r.op = "vector" -> TransferReadOk(r)
    [] OTHER -> TRUE

\* What is settled when the operation is issued rather than when it commits.
Captured(r) ==
  CASE r.op = "load" -> LoadIssued(r, mem)
    [] r.op = "vector" -> [r EXCEPT !.vec = VectorValue(r, mem)]
    [] OTHER -> r

Ranges(views) == UNION {CollectRanges(views[k]) : k \in DOMAIN views}

\* Mutant of Reads: the ranges of the mask are not declared.
MutReads(r) ==
  CASE r.op \in {"indirect_load", "stride_load"} -> WholeBuffer(Src(r)) \cup Ranges(Tail(r.srcs))
    [] r.op = "vector" -> {SpannedBytes(Src(r))}
    [] OTHER -> Ranges(r.srcs) \cup Ranges(r.dsts)

Reads(r) ==
  LET declared == Ranges(r.srcs) \cup Ranges(r.mask)
      alsoDst == r.op \in {"atomic_store", "atomic_cas"} \/ (r.op = "vreduce" /\ r.initialized)
  IN CASE r.op \in {"indirect_load", "stride_load"} ->
            WholeBuffer(Src(r)) \cup Ranges(Tail(r.srcs)) \cup Ranges(r.mask)
       [] r.op = "vector" -> {SpannedBytes(Src(r))}
       [] OTHER -> declared \cup (IF alsoDst THEN Ranges(r.dsts) ELSE {})

Writes(r) ==
  IF r.op \in {"indirect_store", "stride_store"} THEN WholeBuffer(Dst(r)) ELSE Ranges(r.dsts)

Effect(r, st) ==
  CASE r.op = "vflip" -> VFlip(r, st)
    [] r.op = "vconcat" -> VConcat(r, st)
    [] r.op = "vpad" -> VPad(r, st)
    [] r.op = "vgather" -> VGather(r, st)
    [] r.op = "vinterleave" -> VInterleave(r, st)
    [] r.op = "vdeinterleave" -> VDeinterleave(r, st)
    [] r.op = "vsort" -> VSort(r, st)
    [] r.op = "scan" -> Scan(r, st)
    [] r.op = "vbrc" -> VBrc(r, st)
    [] r.op = "varange" -> VArange(r, st)
    [] r.op = "vreduce" -> VReduce(r, st)
    [] r.op = "vtranspose" -> VTranspose(r, st)
    [] r.op \in {"load", "store", "copy"} -> Copy(r, st)
    [] r.op = "atomic_store" -> AtomicStore(r, st)
    [] r.op = "layout" -> LayoutCopy(r, st)
    [] r.op = "row_split" -> RowSplit(r, st)
    [] r.op = "indirect_load" -> IndirectLoad(r, st)
    [] r.op = "indirect_store" -> IndirectStore(r, st)
    [] r.op = "stride_load" -> StrideLoad(r, st)
    [] r.op = "stride_store" -> StrideStore(r, st)
    [] r.op = "atomic_cas" -> AtomicCas(r, st)
    [] r.op = "atomic_xchg" -> AtomicXchg(r, st)
    [] r.op = "elementwise" -> Elementwise(r, st)
    [] r.op = "vector" -> TransferWrite(r, st)

Issue ==
  \E r \in Requests(view) :
    /\ phase = "views"
    /\ IF Accepts(r)
       THEN /\ phase' = "issued" /\ req' = Captured(r)
            /\ UNCHANGED <<view, elements, aligned, depth, mem, before, result>>
       ELSE Rejected

Commit ==
  /\ phase = "issued"
  /\ result' = Effect(req, Started(mem))
  /\ mem' = result'.mem /\ before' = mem
  /\ phase' = IF result'.failed THEN "error" ELSE "done"
  /\ UNCHANGED <<view, elements, aligned, depth, req>>

Next ==
  \/ Bind
  \/ DeriveSubView \/ DeriveByteView \/ DeriveReinterpretCast \/ DeriveCast
  \/ DeriveReshape \/ DeriveConvertLayout \/ DeriveBitcast \/ DeriveGEP
  \/ Issue \/ Commit

Spec == Init /\ [][Next]_vars

----------------------------------------------------------------------------
(* Properties *)

(* Types; the contents of a view's fields are Ints of either sign.          *)
KernelTypeOK ==
  /\ view \in [arena : DOMAIN Capacity, off : Int, base : Int, sizes : Seq(Nat),
               strides : Seq(Int), eb : {1, 2}, layout : {"ND", "NZ", "ZN"}]
  /\ phase \in {"unbound", "views", "issued", "done", "error"}
  /\ depth \in 0..MaxChain
  /\ DOMAIN mem = DOMAIN Capacity /\ DOMAIN before = DOMAIN Capacity
  /\ \A a \in DOMAIN Capacity : DOMAIN mem[a] = 0..Capacity[a] - 1

(* However views are chained, the offset, extents and strides of the result *)
(* address exactly the elements the chain selects, also when they are       *)
(* counted linearly, and the base is the pointer casts are relative to.     *)
ViewsKeepElements ==
  phase # "unbound" =>
    /\ DOMAIN elements = IndexSet(view.sizes)
    /\ \A i \in DOMAIN elements :
         /\ ByteAddr(view, i) = elements[i]
         /\ ByteAddrLinear(view, RankOf(i, view.sizes)) = elements[i]
    /\ view.base = aligned

(* The byte ranges declared for a view cover every element of it; while the *)
(* view needs at most MaxRanges runs they cover nothing else.               *)
RangesExact ==
  LET bytes == UNION {elements[i]..elements[i] + view.eb - 1 : i \in DOMAIN elements}
      declared == {b[2] : b \in BytesOf(CollectRanges(view))}
  IN phase = "views" =>
       /\ bytes \subseteq declared
       /\ NumElements(view) <= MaxRanges => declared = bytes

(* An effect loads and stores only bytes its operation declared: what the   *)
(* race detector and the shadow memory are told is all that happens.  A     *)
(* destination may be read back, its core owns it.                          *)
Footprint ==
  phase \in {"done", "error"} /\ req # NoRequest =>
    /\ BytesOf(result.stored) \subseteq BytesOf(Writes(req))
    /\ BytesOf(result.loaded) \subseteq BytesOf(Reads(req)) \cup BytesOf(Writes(req))

Meets(r, old, new) ==
  CASE r.op = "vflip" -> FlipMeets(r, old, new)
    [] r.op = "vconcat" -> ConcatMeets(r, old, new)
    [] r.op = "vpad" -> PadMeets(r, old, new)
    [] r.op = "vgather" -> GatherMeets(r, old, new)
    [] r.op = "vinterleave" -> InterleaveMeets(r, old, new)
    [] r.op = "vdeinterleave" -> DeinterleaveMeets(r, old, new)
    [] r.op = "vsort" -> SortMeets(r, old, new)
    [] r.op = "scan" -> ScanMeets(r, old, new)
    [] r.op = "vbrc" -> BrcMeets(r, old, new)
    [] r.op = "varange" -> ArangeMeets(r, old, new)
    [] r.op = "vreduce" -> ReduceMeets(r, old, new)
    [] r.op = "vtranspose" -> TransposeMeets(r, old, new)
    [] r.op \in {"load", "store", "copy"} -> CopyMeets(r, old, new)
    [] r.op = "atomic_store" -> AtomicMeets(r, old, new)
    [] r.op = "layout" -> LayoutMeets(r, old, new)
    [] r.op = "row_split" -> SplitMeets(r, old, new)
    [] r.op = "indirect_load" -> IndirectLoadMeets(r, old, new)
    [] r.op = "indirect_store" -> IndirectStoreMeets(r, old, new)
    [] r.op = "stride_load" -> StrideLoadMeets(r, old, new)
    [] r.op = "stride_store" -> StrideStoreMeets(r, old, new)
    [] r.op = "atomic_cas" -> CasMeets(r, old, new)
    [] r.op = "atomic_xchg" -> XchgMeets(r, old, new)
    [] r.op = "elementwise" -> ElementwiseMeets(r, old, new)
    [] r.op = "vector" -> VectorMeets(r, old, new)

(* A committed operation has made its destination what it promises, through *)
(* whatever strides, offsets and shapes its operands have, in place where   *)
(* that is allowed, and has changed no element outside its destination.     *)
ResultMeetsSpec ==
  phase = "done" =>
    LET targets == UNION {{<<v.arena, ByteAddr(v, i)>> : i \in Ix(v)} :
                          v \in {LogicalStorage(req.dsts[k]) : k \in DOMAIN req.dsts}}
    IN /\ Meets(req, before, mem)
       /\ \A a \in DOMAIN Capacity : \A b \in DOMAIN mem[a] :
            mem[a][b] # before[a][b] => <<a, b>> \in targets

(* Architecture.md:383: an index outside the source extent is always an     *)
(* error rather than a fold onto some neighbouring element.                 *)
AsksOutside(r, old) ==
  LET Beyond(n, v) == n \notin 0..NumElements(v) - 1
  IN CASE r.op = "vgather" ->
            \E i \in Ix(Dst(r)) : At(old, r.srcs[2], SourceIndex(i, r.srcs[2], <<>>))
                                    \notin 0..Src(r).sizes[Axis(r.axis, Rank(Dst(r)))] - 1
       [] r.op = "indirect_load" ->
            \E i \in Ix(Dst(r)) : Allowed(r, old, i) /\ Beyond(At(old, r.srcs[2], i), Src(r))
       [] r.op = "indirect_store" ->
            \E i \in Ix(Src(r)) : Allowed(r, old, i) /\ Beyond(At(old, r.srcs[2], i), Dst(r))
       [] r.op = "stride_load" ->
            \E i \in Counted(r, Dst(r)) : Beyond(r.offset + Dot(i, r.strides), Src(r))
       [] r.op = "stride_store" ->
            \E i \in Counted(r, Src(r)) : Beyond(r.offset + Dot(i, r.strides), Dst(r))
       [] OTHER -> FALSE
OutsideIndexIsAnError == phase = "done" => ~AsksOutside(req, before)

(* OpsMemory.cpp:38: positions outside the source are filled with the pad   *)
(* value when one is supplied.                                              *)
PadsOutsideTheSource ==
  phase = "done" /\ req.op \in {"load", "copy"} /\ req.pad # <<>> =>
    \A i \in Ix(Dst(req)) :
      LET last == Rank(Src(req))
          inside == Rank(Dst(req)) = last => i[last] - req.left \in 0..Src(req).sizes[last] - 1
      IN ~inside => At(mem, Dst(req), i) = req.pad[1]
=============================================================================
