------------------------------ MODULE MCKernels ------------------------------
(***************************************************************************)
(* Instances of Kernels: arenas of twelve two-byte elements, views of at   *)
(* most eight, chains of two derivations, and every data operation on each *)
(* view it fits, with the view as source, as destination and as both.      *)
(***************************************************************************)
EXTENDS Kernels

CONSTANT Instance      \* which of the request sets below a run issues

MCCapacity == [a \in {"gm", "ub", "aux", "idx", "msk", "flt"} |-> 24]

Floats == <<1, NaN, NegZero, 0, -1, 0, NegZero, 2, -2, NegZero, 1, 0>>
Offsets == <<1, 0, 2, 0, 2, 2, 1, 3, 0, -1, 7, 2>>
Masks == <<1, 0, 1, 1, 0, 1, 0, 0, 1, 1, 0, 1>>

MCMemory ==
  LET Nth(s, b) == s[(b \div 2) + 1]
  IN [a \in DOMAIN MCCapacity |-> [b \in 0..23 |->
        CASE a = "gm" -> (((b * b) \div 4) % 7) - 2
          [] a = "ub" -> ((3 * (b \div 2)) % 8) - 3
          [] a = "aux" -> ((5 * (b \div 2)) % 7) - 4
          [] a = "idx" -> Nth(Offsets, b)
          [] a = "msk" -> Nth(Masks, b)
          [] a = "flt" -> Nth(Floats, b)]]

MCBindings == {
  AtAddress("gm", 4, <<4>>, 2), AtAddress("gm", 2, <<2, 3>>, 2),
  AtAddress("gm", 0, <<2, 2, 2>>, 2), AtAddress("gm", 2, <<18>>, 1),
  AtAddress("gm", 6, <<1>>, 1), AtAddress("gm", 0, <<1, 2, 1, 2>>, 2),
  AtAddress("flt", 2, <<2, 3>>, 2), AtAddress("gm", 8, <<9>>, 2)}

Sub(offsets, sizes, strides, dropped) ==
  [op |-> "subview", offsets |-> offsets, sizes |-> sizes, strides |-> strides, dropped |-> dropped]
Recast(offset, sizes, strides, eb) ==
  [op |-> "reinterpret_cast", offset |-> offset, sizes |-> sizes, strides |-> strides, eb |-> eb]
Shape(shape, declared, from) ==
  [op |-> "reshape", shape |-> shape, declared |-> declared, from |-> from]

MCDerivations == {
  Sub(<<1>>, <<2>>, <<1>>, {}), Sub(<<0>>, <<2>>, <<2>>, {}),
  Sub(<<0, 1>>, <<2, 2>>, <<1, 1>>, {}), Sub(<<1, 0>>, <<1, 2>>, <<1, 2>>, {1}),
  Sub(<<0, 1>>, <<2, 1>>, <<1, 1>>, {}), Sub(<<0, 1>>, <<2, 1>>, <<1, 1>>, {2}),
  Sub(<<0, 0, 1>>, <<2, 2, 1>>, <<1, 1, 1>>, {3}), Sub(<<1, 0, 0>>, <<1, 2, 2>>, <<1, 1, 1>>, {1}),
  [op |-> "view", shift |-> 4, sizes |-> <<2, 3>>, eb |-> 2],
  [op |-> "view", shift |-> 2, sizes |-> <<6>>, eb |-> 1],
  Recast(1, <<2, 2>>, <<3, 1>>, 2), Recast(2, <<2, 2>>, <<1, 2>>, 2),
  Recast(3, <<3>>, <<-1>>, 2), Recast(9, <<4>>, <<1>>, 2),
  [op |-> "cast", shape |-> <<Dynamic, 2>>], [op |-> "cast", shape |-> <<2, 3>>],
  Shape(<<Dynamic>>, <<>>, <<>>), Shape(<<Dynamic, 2>>, <<>>, <<>>),
  Shape(<<Dynamic, Dynamic>>, <<>>, <<>>), Shape(<<2, 2, 1>>, <<3, 1, 1>>, <<3, 1>>),
  [op |-> "convert_layout", declared |-> "ND", to |-> "NZ", shape |-> <<3, 2>>],
  [op |-> "convert_layout", declared |-> "ZN", to |-> "ND", shape |-> <<4>>],
  [op |-> "bitcast", eb |-> 2],
  [op |-> "getelementptr", indices |-> <<2, 1>>, eb |-> 2]}

----------------------------------------------------------------------------
Dense(arena, sizes) == AtAddress(arena, 0, sizes, 2)
At4(arena, sizes) == AtAddress(arena, 8, sizes, 2)
Base(op, srcs, dsts) == [op |-> op, srcs |-> srcs, dsts |-> dsts, mask |-> <<>>]
With(fields, r) == fields @@ r

Reorders(v) ==
  LET n == Rank(v)
      same == Dense("ub", v.sizes)
      doubled(d) == Dense("ub", [v.sizes EXCEPT ![d] = 2 * @])
      padded == Dense("ub", [v.sizes EXCEPT ![n] = @ + 1])
      halved == [v.sizes EXCEPT ![n] = @ \div 2]
      sorted == {Base("vsort", <<v>>, <<same>>), Base("vsort", <<v>>, <<same, Dense("aux", v.sizes)>>),
                 Base("vsort", <<v>>, <<v>>)}
  IN {With([axis |-> a], Base("vflip", <<v>>, <<same>>)) : a \in {0, -1, 3}}
     \cup {With([axis |-> d - 1], Base("vconcat", <<v, Dense("aux", v.sizes)>>, <<doubled(d)>>)) : d \in 1..n}
     \cup {With([axis |-> 0], Base("vconcat", <<v, v>>, <<same>>))}
     \cup {With([low |-> [d \in 1..n |-> IF d = n THEN l ELSE 0],
                 high |-> [d \in 1..n |-> IF d = n THEN 1 - l ELSE 0], pad |-> 5],
                Base("vpad", <<v>>, <<padded>>)) : l \in {0, 1}}
     \cup {With([axis |-> a], Base("vgather", <<v, i>>, <<same>>)) :
             a \in {0, -1}, i \in {Dense("idx", v.sizes), At4("idx", [v.sizes EXCEPT ![1] = 1])}}
     \cup {Base("vinterleave", <<v, Dense("aux", v.sizes)>>, <<doubled(n)>>)}
     \cup (IF v.sizes[n] % 2 # 0 THEN {}
           ELSE {With([channels |-> 2, channel |-> AllChannels],
                      Base("vdeinterleave", <<v>>, <<Dense("ub", halved), Dense("aux", halved)>>)),
                 With([channels |-> 2, channel |-> 1], Base("vdeinterleave", <<v>>, <<Dense("ub", halved)>>))})
     \cup {With([axis |-> -1, descending |-> b], r) : b \in BOOLEAN, r \in sorted}

Scans(v) ==
  {With([kind |-> k, float |-> v.arena = "flt", axes |-> a, reverse |-> b], Base("scan", <<v>>, <<d>>)) :
     k \in IF v.arena = "flt" THEN {"max"} ELSE {"sum", "prod"},
     a \in {<<-1>>} \cup (IF Rank(v) = 1 THEN {} ELSE {<<0, -1>>}), b \in BOOLEAN, d \in {v, Dense("ub", v.sizes)}}

Reductions(v) ==
  LET n == Rank(v)
      flat == Dense("ub", SubSeq(v.sizes, 1, n - 1))
      kept == Dense("ub", [v.sizes EXCEPT ![n] = 1])
  IN {With([kind |-> k, float |-> v.arena = "flt", dims |-> {n - 1}, init |-> 0, initialized |-> b],
           Base("vreduce", <<v>>, <<d>>)) :
        k \in IF v.arena = "flt" THEN {"min", "max"} ELSE {"sum", "max"}, b \in BOOLEAN, d \in {flat, kept}}
     \cup (IF n # 2 THEN {} ELSE {Base("vtranspose", <<v>>, <<Dense("ub", <<v.sizes[2], v.sizes[1]>>)>>)})

Fills(v) ==
  LET unit == Dense("ub", [v.sizes EXCEPT ![1] = 1])
  IN {With([scalar |-> 3], Base("vbrc", <<>>, <<v>>)), Base("vbrc", <<unit>>, <<v>>),
      With([offset |-> 2, strides |-> [d \in DOMAIN v.sizes |-> 3]], Base("varange", <<>>, <<v>>)),
      With([offset |-> 0, strides |-> <<>>], Base("varange", <<>>, <<v>>))}

Copies(v) ==
  LET n == Rank(v)
      same == Dense("ub", v.sizes)
      wider == Dense("ub", [v.sizes EXCEPT ![n] = @ + 1])
      Plain(op, src, dst) == With([left |-> 0, pad |-> <<>>, padMode |-> "none"], Base(op, <<src>>, <<dst>>))
      Padded(mode, left) ==
        With([left |-> left, pad |-> <<5>>, padMode |-> mode], Base("load", <<v>>, <<wider>>))
  IN {Plain("copy", v, same), Plain("store", same, v), Plain("copy", v, v),
      Plain("store", Dense("aux", <<v.sizes[n]>>), v)}
     \cup (IF v.sizes[n] = 1 THEN {}
           ELSE {Padded(m, l) : m \in {"value", "first", "none"}, l \in {0, 1}})

Atomics(v) ==
  LET float == v.arena = "flt"
      same == Dense("ub", v.sizes)
      masks == {<<>>, <<Dense("msk", v.sizes)>>}
  IN {With([kind |-> k, float |-> float], Base("atomic_store", <<s>>, <<v>>)) :
        k \in IF float THEN {"add", "max", "min"}
              ELSE {"add", "max", "min", "umax", "umin", "and", "or", "xor"},
        s \in {same, v}}
     \cup {Base("atomic_cas", <<Dense("aux", v.sizes), same>>, <<v>>),
           Base("atomic_cas", <<v, Dense("aux", v.sizes)>>, <<v>>)}
     \cup {With([mask |-> m], Base("atomic_xchg", <<same>>, <<v>>)) : m \in masks}

Layouts(v) ==
  LET count == NumElements(v) \div 2
      fractal == <<1, NumElements(v), 1, 1>>
  IN {Base("layout", <<v>>, <<Dense("ub", sizes)>>) :
        sizes \in {Reverse(v.sizes), fractal, <<NumElements(v) + 1>>}}
     \cup {Base("layout", <<Dense("ub", fractal)>>, <<v>>)}
     \cup (IF count = 0 THEN {}
           ELSE {Base("row_split", <<v>>, <<Dense("ub", <<count>>), Dense("aux", <<count>>)>>)})

Indirects(v) ==
  LET same == Dense("ub", v.sizes)
      other == At4("aux", v.sizes)
      offsets == {Dense("idx", v.sizes), At4("idx", v.sizes)}
      masks == {<<>>, <<Dense("msk", v.sizes)>>}
      square == Dense("ub", <<2, 2>>)
      Strided(op, src, dst, at, numels) ==
        With([offset |-> at, strides |-> <<2, 1>>, numels |-> numels, pad |-> <<5>>],
             Base(op, <<src>>, <<dst>>))
      numels == {<<2, 2>>, <<1, 2>>, <<2, 1>>}
  IN {With([mask |-> m], Base("indirect_load", s, <<same>>)) :
        m \in masks, s \in {<<v, i>> : i \in offsets} \cup {<<v, i, other>> : i \in offsets}}
     \cup {With([mask |-> m], Base("indirect_store", <<same, i>>, <<v>>)) : m \in masks, i \in offsets}
     \cup {Strided("stride_load", v, square, at, c) : at \in {0, 1}, c \in numels}
     \cup {Strided("stride_store", square, v, at, c) : at \in {0, 1}, c \in numels}

View(k) == [view |-> k, scalar |-> 0]
Scalar(x) == [view |-> 0, scalar |-> x]

Elementwises(v) ==
  LET float == v.arena = "flt"
      same == Dense("ub", v.sizes)
      row == Dense("aux", <<v.sizes[Rank(v)]>>)
      unit == Dense("aux", [v.sizes EXCEPT ![1] = 1])
      Ew(kind, mode, args, srcs, dst, transpose) ==
        With([kind |-> kind, float |-> float, mode |-> mode, args |-> args, transpose |-> transpose],
             Base("elementwise", srcs, <<dst>>))
      pair == <<View(1), View(2)>>
      kinds == IF float THEN {"sum", "max", "min"}
               ELSE {"sum", "prod", "sub", "div", "mod", "modui", "max", "and", "xor"}
      single == IF float THEN {"relu", "isnan"} ELSE {"not", "abs", "relu"}
      modes == {"eq", "ne", "lt", "gt", "ge", "le"}
  IN {Ew(k, "", pair, <<v, Dense("aux", v.sizes)>>, same, <<>>) : k \in kinds}
     \cup {Ew(k, "", <<View(1)>>, <<v>>, v, <<>>) : k \in single}
     \cup {Ew("cmp", m, <<View(1), Scalar(0)>>, <<v>>, same, <<>>) : m \in modes}
     \cup {Ew("sel", "", <<View(1), View(2), Scalar(4)>>, <<Dense("msk", v.sizes), v>>, same, <<>>)}
     \cup {Ew("max", "", pair, <<v, s>>, v, <<>>) : s \in {row, unit}}
     \cup (IF Rank(v) # 2 THEN {}
           ELSE {Ew("max", "", pair, <<v, v>>, Dense("ub", <<v.sizes[2], v.sizes[1]>>), <<1, 0>>)})

InMemory(v) == \A i \in Ix(v) : InArena(ElementAt(v, i))

\* multi_reduction lets the order of the lanes decide between two zeros.
BothZeros(v) == InMemory(v) => {0, NegZero} \subseteq {At(MCMemory, v, i) : i \in Ix(v)}

Vectors(v) ==
  LET n == Rank(v)
      zero == [d \in 1..n |-> 0]
      wider == [v.sizes EXCEPT ![n] = @ + 1]
      count == Product(wider)
      swapped == Reverse(wider)
      Chain(read, steps, dst, write) ==
        With([read |-> read, pad |-> <<6>>, steps |-> steps, write |-> write, vec |-> <<>>],
             Base("vector", <<v>>, <<dst>>))
      Read(shape) == [map |-> <<>>, at |-> zero, shape |-> shape]
      Start(rank) == [map |-> <<>>, at |-> [d \in 1..rank |-> 0]]
      float == v.arena = "flt"
      Reduce(acc, kind, dims, shape) ==
        [op |-> "reduce", acc |-> acc, kind |-> kind, float |-> float, dims |-> dims, shape |-> shape]
      drop == SubSeq(wider, 1, n - 1)
      kind == IF float THEN IF BothZeros(v) THEN "sum" ELSE "max"
              ELSE IF n = 1 THEN "sum" ELSE "min"
  IN {Chain(Read(wider), <<>>, v, Start(n)),
      Chain([Read(wider) EXCEPT !.at = [zero EXCEPT ![n] = 1]], <<>>, v, [Start(n) EXCEPT !.at[1] = 1]),
      Chain([map |-> <<Broadcast, n - 1>>, at |-> zero, shape |-> <<2, v.sizes[n]>>], <<>>,
            Dense("ub", <<2, v.sizes[n]>>), Start(2)),
      Chain(Read(wider), <<[op |-> "shape_cast", shape |-> <<count>>]>>, Dense("ub", <<count>>), Start(1)),
      Chain(Read(v.sizes), <<[op |-> "broadcast", shape |-> <<2>> \o v.sizes]>>,
            Dense("ub", <<2>> \o v.sizes), Start(n + 1)),
      Chain(Read(wider), <<[op |-> "extract", position |-> <<v.sizes[1] - 1>>, shape |-> Tail(wider)]>>,
            Dense("ub", Tail(wider)), Start(n - 1)),
      Chain(Read(wider), <<[op |-> "mask", shape |-> wider, active |-> v.sizes]>>,
            Dense("ub", wider), Start(n)),
      Chain(Read(wider), <<Reduce(<<>>, kind, 0..n - 1, <<>>), [op |-> "splat", shape |-> wider]>>,
            Dense("ub", wider), Start(n)),
      Chain(Read(wider), <<Reduce([k \in 1..Product(drop) |-> 1], kind, {n - 1}, drop)>>,
            Dense("ub", drop), Start(n - 1))}
     \cup (IF n # 2 THEN {}
           ELSE {Chain([map |-> <<1, 0>>, at |-> zero, shape |-> swapped], <<>>, v,
                       [map |-> <<1, 0>>, at |-> zero])})

----------------------------------------------------------------------------
Fits(v) == Rank(v) \in 1..3 /\ NumElements(v) \in 1..6

Everything(v) ==
  Reorders(v) \cup Scans(v) \cup Reductions(v) \cup Fills(v) \cup Copies(v) \cup Atomics(v)
  \cup Layouts(v) \cup Indirects(v) \cup Elementwises(v) \cup Vectors(v)

(***************************************************************************)
(* Sound: what a program may ask for.  An offset beyond its source is left *)
(* to the run about folding, a one-element row under padding to the run    *)
(* about tails; an index beyond vgather's source stays in, it is refused.  *)
(***************************************************************************)
Folding(r) == r.op # "vgather" /\ AsksOutside(r, MCMemory)
Tails(v) ==
  IF v.sizes[Rank(v)] # 1 THEN {}
  ELSE {With([left |-> 0, pad |-> <<5>>, padMode |-> "value"],
             Base("load", <<v>>, <<Dense("ub", [v.sizes EXCEPT ![Rank(v)] = 2])>>))}

MCRequests(v) ==
  CASE ~Fits(v) -> {}
    [] Fits(v) /\ Instance = "sound" -> {r \in Everything(v) : ~Folding(r)}
    [] Fits(v) /\ Instance = "folds" -> Indirects(v)
    [] Fits(v) /\ Instance = "tails" -> Tails(v)
=============================================================================
