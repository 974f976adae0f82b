------------------------------ MODULE Effects ------------------------------
(***************************************************************************)
(* What a committed effect does to memory, one element at a time: the raw  *)
(* accessors the handlers of the interpreter share, the loop over a shape, *)
(* and the arithmetic of small integers and floats.                        *)
(*                                                                         *)
(* mem[arena][a] is the value of the element whose first byte is a: views  *)
(* of one arena that are read as numbers agree on where elements start.    *)
(* The commit of an effect is a fold over a record: the memory, whether an *)
(* access has failed (the closures then skip what is left), and the places *)
(* loaded and stored, which no property but Footprint looks at.            *)
(*                                                                         *)
(* A number is an integer.  As an int it is two's complement in IntBits    *)
(* bits; as a float it is exact, or NaN, or NegZero.  The rounding of      *)
(* floats is left out: it is the same on both sides of every property.     *)
(***************************************************************************)
EXTENDS MemRef

CONSTANTS Capacity,     \* bytes of each arena
          IntBits       \* width of an integer element

ASSUME IntBitsAssumption == IntBits \in Nat \ {0}

----------------------------------------------------------------------------
(* Access *)

Place(v, addr) == [arena |-> v.arena, lo |-> addr, hi |-> addr + v.eb]
ElementAt(v, i) == Place(v, ByteAddr(v, i))
ElementNo(v, n) == Place(v, ByteAddrLinear(v, n))

InArena(p) == 0 <= p.lo /\ p.hi <= Capacity[p.arena]

Peek(st, p) == st.mem[p.arena][p.lo]

Started(mem) == [mem |-> mem, failed |-> FALSE, loaded |-> {}, stored |-> {}]

\* Load the places of from, then store value at to.  The first access outside
\* its arena reports an error and ends the effect.
Put(st, from, to, value) ==
  IF st.failed THEN st
  ELSE IF \E p \in from \cup {to} : ~InArena(p)
       THEN [st EXCEPT !.failed = TRUE,
                       !.loaded = @ \cup {p \in from : InArena(p)}]
       ELSE [st EXCEPT !.mem[to.arena][to.lo] = value,
                       !.loaded = @ \cup from,
                       !.stored = @ \cup {to}]

Move(st, from, to) == Put(st, {from}, to, Peek(st, from))

\* Loads that feed a decision and store nothing.
Look(st, from) ==
  IF st.failed THEN st
  ELSE [st EXCEPT !.failed = \E p \in from : ~InArena(p),
                  !.loaded = @ \cup {p \in from : InArena(p)}]

Refuse(st) == [st EXCEPT !.failed = TRUE]

ForEach(st, sizes, Body(_, _)) == FoldLeft(Body, st, Indices(sizes))

\* mapSourceIndex: trailing dimensions aligned, a transposition applied, and
\* extents of one read as broadcasts
SourceIndex(i, src, transpose) ==
  LET shift == Len(i) - Rank(src)
      Aligned(d) == IF shift + d >= 1 THEN i[shift + d] ELSE 0
      Permuted(d) == IF d <= Len(transpose) /\ transpose[d] \in 0..Len(i) - 1
                     THEN i[transpose[d] + 1] ELSE Aligned(d)
  IN [d \in 1..Rank(src) |-> IF src.sizes[d] = 1 THEN 0 ELSE Permuted(d)]

NormalizeAxis(axis, rank) == IF axis < 0 THEN axis + rank ELSE axis

----------------------------------------------------------------------------
(* Arithmetic *)

NaN == 1000
NegZero == 1001

Wrap(n) == ((n + 2^(IntBits - 1)) % 2^IntBits) - 2^(IntBits - 1)
Unsigned(n) == n % 2^IntBits
Larger(a, b) == IF a > b THEN a ELSE b
Smaller(a, b) == IF a < b THEN a ELSE b

Magnitude(x) == IF x = NegZero THEN 0 ELSE x
FloatGreater(a, b) == a # NaN /\ b # NaN /\ Magnitude(a) > Magnitude(b)
Exactly(a, b, n) ==
  IF a = NaN \/ b = NaN THEN NaN ELSE IF a = NegZero /\ b = NegZero THEN NegZero ELSE n

\* llvm::maximum and llvm::minimum: NaN wins, and the zeros are ordered
FloatMaximum(a, b) ==
  CASE a = NaN \/ b = NaN -> NaN
    [] a = NegZero /\ b = 0 -> b
    [] a # NaN /\ b # NaN /\ ~(a = NegZero /\ b = 0) -> IF FloatGreater(b, a) THEN b ELSE a
FloatMinimum(a, b) ==
  CASE a = NaN \/ b = NaN -> NaN
    [] a = 0 /\ b = NegZero -> b
    [] a # NaN /\ b # NaN /\ ~(a = 0 /\ b = NegZero) -> IF FloatGreater(a, b) THEN b ELSE a

\* scanCombine and reduceCombine on the kinds the two share
Combine(kind, float, a, b) ==
  CASE kind = "sum" /\ float -> Exactly(a, b, Magnitude(a) + Magnitude(b))
    [] kind = "sum" /\ ~float -> Wrap(a + b)
    [] kind = "max" -> IF float THEN FloatMaximum(a, b) ELSE Larger(a, b)
    [] kind = "min" -> IF float THEN FloatMinimum(a, b) ELSE Smaller(a, b)
    [] kind = "prod" -> Wrap(a * b)
=============================================================================
