---------------------------- MODULE MCControlFlow ----------------------------
(***************************************************************************)
(* The programs TLC walks through.  A family of nests: every way of        *)
(* putting three constructs inside each other, each carrying a pair of     *)
(* values that it swaps, so that a value bound too early, to the wrong     *)
(* name or in the wrong scope shows in what is stored.  And a list of      *)
(* small programs, one for each thing that can go wrong or that the nests  *)
(* do not reach.                                                           *)
(***************************************************************************)
EXTENDS FlowMeaning

CONSTANT Depth \* of the nests

----------------------------------------------------------------------------
(* Operations *)

Do(kind, args, results) == [kind |-> kind, args |-> args, results |-> results]
Const(r, v) == [kind |-> "constant", args |-> <<>>, results |-> <<r>>, value |-> v]
Bin(fn, a, b, r) == [kind |-> "binary", fn |-> fn, args |-> <<a, b>>, results |-> <<r>>]
Cmp(predicate, a, b, r) ==
  [kind |-> "cmpi", predicate |-> predicate, args |-> <<a, b>>, results |-> <<r>>]
ForOp(args, body, results) == [kind |-> "for", args |-> args, body |-> body, results |-> results]
WhileOp(args, before, after, results) ==
  [kind |-> "while", args |-> args, before |-> before, after |-> after, results |-> results]
IfOp(c, then, else, results) ==
  [kind |-> "if", args |-> <<c>>, then |-> then, else |-> else, results |-> results]
RegionOp(body, results) == [kind |-> "region", args |-> <<>>, body |-> body, results |-> results]
SwitchOp(a, cases, default, results) ==
  [kind |-> "switch", args |-> <<a>>, cases |-> cases, default |-> default, results |-> results]
Br(dest, args) == [kind |-> "br", args |-> args, dest |-> dest, results |-> <<>>]
CondBr(c, t, targs, f, fargs) ==
  [kind |-> "cond_br", args |-> <<c>>, cond |-> c, true |-> t, trueArgs |-> targs,
   false |-> f, falseArgs |-> fargs, results |-> <<>>]
CallOp(callee, args, results) ==
  [kind |-> "call", args |-> args, callee |-> callee, results |-> results]
AllocOp(size, r) == [kind |-> "alloc", args |-> <<>>, size |-> size, results |-> <<r>>]
AllocDyn(n, r) == [kind |-> "alloc", args |-> <<n>>, results |-> <<r>>]
StoreOp(v, buf, i) == Do("store", <<v, buf, i>>, <<>>)
LoadOp(buf, i, r) == Do("load", <<buf, i>>, <<r>>)
Yield(args) == Do("yield", args, <<>>)
Ret(args) == Do("return", args, <<>>)

B(args, ops) == [args |-> args, ops |-> ops]
Kernel(blocks) == [blocks |-> blocks, args |-> <<>>, endless |-> FALSE]

----------------------------------------------------------------------------
(* Nests: level k has the blocks 3k - 1, 3k and 3k + 1 *)

X(k) == <<"x", k>>
Y(k) == <<"y", k>>
N(k) == <<"n", k>>
R(k) == <<"r", k>>
S(k) == <<"s", k>>
T(k) == <<"t", k>>
C(k) == <<"c", k>>
Buf == <<"buf", 0>>
V(name, k) == <<name, k>>

Globals == <<C(0), C(1), C(2), C(3), Buf>>

\* The operations of level k that go around its blocks, given the pair a, b
Open(kind, k, a, b) ==
  CASE kind = "up" -> <<ForOp(<<C(0), C(3), C(2), a, b>>, 3 * k - 1, <<R(k), S(k)>>)>>
    [] kind = "down" ->
         <<Const(V("m", k), -1), ForOp(<<C(2), C(0), V("m", k), a, b>>, 3 * k - 1, <<R(k), S(k)>>)>>
    [] kind = "while" -> <<WhileOp(<<a, b, C(0)>>, 3 * k - 1, 3 * k, <<R(k), S(k), T(k)>>)>>
    [] kind = "if" ->
         <<Cmp("slt", a, b, V("if", k)), IfOp(V("if", k), 3 * k - 1, 3 * k, <<R(k), S(k)>>)>>
    [] kind = "switch" ->
         <<Bin("remsi", a, C(3), V("m", k)),
           SwitchOp(V("m", k), <<<<1, 3 * k>>, <<1, 3 * k - 1>>>>, 3 * k - 1, <<R(k), S(k)>>)>>
    [] kind = "cfg" -> <<RegionOp(3 * k - 1, <<R(k), S(k)>>)>>
    [] kind = "call" -> <<CallOp(3 * k - 1, <<a, b>> \o Globals, <<R(k), S(k)>>)>>

\* The pair that the inside of level k sees
In(kind, k, a, b) ==
  IF kind \in {"if", "switch"} THEN <<a, b>>
  ELSE IF kind \in {"up", "down"} THEN <<V("w", k), Y(k)>>
  ELSE IF kind = "while" THEN <<V("u", k), V("v", k)>> ELSE <<X(k), Y(k)>>

\* The blocks of level k, with inside, which leaves its pair in p and q
Around(kind, k, a, b, inside, p, q) ==
  LET swap == B(<<>>, <<Yield(<<b, a>>)>>)
      none == B(<<>>, <<>>)
      count == Bin("addi", N(k), C(1), V("n1", k))
  IN CASE kind \in {"up", "down"} ->
            <<B(<<V("i", k), X(k), Y(k)>>,
                <<Bin("addi", X(k), V("i", k), V("w", k))>> \o inside \o <<Yield(<<q, p>>)>>),
              none, none>>
       [] kind = "while" ->
            <<B(<<X(k), Y(k), N(k)>>,
                <<Cmp("ult", N(k), C(2), V("go", k)), Do("condition", <<V("go", k), Y(k), X(k), N(k)>>, <<>>)>>),
              B(<<V("u", k), V("v", k), N(k)>>,
                inside \o <<count, Yield(<<q, p, V("n1", k)>>)>>), none>>
       [] kind \in {"if", "switch"} -> <<B(<<>>, inside \o <<Yield(<<q, p>>)>>), swap, none>>
       [] kind = "cfg" ->
            <<B(<<>>, <<Br(3 * k, <<b, a, C(0)>>)>>),
              B(<<X(k), Y(k), N(k)>>,
                inside \o <<count, Cmp("sge", N(k), C(1), V("go", k)),
                            CondBr(V("go", k), 3 * k + 1, <<p>>, 3 * k, <<Y(k), X(k), V("n1", k)>>)>>),
              B(<<V("z", k)>>, <<Yield(<<q, V("z", k)>>)>>)>>
       [] kind = "call" ->
            <<B(<<X(k), Y(k)>> \o Globals, inside \o <<Ret(<<q, p>>)>>), none, none>>

\* The blocks of the levels from k on, and the operations that open level k
RECURSIVE Levels(_, _, _, _), Inner(_, _, _, _)
Inner(kinds, k, a, b) ==
  IF k > Len(kinds) THEN <<Bin("addi", a, b, S(k)), StoreOp(S(k), Buf, C(1))>>
  ELSE Open(kinds[k], k, a, b)
Levels(kinds, k, a, b) ==
  IF k > Len(kinds) THEN <<>>
  ELSE LET pair == In(kinds[k], k, a, b)
           innermost == k = Len(kinds)
       IN Around(kinds[k], k, a, b, Inner(kinds, k + 1, pair[1], pair[2]),
                 IF innermost THEN pair[2] ELSE R(k + 1), S(k + 1))
          \o Levels(kinds, k + 1, pair[1], pair[2])

Nest(kinds) ==
  Kernel(<<B(<<>>, [n \in 1..4 |-> Const(C(n - 1), n - 1)]
                     \o <<AllocOp(2, Buf)>> \o Open(kinds[1], 1, C(1), C(2))
                     \o <<StoreOp(R(1), Buf, C(0)), StoreOp(S(1), Buf, C(1)),
                          LoadOp(Buf, C(0), <<"end", 0>>), Ret(<<>>)>>)>>
         \o Levels(kinds, 1, C(1), C(2)))

Kind == <<"up", "down", "while", "if", "switch", "cfg", "call">>
NestNumber(n) == Nest([k \in 1..Depth |-> Kind[1 + ((n \div 7 ^ (k - 1)) % 7)]])
Nests == [n \in 1..7 ^ Depth |-> NestNumber(n - 1)]

----------------------------------------------------------------------------
(* Single programs *)

F(n) == <<"f", n>>
Numbers4 == [n \in 1..4 |-> Const(C(n - 1), n - 1)]
Main(ops) == B(<<>>, Numbers4 \o ops \o <<Ret(<<>>)>>)

\* Every function of IntBinary and every predicate of CmpI on numbers of both
\* signs, the results in memory
Functions == <<"addi", "subi", "muli", "divsi", "remsi", "divui", "remui", "maxsi", "minsi",
               "maxui", "minui", "andi", "ori", "xori", "shli", "shrsi", "shrui">>
Predicates == <<"eq", "ne", "slt", "sle", "sgt", "sge", "ult", "ule", "ugt", "uge">>
Results == [n \in DOMAIN Functions |-> Bin(Functions[n], F(1), F(2), F(10 + n))]
           \o [n \in DOMAIN Predicates |-> Cmp(Predicates[n], F(1), F(2), F(30 + n))]
Scalars(a, b) ==
  Kernel(<<Main(<<Const(F(1), a), Const(F(2), b), AllocOp(1, Buf)>> \o Results
                \o [n \in DOMAIN Results |-> StoreOp(Results[n].results[1], Buf, C(0))]
                \o <<Do("select", <<F(35), F(1), F(2)>>, <<F(3)>>), StoreOp(F(3), Buf, C(0)),
                     Do("select", <<F(34), F(32), F(31)>>, <<F(4)>>), StoreOp(F(4), Buf, C(0))>>)>>)

\* One operation whose first argument nobody bound
Unbound == F(0)
UnboundOps ==
  <<Bin("addi", C(0), Unbound, F(1)), Cmp("eq", Unbound, C(0), F(1)),
    Do("select", <<Unbound, C(0), C(1)>>, <<F(1)>>), ForOp(<<C(0), Unbound, C(1)>>, 2, <<>>),
    IfOp(Unbound, 2, NoBlock, <<>>), WhileOp(<<C(0)>>, 3, 2, <<F(1)>>),
    SwitchOp(Unbound, <<>>, 2, <<>>), CondBr(Unbound, 2, <<>>, 2, <<>>),
    AllocDyn(Unbound, F(1)), Do("dealloc", <<Unbound>>, <<>>), LoadOp(Unbound, C(0), F(1)),
    StoreOp(C(1), Unbound, C(0)), Do("unsupported", <<>>, <<>>),
    ForOp(<<C(0), C(1), C(0)>>, 2, <<>>)>>
Malformed(op) ==
  Kernel(<<Main(<<op>>), B(<<>>, <<Yield(<<>>)>>),
           B(<<F(2)>>, <<Do("condition", <<Unbound, F(2)>>, <<>>)>>)>>)
NoTerminator == Kernel(<<Main(<<RegionOp(2, <<>>)>>), B(<<>>, <<Const(F(1), 1)>>)>>)

Endless ==
  [Kernel(<<Main(<<WhileOp(<<C(1)>>, 2, 3, <<F(1)>>)>>),
            B(<<F(2)>>, <<Do("condition", <<F(2), F(2)>>, <<>>)>>),
            B(<<F(3)>>, <<Yield(<<F(3)>>)>>)>>) EXCEPT !.endless = TRUE]

\* Loops that never start, one with bounds that cross, an if without else
NoTrip ==
  Kernel(<<Main(<<AllocOp(1, Buf), Const(F(1), -2),
                  ForOp(<<C(1), C(1), C(1), C(3)>>, 2, <<F(2)>>), StoreOp(F(2), Buf, C(0)),
                  ForOp(<<C(1), C(2), F(1), F(2)>>, 2, <<F(3)>>), StoreOp(F(3), Buf, C(0)),
                  IfOp(C(0), 3, NoBlock, <<>>), LoadOp(Buf, C(0), F(4)),
                  IfOp(C(2), 3, NoBlock, <<>>), LoadOp(Buf, C(0), F(5))>>),
           B(<<F(6), F(7)>>, <<Yield(<<C(0)>>)>>),
           B(<<>>, <<StoreOp(C(2), Buf, C(0)), Yield(<<>>)>>)>>)

\* f(n, buffer) stores n before and after calling itself with n - 1
Recursion ==
  Kernel(<<Main(<<AllocOp(1, Buf), CallOp(2, <<C(2), Buf>>, <<F(1)>>), StoreOp(F(1), Buf, C(0))>>),
           B(<<F(2), F(3)>>,
             <<Const(F(4), 0), StoreOp(F(2), F(3), F(4)), Const(F(5), 1),
               Bin("subi", F(2), F(5), F(6)), IfOp(F(2), 3, 4, <<F(7)>>),
               StoreOp(F(2), F(3), F(4)), Bin("addi", F(7), F(2), F(8)), Ret(<<F(8)>>)>>),
           B(<<>>, <<CallOp(2, <<F(6), F(3)>>, <<F(9)>>), Yield(<<F(9)>>)>>),
           B(<<>>, <<Yield(<<F(4)>>)>>)>>)

\* A buffer of size bytes made anew in every iteration, read and written, a second one
\* beside it, and a function with a buffer of its own called in the loop
Buffers(size, other) ==
  Kernel(<<Main(<<AllocOp(other, Buf), ForOp(<<C(0), C(3), C(1)>>, 2, <<>>), LoadOp(Buf, C(0), F(1))>>),
           B(<<F(2)>>,
             <<AllocOp(size, F(3)), LoadOp(F(3), C(0), F(4)), StoreOp(F(2), F(3), C(0)),
               StoreOp(F(2), Buf, C(0)), CallOp(3, <<F(2)>>, <<>>), LoadOp(F(3), C(0), F(5)),
               Do("dealloc", <<F(3)>>, <<>>), LoadOp(Buf, C(0), F(6)), Yield(<<>>)>>),
           B(<<F(7)>>,
             <<Const(F(8), 0), AllocOp(1, F(9)), LoadOp(F(9), F(8), F(10)), StoreOp(F(7), F(9), F(8)),
               LoadOp(F(9), F(8), F(11)), Do("dealloc", <<F(9)>>, <<>>),
               Do("dealloc", <<F(9)>>, <<>>), Ret(<<>>)>>)>>)

\* A site whose extent is data: 1, 2, 1, ...
Alternating ==
  Kernel(<<Main(<<ForOp(<<C(0), C(3), C(1), C(1), C(2)>>, 2, <<F(1), F(2)>>)>>),
           B(<<F(3), F(4), F(5)>>,
             <<AllocDyn(F(4), F(6)), LoadOp(F(6), C(0), F(7)), StoreOp(F(3), F(6), C(0)),
               LoadOp(F(6), C(0), F(8)), Yield(<<F(5), F(4)>>)>>)>>)

NegativeExtent == Kernel(<<Main(<<Const(F(1), -1), AllocDyn(F(1), F(2))>>)>>)
Outside ==
  Kernel(<<Main(<<AllocOp(1, Buf), Const(F(1), -1), StoreOp(C(1), Buf, C(0)),
                  LoadOp(Buf, F(1), F(2))>>)>>)

Singles ==
  <<Scalars(5, 3), Scalars(-7, 2), Scalars(-8, -1), Scalars(3, 0), Scalars(-3, -3), NoTerminator, Endless, NoTrip,
    Recursion, Buffers(2, 3), Buffers(4, 4), Buffers(5, 4), Alternating, NegativeExtent, Outside>>
  \o [k \in 1..Len(UnboundOps) |-> Malformed(UnboundOps[k])]

AllPrograms == Singles \o Nests

\* Carries the buffer of an iteration into the next one.
Carried ==
  Kernel(<<Main(<<AllocOp(1, Buf), StoreOp(C(3), Buf, C(0)),
                  ForOp(<<C(0), C(2), C(1), Buf>>, 2, <<F(1)>>)>>),
           B(<<F(2), F(3)>>,
             <<AllocOp(1, F(4)), StoreOp(F(2), F(4), C(0)), LoadOp(F(3), C(0), F(5)),
               Yield(<<F(4)>>)>>)>>)
CarriedPrograms == <<Carried>>
=============================================================================
