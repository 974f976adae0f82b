----------------------------- MODULE MCPipeEngine -----------------------------
(* Three pipes: PIPE_S, a vector pipe 1 and a transfer pipe 2.             *)
EXTENDS PipeEngine

R(lo, hi) == [lo |-> lo, hi |-> hi]

Ins(op, pipe, how, reads, writes) ==
  [op |-> op, pipe |-> pipe, how |-> how, reads |-> reads, writes |-> writes,
   raw |-> FALSE]

(* A load into bytes 0..1, a vector operation from byte 0 to byte 2, a     *)
(* scalar loop that loads bytes 0, 1 and 3, a scalar read-modify-write     *)
(* of bytes 0 and 2, a direct vector read of byte 0, and a raw pointer     *)
(* store to byte 3.                                                        *)
MCInstr ==
  { Ins("load", 2, "deferred", {}, {R(0, 2)}),
    Ins("vop", 1, "deferred", {R(0, 1)}, {R(2, 3)}),
    Ins("sload", 0, "resident", {R(0, 1)}, {}),
    Ins("sload", 0, "resident", {R(1, 2)}, {}),
    Ins("sload", 0, "resident", {R(3, 4)}, {}),
    Ins("srmw", 0, "resident", {R(0, 1)}, {R(2, 3)}),
    Ins("tread", 1, "direct", {R(0, 1)}, {}),
    [Ins("rstore", 0, "resident", {}, {R(3, 4)}) EXCEPT !.raw = TRUE] }

MCKey == { [set |-> 2, wait |-> 1, event |-> 0],
           [set |-> 2, wait |-> 0, event |-> 1],
           [set |-> 0, wait |-> 1, event |-> 0] }
=============================================================================
