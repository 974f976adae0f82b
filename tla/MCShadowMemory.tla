---------------------------- MODULE MCShadowMemory ----------------------------
(* Two cores and the records of a few of their accesses: core 1 with its   *)
(* first clock and with one that has joined core 0's.                      *)
EXTENDS ShadowMemory

Access0(x, y) == [core |-> 0, clock |-> << x, y >>]
Access1(x, y) == [core |-> 1, clock |-> << x, y >>]

MCRecord == {Access0(1, 0), Access1(0, 1), Access1(1, 2)}

(* Histories of up to MaxCalls calls.                                      *)
CONSTANT MaxCalls
VARIABLE calls

MCInit == Init /\ calls = 0
MCNext == calls < MaxCalls /\ calls' = calls + 1 /\ Next
MCSpec == MCInit /\ [][MCNext]_<< vars, calls >>
=============================================================================
