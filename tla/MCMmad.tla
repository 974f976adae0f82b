-------------------------------- MODULE MCMmad --------------------------------
(* The pipes S, M, MTE1 and MTE2.  Byte 0 is a tile in L1, byte 1 the      *)
(* accumulator.                                                            *)
EXTENDS Mmad

R(b) == {[lo |-> b, hi |-> b + 1]}

(* A load into L1 and a scalar look at the accumulator                     *)
MCInstr ==
  { [op |-> "load", pipe |-> 3, how |-> "deferred", reads |-> {}, writes |-> R(0), raw |-> FALSE],
    [op |-> "look", pipe |-> 0, how |-> "resident", reads |-> R(1), writes |-> {}, raw |-> FALSE] }

K(set, wait, event) == [set |-> set, wait |-> wait, event |-> event]

(* loaded, released, and the ping-pong event of the accumulator            *)
MCKey == { K(3, 2, 0), K(2, 3, 1), K(1, 2, 2) }

Slots(s0, s1, s2, s5) ==
  [s \in 0 .. 6 |-> CASE s = 0 -> s0 [] s = 1 -> s1 [] s = 2 -> s2 [] s = 5 -> s5 [] OTHER -> -1]

(* One that leaves its flags to the program, one that waits for the load,  *)
(* releases the tile and hands the ping-pong event on, one whose two       *)
(* inputs are awaited on one event.                                        *)
MCMacro ==
  { [op |-> "first", tiles |-> R(0), acc |-> R(1), clear |-> TRUE, slots |-> Slots(-1, -1, -1, -1)],
    [op |-> "next", tiles |-> R(0), acc |-> R(1), clear |-> FALSE, slots |-> Slots(0, -1, 1, 2)],
    [op |-> "both", tiles |-> R(0), acc |-> R(1), clear |-> FALSE, slots |-> Slots(0, 0, -1, -1)] }
=============================================================================
