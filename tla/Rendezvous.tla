------------------------------ MODULE Rendezvous ------------------------------
(***************************************************************************)
(* What one sync_block site promises its participants, whatever the        *)
(* scheduler does: a core enters the next rendezvous only after it has     *)
(* left the last one, and leaves one only after every participant has      *)
(* entered it.                                                             *)
(***************************************************************************)
EXTENDS Naturals

VARIABLES
  members,  \* the participants of the site
  entered,  \* per member, rendezvous entered
  left      \* per member, rendezvous left

vars == <<members, entered, left>>

Init == /\ entered = [c \in members |-> 0]
        /\ left = [c \in members |-> 0]

Enter(c) == /\ entered[c] = left[c]
            /\ entered' = [entered EXCEPT ![c] = @ + 1]
            /\ UNCHANGED <<members, left>>

Leave(c) == /\ \A d \in members : left[c] < entered[d]
            /\ left' = [left EXCEPT ![c] = @ + 1]
            /\ UNCHANGED <<members, entered>>

(* The last one in does both at once.                                      *)
Last(c) == /\ entered[c] = left[c]
           /\ \A d \in members \ {c} : left[c] < entered[d]
           /\ entered' = [entered EXCEPT ![c] = @ + 1]
           /\ left' = [left EXCEPT ![c] = @ + 1]
           /\ UNCHANGED members

Next == \E c \in members : Enter(c) \/ Leave(c) \/ Last(c)

Spec == Init /\ [][Next]_vars
=============================================================================
