----------------------------- MODULE MCCrossSync -----------------------------
(* Launches for CrossSync.  A family of launches is every assignment of    *)
(* short programs to the cores of one topology; the cores of one kind run  *)
(* one kernel, but its branches may send each lane its own way.            *)
EXTENDS CrossSync, SequencesExt

Set(f)     == [op |-> "set", flag |-> f, inter |-> FALSE]
Wait(f)    == [op |-> "wait", flag |-> f, inter |-> FALSE]
SetInter   == [op |-> "set", flag |-> 1, inter |-> TRUE]
WaitInter  == [op |-> "wait", flag |-> 1, inter |-> TRUE]
Barrier(m) == [op |-> "barrier", mode |-> m, flag |-> 1]
LockIt     == [op |-> "lock", lock |-> 1]
UnlockIt   == [op |-> "unlock", lock |-> 1]
Plain(op)  == [op |-> op]

(* Programs of at most n operations out of I.                              *)
UpTo(I, n) == UNION {[1 .. m -> I] : m \in 0 .. n}

L(blocks, cube, subs, fuzz, program) ==
  [blockDim |-> blocks, cube |-> cube, subBlockNum |-> subs, fuzz |-> fuzz,
   program |-> program]

(* Vector cores only: two blocks of two lanes that meet per block, and     *)
(* three blocks of one lane that hand on flags or a lock.  One of the      *)
(* cores may stop at an operation that fails or that nothing releases.     *)
SubVectorLaunches ==
  UNION {
    {L(2, FALSE, 2, fuzz, (0 :> x) @@ (1 :> x) @@ (2 :> x) @@ (3 :> y)) :
       x, y \in UpTo({Barrier("ALL_SUB_VECTOR"), Barrier("ALL")}, 2)} : fuzz \in BOOLEAN}

Section == <<LockIt, Plain("compute"), UnlockIt>>

LockLaunches ==
  UNION {
    {L(3, FALSE, 1, fuzz, (0 :> x) @@ (1 :> y) @@ (2 :> z)) :
       x, y, z \in {Section, Section \o Section, << Plain("error") >>,
                    << Plain("wait_flag") >>, <<Set(1)>> \o Section,
                    Section \o <<Wait(1)>>}} : fuzz \in BOOLEAN}

(* Two blocks of a cube and a vector core.  The two cubes run one program  *)
(* and so do the two vector cores, except that the second block's vector   *)
(* core may skip the last operation.  Where both have two operations, they *)
(* are those that block with blocks.                                       *)
Skips(p, n) == IF n <= Len(p) THEN SubSeq(p, 1, Len(p) - n) ELSE p

BlockPrograms ==
  {p \in UpTo({Set(1), SetInter, WaitInter, Barrier("ALL_CUBE"), Barrier("ALL")}, 2)
         \X UpTo({SetInter, WaitInter, Wait(1), Barrier("ALL")}, 2) :
     \/ Len(p[1]) + Len(p[2]) <= 3
     \/ Range(p[1] \o p[2]) \subseteq {SetInter, WaitInter, Barrier("ALL")}}

BlockLaunches ==
  UNION {
    {L(2, TRUE, 1, fuzz, (0 :> p[1]) @@ (1 :> p[2]) @@ (2 :> p[1]) @@ (3 :> Skips(p[2], n))) :
       p \in BlockPrograms, n \in IF fuzz THEN {0, 1} ELSE {0}} : fuzz \in BOOLEAN}

(* One block: a cube and two vector lanes with programs of their own.      *)
(* Under fuzz the lanes can be told apart by their programs only, in order *)
(* also by whose turn comes first, which each pair leaves as it is.        *)
Lanes(C, pairs, fuzz) ==
  {L(1, TRUE, 2, fuzz, (0 :> x) @@ (1 :> y[1]) @@ (2 :> y[2])) : x \in C, y \in pairs}

MixLaunches ==
  LET ops == {Set(1), Wait(1), Barrier("ALL")}
      V == UpTo(ops, 2)
      three == {p \in [1 .. 3 -> ops] : p[1] # p[2] /\ p[2] # p[3]}
      pairs == {<< y, y >> : y \in V} \cup {SetToSeq(s) : s \in kSubset(2, V)}
  IN  Lanes(V, pairs, FALSE) \cup Lanes(V \cup three, pairs, TRUE)

SyncLaunches == SubVectorLaunches \cup LockLaunches \cup BlockLaunches \cup MixLaunches

=============================================================================
