---------------------------- MODULE MCRaceDetector ----------------------------
(* Launches for RaceDetector.  A kernel is a sequence of steps, a step an  *)
(* operation and the access it makes.                                      *)
EXTENDS RaceDetector, TLC

Sync(i) == << i, None >>
Set(f)  == Sync([op |-> "set", flag |-> f, inter |-> TRUE])
Wait(f) == Sync([op |-> "wait", flag |-> f, inter |-> TRUE])
Meet    == Sync([op |-> "barrier", mode |-> "ALL", flag |-> 1])
Take    == Sync([op |-> "lock", lock |-> 1])
Give    == Sync([op |-> "unlock", lock |-> 1])

Touch(isWrite, pipe, class) ==
  << [op |-> "compute"], [byte |-> 1, isWrite |-> isWrite, pipe |-> pipe, class |-> class] >>
W  == Touch(TRUE, 1, "plain")
R  == Touch(FALSE, 1, "plain")
WS == Touch(TRUE, Scalar, "plain")
RS == Touch(FALSE, Scalar, "plain")

Fault(op) == Sync([op |-> op])
W2 == Touch(TRUE, 2, "plain")

(* Cores one after the other in kernels; flag f is raised by pipe 1.       *)
L(blocks, cube, subs, inOrder, kernels) ==
  LET cores == 0 .. Len(kernels) - 1
      part(n) == [c \in cores |-> [i \in DOMAIN kernels[c + 1] |-> kernels[c + 1][i][n]]]
  IN  [blockDim |-> blocks, cube |-> cube, subBlockNum |-> subs, fuzz |-> TRUE,
       program |-> part(1), access |-> part(2), tpipe |-> [f \in FlagId |-> 1],
       inOrder |-> inOrder]

OneOf(S) == {<< s >> : s \in S}
Then(S, T) == {s \o t : s \in S, t \in T}
Accesses == OneOf({W, R, WS, RS})
Maybe(S) == S \cup {<< >>}

(* A cube and a vector core: up to two accesses around one synchronisation *)
(* of the core's choice.                                                   *)
Around(S) == Then(Then(Maybe(Accesses), OneOf(S)), Accesses)

PairLaunches ==
  {L(1, TRUE, 1, inOrder, << x, y >>) :
     x \in Around({Set(1), Meet, Wait(2)}), y \in Around({Wait(1), Meet, Set(2)}),
     inOrder \in BOOLEAN}

(* One cube and two lanes: the aggregate and the broadcast.                *)
GatherLaunches ==
  {L(1, TRUE, 2, FALSE, << x, y, z >>) :
     x \in Then({<< Wait(1) >>}, Accesses),
     y, z \in Then(Accesses, Maybe({<< Set(1) >>}))}

SpreadLaunches ==
  {L(1, TRUE, 2, FALSE, << x, y, z >>) :
     x \in Then({<< W, Set(1) >>}, Maybe(Accesses)),
     y, z \in Then(Maybe({<< Wait(1) >>}), OneOf({R, WS}))}

(* Three vector cores: what the first has done reaches the third through   *)
(* the second, or not.                                                     *)
ChainLaunches ==
  {L(3, FALSE, 1, FALSE, << x, y, z >>) :
     x \in Then(OneOf({W, R}), {<< Set(1) >>}),
     y \in Then(Then(Then(Maybe({<< Wait(1) >>}), Maybe(OneOf({W, R}))), {<< Set(2) >>}), Maybe({<< W >>})),
     z \in Then(Maybe({<< Wait(2) >>}), OneOf({W, RS}))}

LockLaunches ==
  {L(3, FALSE, 1, FALSE, << x, y, z >>) :
     x, y, z \in Then(Then({<< Take >>}, OneOf({R, WS, W2})), {<< Give >>})
                 \cup {<< Take, Give, W >>, << Fault("error") >>, << Fault("wait_flag") >>}}

(* A barrier drains the pipes it is not the flag of, too.                  *)
DrainLaunches ==
  {L(1, TRUE, 1, FALSE, << x, y >>) :
     x, y \in Then(Maybe({<< W2, R >>, << RS, W2 >>}), Maybe({<< Meet, W >>}))}

(* A set drains its own pipe and publishes a clock past all that was       *)
(* issued: the effect on the other pipe commits after the wait is over,    *)
(* before or after what the waiting core and a third one do to its byte.   *)
R2 == Touch(FALSE, 2, "plain")

UndrainedLaunches ==
  {L(3, FALSE, 1, FALSE, << x, y, z >>) :
     x \in Then(OneOf({W2, R2}), {<< Set(1) >>}),
     y \in Then(Then({<< Wait(1) >>}, Accesses), Maybe({<< Set(2) >>})),
     z \in Then(Maybe({<< Wait(2) >>}), Accesses)}

(* One access each, of every class.                                        *)
ClassLaunches ==
  {L(2, FALSE, 1, FALSE, << << x >>, << y >> >>) :
     x, y \in {Touch(w, 1, "atomic") : w \in BOOLEAN} \cup {Touch(w, 1, "plain") : w \in BOOLEAN}
              \cup {Touch(w, Scalar, "raw") : w \in BOOLEAN}}

(* The same flag twice, with an answer between the two.                    *)
AnswerLaunches ==
  {L(1, TRUE, 1, FALSE, << << x, Set(1), Wait(2), y, Set(1) >>,
                           << Wait(1), z, Set(2), t, Wait(1), u >> >>) :
     x, y, z, t, u \in {W, R}}

RaceLaunches == PairLaunches \cup GatherLaunches \cup SpreadLaunches \cup ChainLaunches
                \cup LockLaunches \cup DrainLaunches \cup UndrainedLaunches
                \cup ClassLaunches \cup AnswerLaunches
=============================================================================
