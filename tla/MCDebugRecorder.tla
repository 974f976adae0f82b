--------------------------- MODULE MCDebugRecorder ---------------------------
(* Two blocks with a local arena each and the memory they share.           *)
EXTENDS DebugRecorder, TLC

MCOwner == ("gm" :> Shared) @@ ("ub0" :> 0) @@ ("ub1" :> 1)
MCCapacity == ("gm" :> 3) @@ ("ub0" :> 2) @@ ("ub1" :> 1)
=============================================================================
