------------------------------- MODULE MCFanOut --------------------------------
(* Bounded instances of FanOut.                                                       *)
EXTENDS FanOut
=============================================================================
