------------------------------ MODULE MCActiveRun ------------------------------
(***************************************************************************)
(* Bounded instances of ActiveRun.                                          *)
(***************************************************************************)
EXTENDS ActiveRun, ActiveRunProofs
=============================================================================
