--------------------------- MODULE MCConcurrencyGate ---------------------------
(* Bounded instances of ConcurrencyGate, and its theorems' assumption.               *)
EXTENDS ConcurrencyGate, ConcurrencyGateProofs
=============================================================================
