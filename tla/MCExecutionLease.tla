--------------------------- MODULE MCExecutionLease ----------------------------
(* Three agents, each in a process of its own, on one machine.                        *)
EXTENDS ExecutionLease, TLC

CONSTANTS a1, a2, a3, p1, p2, p3

MCProcOf == a1 :> p1 @@ a2 :> p2 @@ a3 :> p3

MCHostOf == p1 :> "here" @@ p2 :> "here" @@ p3 :> "here"

=============================================================================
