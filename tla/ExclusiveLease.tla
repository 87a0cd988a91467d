---------------------------- MODULE ExclusiveLease -----------------------------
(***************************************************************************)
(* What the durable execution lease promises: a run has at most one        *)
(* execution at a time, on whatever process.  The lease is granted when    *)
(* it is free, an execution runs only while it holds the lease, and the    *)
(* lease is freed only when its execution is over (finished, or its        *)
(* process gone).                                                          *)
(***************************************************************************)
EXTENDS Naturals

VARIABLES
    holder,     \* the execution that holds the lease, 0 when it is free
    running     \* the executions in progress

vars == <<holder, running>>

Init == holder = 0 /\ running = {}

Grant == holder = 0 /\ holder' \in Nat \ {0} /\ UNCHANGED running

Start == holder # 0 /\ running' = running \union {holder} /\ UNCHANGED holder

End == running' \subseteq running /\ UNCHANGED holder

Free == holder \notin running /\ holder' = 0 /\ UNCHANGED running

Next == Grant \/ Start \/ End \/ Free

Spec == Init /\ [][Next]_vars

=============================================================================
