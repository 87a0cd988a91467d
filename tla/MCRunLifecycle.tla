---------------------------- MODULE MCRunLifecycle -----------------------------
(* Bounded instances of RunLifecycle.                                                 *)
EXTENDS RunLifecycle, TLC

CONSTANTS a, b, c, p, q

\* Two commands in one process, one in another.
ThreeAgents == (a :> p) @@ (b :> p) @@ (c :> q)
=============================================================================
