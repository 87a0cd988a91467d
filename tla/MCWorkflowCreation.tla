-------------------------- MODULE MCWorkflowCreation ---------------------------
EXTENDS WorkflowCreation, TLC

CONSTANTS r1, r2, c1

MCCreators == {r1, r2}
MCLaunchers == {c1}
MCActors == {r1, r2, c1}
MCNames == 1..2
MCFramework == [a \in MCActors |-> IF a = c1 THEN {2} ELSE {1}]
Symmetric == Permutations(MCCreators)
=============================================================================
