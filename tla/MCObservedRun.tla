----------------------------- MODULE MCObservedRun ------------------------------
EXTENDS ObservedRun, MCNodeWalk, MCWorkflowCommit
=============================================================================
