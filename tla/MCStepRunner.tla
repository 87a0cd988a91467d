----------------------------- MODULE MCStepRunner -----------------------------
(* Bounded instances of StepRunner.                                                   *)
EXTENDS StepRunner

Base == [kind |-> "session", budgeted |-> TRUE, optional |-> FALSE, asks |-> FALSE,
         contract |-> TRUE, model |-> FALSE, resumable |-> FALSE]

\* A step of every kind: one that asks, one that selects a model, one that only acts, a
\* resumable and a plain subagent, functions with and without a budget.
EveryKind == {
    [Base EXCEPT !.asks = TRUE],
    [Base EXCEPT !.model = TRUE, !.optional = TRUE],
    [Base EXCEPT !.contract = FALSE, !.budgeted = FALSE],
    [Base EXCEPT !.kind = "background", !.resumable = TRUE],
    [Base EXCEPT !.kind = "background", !.budgeted = FALSE, !.optional = TRUE],
    [Base EXCEPT !.kind = "function", !.optional = TRUE],
    [Base EXCEPT !.kind = "function", !.budgeted = FALSE]}
=============================================================================
