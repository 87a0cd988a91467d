---------------------------- MODULE CancelDecision -----------------------------
(***************************************************************************)
(* What one execution of a run promises the people who try to cancel it    *)
(* and whoever waits for its result: there is one decision, taken once.    *)
(* Either the cancellation is recorded, and then every canceller is told   *)
(* so and the run reports cancelled; or the run closes, and then no        *)
(* canceller is told its cancellation took effect.  An answer of           *)
(* "rejected" (the log could not be written) commits to neither.           *)
(***************************************************************************)
CONSTANT Callers

VARIABLES
    decision,   \* "open", "recorded" or "closed"
    answer,     \* what each canceller was told, "none" while it waits
    report      \* what the execution reported, "none" while it runs

vars == <<decision, answer, report>>

Init ==
    /\ decision = "open"
    /\ answer = [c \in Callers |-> "none"]
    /\ report = "none"

\* What a canceller may be told once the decision is d.
Answers(d) == CASE d = "recorded" -> {"already-recorded", "rejected"}
                [] d = "closed"   -> {"already-settled", "rejected"}
                [] d = "open"     -> {"rejected"}

\* What the execution may report once the decision is d.
Reports(d) == CASE d = "recorded" -> {"cancelled", "rejected"}
                [] d = "closed"   -> {"completed", "crashed", "cancelled", "blocked"}
                [] d = "open"     -> {"rejected"}

Decide == decision' = decision \/ (decision = "open" /\ decision' \in {"recorded", "closed"})

\* One canceller at most is the one whose request was accepted, at the moment the
\* decision is recorded; the others learn of a decision after it is taken.
Tell ==
    \E first \in SUBSET Callers :
        /\ \A c, d \in first : c = d
        /\ first # {} => decision = "open" /\ decision' = "recorded"
        /\ \A c \in first : answer[c] = "none"
        /\ answer' \in [Callers -> {"none", "accepted", "already-recorded",
                                    "already-settled", "rejected"}]
        /\ \A c \in first : answer'[c] = "accepted"
        /\ \A c \in Callers \ first :
               \/ answer'[c] = answer[c]
               \/ answer[c] = "none" /\ answer'[c] \in Answers(decision')

Report == report' = report \/ (report = "none" /\ report' \in Reports(decision'))

Next == Decide /\ Tell /\ Report

Spec == Init /\ [][Next]_vars

=============================================================================
