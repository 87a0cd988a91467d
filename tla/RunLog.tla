-------------------------------- MODULE RunLog ---------------------------------
(***************************************************************************)
(* The event log of a run as its readers see it.  Each of them folds the   *)
(* whole log: deriveStepStates and deriveRunStatus (src/engine/            *)
(* step-state.ts, run-status.ts), and what resume-workflow.ts rebuilds     *)
(* from it: outputs, the foreach history, the open questions and the steps *)
(* to check for drift.  A fold can be advanced event by event, so a log is *)
(* the record of what its readers have made of it, and Record appends one  *)
(* event.                                                                  *)
(***************************************************************************)
EXTENDS WorkflowTree

(***************************************************************************)
(* Events.  An event of the run itself has the path <<>>; run-crashed may  *)
(* name the node that failed.                                              *)
(***************************************************************************)
Event(type, path) == [type |-> type, path |-> path]
WithOutput(type, path, output) == [type |-> type, path |-> path, output |-> output]
ArmEvent(path, taken) == [type |-> "branch-arm", path |-> path, taken |-> taken]
CountEvent(path, count) == [type |-> "foreach-started", path |-> path, count |-> count]

EmptyLog == [
    started |-> FALSE,      \* run-started is recorded
    states |-> <<>>,        \* deriveStepStates, by static key
    arms |-> {},            \* branch arms that were ever taken
    terminal |-> "none",    \* the last run-level terminal event
    outputs |-> <<>>,       \* rebuildStepOutputs, by static key
    completed |-> {},       \* completedStepKeys: completed and not opened again
    asked |-> <<>>,         \* the latest question per step, in the order they were asked
    items |-> <<>>]         \* buildForeachItemHistory, by foreach path

Live == {"in_progress", "blocked"}

\* The state an event leaves the step it names in.
Asking == {"questionnaire-asked", "interaction-requested"}
StepEffect == [t \in {"step-started", "answers-provided", "interaction-provided"} |-> "in_progress"]
    @@ [t \in Asking |-> "blocked"]
    @@ [t \in {"step-completed"} |-> "completed"]
    @@ [t \in {"step-failed"} |-> "crashed"]

RunEnd == [t \in {"run-completed"} |-> "completed"]
    @@ [t \in {"run-crashed"} |-> "crashed"]
    @@ [t \in {"run-cancelled"} |-> "cancelled"]

\* Bug: a step that waits is not closed by the end of its run.
CloseInProgress(states, end) == [k \in DOMAIN states |-> IF states[k] = "in_progress" THEN end ELSE states[k]]
\* A run that stopped leaves no step in progress or waiting.
CloseOpen(states, end) == [k \in DOMAIN states |-> IF states[k] \in Live THEN end ELSE states[k]]

StatesAfter(log, e) ==
    LET key == StaticKey(e.path)
    IN  CASE e.type \in DOMAIN StepEffect -> Put(log.states, key, StepEffect[e.type])
          [] e.type = "branch-arm" -> Put(log.states, key, IF e.taken THEN "in_progress" ELSE "skipped")
          [] e.type = "node-completed" /\ key \in log.arms -> Put(log.states, key, "completed")
          [] e.type \in {"run-crashed", "run-cancelled"} ->
                CloseOpen(IF e.path = <<>> THEN log.states ELSE Put(log.states, key, RunEnd[e.type]),
                          RunEnd[e.type])
          [] OTHER -> log.states

AskedAfter(asked, e) ==
    IF e.type \in Asking
    THEN Append(SelectSeq(asked, LAMBDA a : StaticKey(a.path) # StaticKey(e.path)), e)
    ELSE asked

ItemsAfter(items, e) ==
    IF e.type = "foreach-item-completed"
    THEN LET foreach == Child(Front(e.path), Last(e.path)[1])
             known == IF foreach \in DOMAIN items THEN items[foreach] ELSE <<>>
         IN  Put(items, foreach, Put(known, Last(e.path), e.output))
    ELSE items

\* Bug: the outputs of constructs are not rebuilt.
OutputsOfSteps(outputs, e) ==
    IF e.type = "step-completed" THEN Put(outputs, StaticKey(e.path), e.output) ELSE outputs
OutputsAfter(outputs, e) ==
    IF e.type \in {"step-completed", "node-completed"} THEN Put(outputs, StaticKey(e.path), e.output)
    ELSE outputs

Record(log, e) ==
    LET key == StaticKey(e.path) IN
    [started |-> log.started \/ e.type = "run-started",
     states |-> StatesAfter(log, e),
     arms |-> IF e.type = "branch-arm" /\ e.taken THEN log.arms \cup {key} ELSE log.arms,
     terminal |-> IF e.type \in DOMAIN RunEnd THEN RunEnd[e.type] ELSE log.terminal,
     outputs |-> OutputsAfter(log.outputs, e),
     completed |-> IF e.type = "step-completed" THEN log.completed \cup {key}
                   ELSE IF e.type \in Asking \cup {"step-started"} THEN log.completed \ {key}
                   ELSE log.completed,
     asked |-> AskedAfter(log.asked, e),
     items |-> ItemsAfter(log.items, e)]

(***************************************************************************)
(* What a reader concludes.                                                *)
(***************************************************************************)
StateIs(log, s) == \E k \in DOMAIN log.states : log.states[k] = s

deriveRunStatus(log) ==
    CASE StateIs(log, "in_progress") -> "in_progress"
      [] ~StateIs(log, "in_progress") /\ StateIs(log, "blocked") -> "blocked"
      [] OTHER -> IF log.terminal # "none" THEN log.terminal
                  ELSE IF StateIs(log, "crashed") THEN "crashed" ELSE "in_progress"

\* The open questions, the earliest asked first.
pendingHumanInputs(log) ==
    SelectSeq(log.asked, LAMBDA a : log.states[StaticKey(a.path)] = "blocked")

\* Completed steps the definition no longer has: the run cannot be resumed with it.
Drifted(def, log) == {k \in log.completed : ~IsStepAt(def, k)}
=============================================================================
