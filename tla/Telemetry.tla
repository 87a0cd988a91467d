------------------------------- MODULE Telemetry -------------------------------
(***************************************************************************)
(* The telemetry bridge (src/host/telemetry-bridge.ts): what a mapper has  *)
(* learned of a run from its events, and what it publishes for each.       *)
(*                                                                         *)
(* A start is known or not: durations, truncated errors, retries and agent *)
(* errors are left out.  A subscriber keeps the last run-level event it    *)
(* was told of.                                                            *)
(***************************************************************************)
EXTENDS RunLog

\* RunTelemetryState: the run's name and start, and the steps whose start is known.
UnknownRun == [named |-> FALSE, open |-> {}]

Payload(event, named, timed) == [event |-> event, named |-> named, timed |-> timed]

\* What an event is published as; events of constructs and questions are not.
Published == [t \in {"run-started"} |-> "run_started"] @@ [t \in {"run-resumed"} |-> "run_resumed"]
    @@ [t \in {"run-completed"} |-> "run_completed"] @@ [t \in {"run-crashed"} |-> "run_failed"]
    @@ [t \in {"run-cancelled"} |-> "run_cancelled"] @@ [t \in {"step-started"} |-> "step_started"]
    @@ [t \in {"step-completed"} |-> "step_completed"] @@ [t \in {"step-failed"} |-> "step_failed"]

\* Payloads that carry a duration, which is measured from the run's or the step's start.
Timed == {"run-completed", "run-crashed", "step-completed", "step-failed"}

\* Bug: the record of a run is dropped when it ends.
LearnedUntilEnd(mapper, e) ==
    CASE e.type = "run-started" -> [mapper EXCEPT !.named = TRUE]
      [] e.type = "step-started" -> [mapper EXCEPT !.open = @ \cup {e.path}]
      [] e.type \in {"step-completed", "step-failed"} -> [mapper EXCEPT !.open = @ \ {e.path}]
      [] e.type \in DOMAIN RunEnd -> UnknownRun
      [] OTHER -> mapper
\* settleStep and settleRun.
Learned(mapper, e) ==
    CASE e.type = "run-started" -> [mapper EXCEPT !.named = TRUE]
      [] e.type = "step-started" -> [mapper EXCEPT !.open = @ \cup {e.path}]
      [] e.type \in {"step-completed", "step-failed"} -> [mapper EXCEPT !.open = @ \ {e.path}]
      [] e.type \in DOMAIN RunEnd -> [mapper EXCEPT !.open = {}]
      [] OTHER -> mapper

\* observe: the payloads of one event, none or one.
observe(mapper, e) ==
    IF e.type \notin DOMAIN Published THEN <<>>
    ELSE LET known == IF e.type \in {"step-completed", "step-failed"} THEN e.path \in mapper.open
                      ELSE mapper.named
         IN  <<Payload(Published[e.type], Learned(mapper, e).named, e.type \in Timed => known)>>

\* appendEvent: every event is published after it was persisted.
Publish(bridge, e) ==
    [mapper |-> Learned(bridge.mapper, e), payloads |-> bridge.payloads \o observe(bridge.mapper, e)]

\* Bug: results are not observed.
unobserved(bridge, report) == <<>>
\* observeResult: blocking is no event, so it is published from the result of a call.
blocked(bridge, report) ==
    IF report = "blocked" THEN <<Payload("run_blocked", bridge.mapper.named, TRUE)>> ELSE <<>>

RunLevel == {"run_started", "run_resumed", "run_blocked", "run_completed", "run_failed", "run_cancelled"}

\* What a subscriber takes the run to be, once it has heard these.
Heard(belief, payloads) ==
    LET told == SelectSeq(payloads, LAMBDA p : p.event \in RunLevel)
    IN  IF told = <<>> THEN belief ELSE Last(told).event
=============================================================================
