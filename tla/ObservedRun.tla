------------------------------ MODULE ObservedRun ------------------------------
(***************************************************************************)
(* A run (NodeWalk) and who watches it: the progress view (Progress),      *)
(* folded from the events of its log, and the telemetry bridge (Telemetry) *)
(* with one subscriber.                                                    *)
(*                                                                         *)
(* The view is a function of the log: the live panel, the card of an ended *)
(* run and /workflow status project the same events (progress-sink.ts,     *)
(* commands/status.ts), so one fold stands for them.  A bridge belongs to  *)
(* one invocation of a command: it starts knowing nothing, learns from the *)
(* log the command loads and from what it appends itself, and is gone with *)
(* the invocation.                                                         *)
(***************************************************************************)
EXTENDS NodeWalk, Progress, Telemetry

VARIABLES
    fold,           \* foldEvents of the log
    mapper,         \* what the bridge of the executing invocation knows
    learned,        \* what a bridge that loads the log knows
    published,      \* the payloads of the last step
    belief          \* the last run-level payload the subscriber was told of

observers == <<fold, mapper, learned, published, belief>>

\* The events of a step pass through a bridge that knows `knows`.
Observe(knows) ==
    LET bridge == FoldLeft(Publish, [mapper |-> knows, payloads |-> <<>>], sent')
    IN  /\ fold' = FoldLeft(Advance, fold, sent')
        /\ learned' = FoldLeft(Learned, learned, sent')
        /\ mapper' = IF pc' = "idle" THEN UnknownRun ELSE bridge.mapper
        /\ published' = bridge.payloads \o
                            (IF pc # "idle" /\ pc' = "idle" THEN blocked(bridge, report') ELSE <<>>)
        /\ belief' = Heard(belief, published')

ObservedInit ==
    /\ Init
    /\ fold = EmptyFold /\ mapper = UnknownRun /\ learned = UnknownRun
    /\ published = <<>> /\ belief = "none"

\* A command loads the log before it appends to it.
ObservedNext ==
    \/ Engine /\ Observe(mapper)
    \/ Commands /\ Observe(learned)
    \/ Crash /\ Observe(UnknownRun)
    \/ Edit /\ Observe(UnknownRun)

ObservedSpec == ObservedInit /\ [][ObservedNext]_<<vars, observers>>

(***************************************************************************)
(* The panel.                                                              *)
(***************************************************************************)
view == project(def, log.states, fold)

\* Whether the log still has a step in progress or waiting.
HasOpenStep == \E k \in DOMAIN log.states : IsStepAt(def, k) /\ log.states[k] \in Live

\* Two folds of one log agree (project.ts:163-333 against step-state.ts:50-142): while the run
\* goes on, the clock of a step runs exactly as long as the step is in progress, over
\* questions, answers, crashes, restarts and iterations.
ClockMatchesState ==
    fold.run = "running" => \A k \in DOMAIN log.states :
        IsStepAt(def, k) => (log.states[k] = "in_progress" <=> Clock(fold, k) = "running")

\* A construct of a run that stopped between two of its nodes: some are done, some never began.
StoppedBetween(rows, row) ==
    LET states == {rows[child] : child \in Children(def, fold, row)}
    IN  "todo" \in states /\ states \cap SETTLED # {}

\* An arm that a stop cut short and no later execution repeated: behind a failed optional step
\* a restart may skip the node it was repeating (CompletedNodesFormPrefix).
ArmLeftOpen == \E k \in log.arms : log.states[k] \in {"crashed", "cancelled"}

\* The panel of a run that ended does not depend on the time any more and shows nothing at work
\* or waiting (project.ts:77-82, 335-345, 445-449), but for a construct that stopped between two
\* of its nodes and what is above it, and for a step that was left open; when the run completed,
\* with the workflow it began with, its bar is full.
EndedRunIsSettled ==
    fold.terminal # "none" /\ ~HasOpenStep =>
        LET v == view IN
        /\ \A k \in DOMAIN fold.clocks : fold.clocks[k] # "running"
        /\ \A row \in DOMAIN v : v[row] \in Live =>
            StoppedBetween(v, row) \/ \E child \in Children(def, fold, row) : v[child] \in Live
        /\ fold.terminal = "completed" /\ edits = 0 /\ ~ArmLeftOpen => stepsSettled(v, fold) = stepsTotal(def, v, fold)

\* What is drawn above a key: its prefixes, the foreach of an item, the branch of an arm.
Above(key) ==
    LET prefixes == {SubSeq(key, 1, i) : i \in 1..(Len(key) - 1)}
    IN  {row \in Rows(def, fold) :
            \/ row.path \in prefixes
            \/ row.kind = "foreach" /\ \E p \in prefixes : ForeachKey(p) = row.path
            \/ row.kind = "branch" /\ \E arm \in ArmRows(row) : arm.path \in prefixes}

\* A construct that completed in an earlier iteration or attempt is still shown as completed
\* when something under it runs or waits again.
UnderClosed(key) == \E row \in Above(key) : row.path \in fold.closed

\* An arm that re-entry takes though it was not recorded as taken: an edit added it while the run
\* was blocked in another one, or a discarded attempt's output turned its condition.
UnderUnannounced(key) == \E row \in Above(key) : row.kind = "branch" /\ \E arm \in ArmRows(row) :
    /\ arm.path \in {SubSeq(key, 1, i) : i \in 1..(Len(key) - 1)}
    /\ arm.path \notin DOMAIN log.states \/ log.states[arm.path] = "skipped"

\* The step at work is drawn (collapse.ts:14-17), unless a construct above it was closed before
\* or an arm above it never announced.  The panel's timer turns while a step is at work, unless
\* in such an arm, and not while the run waits for an answer, which may take hours
\* (progress-widget.ts:11-16, 161-167), but for a question asked inside a branch arm, which
\* stays in progress, or under a construct or arm like those, or by a step that an edit removed,
\* and for what is inside an arm that was left open or an item that an edit dropped.
PanelFollowsRun ==
    /\ AtWork /\ ~UnderUnannounced(StaticKey(Here)) =>
        /\ hasWorkInFlight(view)
        /\ UnderClosed(StaticKey(Here)) \/ \E row \in Drawn(def, fold, view) : row.path = StaticKey(Here)
    /\ report = "blocked" /\ ~OpenInArm /\ ~ArmLeftOpen /\ (\A k \in DOMAIN fold.clocks : ~DroppedItem(k))
        /\ (\A k \in DOMAIN log.states : log.states[k] = "blocked" =>
                (\E row \in Rows(def, fold) : row.path = k) /\ ~UnderClosed(k) /\ ~UnderUnannounced(k))
            => ~hasWorkInFlight(view)

(***************************************************************************)
(* Telemetry.                                                              *)
(***************************************************************************)
\* A payload needs no other (telemetry-bridge.ts:18-20): whichever invocation publishes it, it
\* names the workflow, and it has its duration if it is to have one.
PublishedIsSelfContained == \A i \in DOMAIN published : published[i].named /\ published[i].timed

\* What the subscriber believes of a run that is not executing is what the last call
\* returned (telemetry-bridge.ts:7-12, context.ts:37-42): blocked and cold-cancelled
\* runs included.
SubscriberFollows ==
    pc = "idle" /\ report \notin {"none", "threw"} =>
        belief = [completed |-> "run_completed", crashed |-> "run_failed",
                  cancelled |-> "run_cancelled", blocked |-> "run_blocked"][report]
=============================================================================
