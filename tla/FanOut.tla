-------------------------------- MODULE FanOut ---------------------------------
(***************************************************************************)
(* A fan-out construct of a workflow over a run's whole life: a            *)
(* .foreach, sequential or concurrent, or a .parallel                      *)
(* (src/engine/concurrent-nodes.ts, scheduler.ts's lanes), whose items     *)
(* run step by step, block on questions, crash and drain, are answered one *)
(* at a time (resumeWithAnswer) or restarted (resumeWorkflow), while the   *)
(* process may die and the run be cancelled in between.  The construct is  *)
(* the only node of its workflow, and a parallel arm is an item whose body *)
(* is one step.  One construct alone has no more lanes than the run has    *)
(* slots, so no step waits for one here: see ConcurrencyGate.              *)
(*                                                                         *)
(* One engine call at a time is in progress (the execution lease).  The    *)
(* event log is kept as what the code derives from it: the state of every  *)
(* step (deriveStepStates), the step outputs, the foreach history, and the *)
(* last run-level terminal event.  An event counts from the moment its     *)
(* append finished, which is when whoever emitted it goes on.              *)
(***************************************************************************)
EXTENDS Naturals, FiniteSets

CONSTANTS
    Kinds,          \* the constructs to consider
    N,              \* items, or arms
    Body,           \* steps in the body of a foreach item
    Concurrency,    \* the foreach's declared concurrency
    Ceiling,        \* the workflow's maxConcurrency
    Asking,         \* items whose steps may block on a question
    Optional,       \* items whose steps are optional
    MaxCalls,       \* bound: engine calls
    MaxCrashes,     \* bound: processes that die
    MaxCancels      \* bound: cancellations

\* commit() rejects a concurrency above the ceiling; a foreach of concurrency 1 is
\* the sequential one.
ASSUME FanOutAssumption ==
    /\ Kinds \subseteq {"sequential", "foreach", "parallel"}
    /\ {N, Body, Concurrency, Ceiling} \subseteq Nat \ {0}
    /\ "foreach" \in Kinds => Concurrency \in 2..Ceiling
    /\ Asking \subseteq 1..N /\ Optional \subseteq (1..N) \ Asking
    /\ {MaxCalls, MaxCrashes, MaxCancels} \subseteq Nat

Items == 1..N

VARIABLES
    kind,       \* the construct of this workflow; it never changes
    \* Volatile: one engine call.
    phase,      \* "walking", "draining", "completing", "returned", "down"
    target,     \* the step a re-entry answers; Fresh in a fresh round
    toRun,      \* items no lane has claimed yet
    pc,         \* where each item is
    at,         \* the step of its body an item is at
    outcome,    \* per item: how it settled in this call
    results,    \* items whose output is in the construct's result array
    stopped,    \* lanes claim no further items
    still,      \* stillBlocked: steps left blocked for a later answer
    aborted,    \* the run was cancelled: the signal fired, and no event is accepted
    report,     \* what the last command reported, "none" while it runs
    \* Durable: what is derived from the event log.
    steps,      \* per step: its state
    outputs,    \* steps with a recorded output
    history,    \* foreach items with a recorded completion
    nodeDone,   \* the construct's node-completed is recorded
    terminal,   \* the last run-level terminal event
    \* Bounds.
    calls, crashes, cancels

memory == <<target, toRun, pc, at, outcome, results, stopped, still>>
log == <<steps, outputs, history, nodeDone, terminal>>
bounds == <<calls, crashes, cancels>>
vars == <<kind, phase, memory, report, aborted, log, bounds>>

BodyOf == IF kind = "parallel" THEN 1 ELSE Body

StepKeys == Items \X (1..BodyOf)

Fresh == <<0, 0>>

PCs == {"out", "boundary", "executing", "checkpointing", "settled"}

Outcomes == {"none", "ok", "blocked", "crashed", "cancelled"}

StepStates == {"todo", "in_progress", "blocked", "completed", "cancelled", "crashed"}

TypeOK ==
    /\ kind \in Kinds
    /\ phase \in {"walking", "draining", "completing", "returned", "down"}
    /\ target \in StepKeys \union {Fresh}
    /\ toRun \subseteq Items
    /\ pc \in [Items -> PCs]
    /\ at \in [Items -> 1..BodyOf]
    /\ outcome \in [Items -> Outcomes]
    /\ results \subseteq Items
    /\ stopped \in BOOLEAN
    /\ still \subseteq StepKeys
    /\ aborted \in BOOLEAN
    /\ report \in {"none", "blocked", "completed", "crashed", "cancelled"}
    /\ steps \in [StepKeys -> StepStates]
    /\ outputs \subseteq StepKeys
    /\ history \subseteq Items
    /\ nodeDone \in BOOLEAN
    /\ terminal \in {"none", "completed", "crashed", "cancelled"}
    /\ calls \in Nat /\ crashes \in Nat /\ cancels \in Nat

-----------------------------------------------------------------------------
(* What is derived from the log (step-state.ts, run-status.ts).             *)

StepIs(state) == \E k \in StepKeys : steps[k] = state

deriveRunStatus ==
    IF StepIs("in_progress") THEN "in_progress"
    ELSE IF StepIs("blocked") THEN "blocked"
    ELSE IF terminal # "none" THEN terminal
    ELSE IF StepIs("crashed") THEN "crashed"
    ELSE "in_progress"

CloseInProgress(state) ==
    [k \in StepKeys |-> IF steps[k] = "in_progress" THEN state ELSE steps[k]]

\* A run-level terminal event closes every step that is open.
closeOpen(state) ==
    [k \in StepKeys |-> IF steps[k] \in {"in_progress", "blocked"} THEN state ELSE steps[k]]

\* A step's event, refused once the run is cancelled.
Record(k, state) == steps' = IF aborted THEN steps ELSE [steps EXCEPT ![k] = state]

StepKey(i) == <<i, at[i]>>

-----------------------------------------------------------------------------
(* The keys re-entry looks a blocked sibling up by, and the items it runs.  *)

\* pendingBlocks: every other blocked step, by its static step path.
pendingBlocks(step) == {k \in StepKeys : steps[k] = "blocked"} \ {step}

ItemPath(i) == <<i>>

\* A foreach looks it up by the item's path (batch@1), a parallel by the arm's
\* (par/lint), which is a step's.
SiblingKey(i) == IF kind = "parallel" THEN <<i, 1>> ELSE <<i>>

RecoveredItems == history

Recovered == IF kind = "parallel" THEN {i \in Items : <<i, 1>> \in outputs} ELSE history

\* Neither recovered nor found to be blocked: re-entry runs it from its start.
extraToRun(step) ==
    {i \in Items \ {step[1]} :
        i \notin Recovered /\ SiblingKey(i) \notin pendingBlocks(step)}

stillBlocked(step) ==
    {k \in pendingBlocks(step) : SiblingKey(k[1]) = k /\ k[1] \notin Recovered}

\* From the first item that has no recorded completion.
fromFirstMissing == {i \in Items : ~(1..i \subseteq history)}

\* What a fresh round runs: a parallel starts over.
freshItems == CASE kind = "foreach"    -> Items \ history
                [] kind = "sequential" -> fromFirstMissing
                [] kind = "parallel"   -> Items

reentryItems(step) ==
    IF kind = "sequential" THEN step[1]..N ELSE {step[1]} \union extraToRun(step)

laneCount == CASE kind = "foreach"    -> Concurrency
               [] kind = "sequential" -> 1
               [] kind = "parallel"   -> Ceiling

\* Lanes claim items in their order.
First(n, S) == {i \in S : Cardinality({j \in S : j < i}) < n}

\* Re-entry has one lane.  A foreach goes to the answered item at once, a parallel takes its
\* arms in order.
reentryClaim(step) ==
    IF kind = "parallel" THEN First(1, reentryItems(step)) ELSE {step[1]}

\* A call's lanes claim their first items in one stretch.
StartCall(step, items, claimed) ==
    /\ phase' = "walking"
    /\ target' = step
    /\ toRun' = items \ claimed
    /\ pc' = [i \in Items |-> IF i \in claimed THEN "boundary" ELSE "out"]
    /\ outcome' = [i \in Items |-> "none"]
    /\ stopped' = FALSE
    /\ aborted' = FALSE
    /\ report' = "none"
    /\ calls' = calls + 1

Init ==
    /\ kind \in Kinds
    /\ phase = "walking"
    /\ target = Fresh
    /\ toRun = Items \ First(laneCount, Items)
    /\ pc = [i \in Items |-> IF i \in First(laneCount, Items) THEN "boundary" ELSE "out"]
    /\ at = [i \in Items |-> 1]
    /\ outcome = [i \in Items |-> "none"]
    /\ results = {}
    /\ stopped = FALSE
    /\ still = {}
    /\ aborted = FALSE
    /\ report = "none"
    /\ steps = [k \in StepKeys |-> "todo"]
    /\ outputs = {}
    /\ history = {}
    /\ nodeDone = FALSE
    /\ terminal = "none"
    /\ calls = 1
    /\ crashes = 0
    /\ cancels = 0

-----------------------------------------------------------------------------
(* A lane and its item.                                                     *)

StopsOnCancelOnly(o) == o = "cancelled" \/ (kind = "sequential" /\ o # "ok")

\* Which outcome of an item keeps its lanes from claiming another: a sequential
\* foreach returns at once, a fresh round drains, and re-entry only looks at the signal.
Stops(o) == CASE kind = "sequential" -> o # "ok"
              [] kind # "sequential" -> o = "cancelled" \/ (o = "crashed" /\ target = Fresh)

\* Item i settles with o, and its lane claims the next one in the same stretch.
LaneGoesOn(i, o) ==
    LET claimed == IF stopped \/ Stops(o) THEN {} ELSE First(1, toRun)
    IN  /\ outcome' = [outcome EXCEPT ![i] = o]
        /\ stopped' = (stopped \/ Stops(o))
        /\ results' = IF o = "ok" THEN results \union {i} ELSE results
        /\ toRun' = toRun \ claimed
        /\ pc' = [j \in Items |-> IF j = i THEN "settled"
                                  ELSE IF j \in claimed THEN "boundary"
                                  ELSE pc[j]]

\* The re-entered step goes on with its answer, and records no second step-started.
Reentered(i) == StepKey(i) = target

\* A foreach body checks the signal at every node, re-entry before every extra arm.
ChecksSignal(i) == kind # "parallel" \/ (target # Fresh /\ ~Reentered(i))

StartStep(i) ==
    /\ pc[i] = "boundary"
    /\ \/ /\ aborted /\ ChecksSignal(i)
          /\ LaneGoesOn(i, "cancelled")
          /\ UNCHANGED steps
       \/ /\ ~(aborted /\ ChecksSignal(i))
          /\ pc' = [pc EXCEPT ![i] = "executing"]
          /\ IF Reentered(i) THEN UNCHANGED steps ELSE Record(StepKey(i), "in_progress")
          /\ UNCHANGED <<outcome, stopped, results, toRun>>
    /\ UNCHANGED <<kind, phase, target, at, still, report, aborted, outputs, history,
                   nodeDone, terminal, bounds>>

\* How the step an item is at may settle.  An arm that asks is a questionnaire or an
\* interactive step (commit() keeps agents that ask out of a fan-out): it blocks whenever
\* it runs, and has an output only when answered.  A foreach body may ask or not, as its
\* branches decide.  Only an optional step may fail without a crash.
MaySettle(i) ==
    LET asks == kind = "parallel" /\ i \in Asking
    IN  {"crashed"}
        \union (IF asks /\ ~Reentered(i) THEN {} ELSE {"ok"})
        \union (IF i \in Asking THEN {"blocked"} ELSE {})
        \union (IF i \in Optional THEN {"failed"} ELSE {})
        \union (IF aborted /\ ~asks THEN {"cancelled"} ELSE {})

\* The step's body settled and its event is recorded.  An optional step that failed
\* counts as done; a crash is recorded by the run, not by the step.
EndStep(i, o) ==
    LET done == o \in {"ok", "failed"}
    IN  /\ pc[i] = "executing"
        /\ o \in MaySettle(i)
        /\ CASE o = "ok"      -> Record(StepKey(i), "completed")
             [] o = "failed"  -> Record(StepKey(i), "crashed")
             [] o = "blocked" -> Record(StepKey(i), "blocked")
             [] OTHER         -> UNCHANGED steps
        /\ outputs' = IF o = "ok" /\ ~aborted THEN outputs \union {StepKey(i)} ELSE outputs
        /\ IF done /\ (at[i] < BodyOf \/ kind # "parallel")
           THEN /\ IF at[i] < BodyOf
                   THEN /\ pc' = [pc EXCEPT ![i] = "boundary"]
                        /\ at' = [at EXCEPT ![i] = @ + 1]
                   ELSE /\ pc' = [pc EXCEPT ![i] = "checkpointing"]
                        /\ UNCHANGED at
                /\ UNCHANGED <<outcome, stopped, results, toRun>>
           ELSE LaneGoesOn(i, IF done THEN "ok" ELSE o) /\ UNCHANGED at
        /\ UNCHANGED <<kind, phase, target, still, report, aborted, history, nodeDone,
                       terminal, bounds>>

\* foreach-item-completed.
CheckpointItem(i) ==
    /\ pc[i] = "checkpointing"
    /\ history' = IF aborted THEN history ELSE history \union {i}
    /\ LaneGoesOn(i, "ok")
    /\ UNCHANGED <<kind, phase, target, at, still, report, aborted, steps, outputs,
                   nodeDone, terminal, bounds>>

-----------------------------------------------------------------------------
(* The construct settles, and with it the run (settleConcurrent, execute).  *)

LanesDone ==
    /\ phase = "walking"
    /\ \A i \in Items : pc[i] \in {"out", "settled"}

Some(o) == \E i \in Items : outcome[i] = o

\* What the engine call had in memory is gone.
Forgets ==
    /\ target' = Fresh
    /\ toRun' = {}
    /\ pc' = [i \in Items |-> "out"]
    /\ at' = [i \in Items |-> 1]
    /\ outcome' = [i \in Items |-> "none"]
    /\ results' = {}
    /\ stopped' = FALSE
    /\ still' = {}

Returns(status) == phase' = "returned" /\ report' = status /\ Forgets

\* Cancelled before crashed before blocked before ok.  run-cancelled is refused: the
\* command's own is in the log already.
SettleCancelled ==
    /\ LanesDone /\ Some("cancelled")
    /\ Returns("cancelled")
    /\ UNCHANGED <<kind, aborted, log, bounds>>

SettleCrashed ==
    /\ LanesDone /\ ~Some("cancelled") /\ Some("crashed")
    /\ phase' = "draining"
    /\ still' = still \union {StepKey(i) : i \in {j \in Items : outcome[j] = "blocked"}}
    /\ UNCHANGED <<kind, target, toRun, pc, at, outcome, results, stopped, report,
                   aborted, log, bounds>>

WaitForAnswer(k) ==
    /\ phase = "draining" /\ k \in still /\ steps[k] # "blocked"
    /\ still' = still \ {k}
    /\ UNCHANGED <<kind, phase, target, toRun, pc, at, outcome, results, stopped, report,
                   aborted, log, bounds>>

\* step-cancelled for a blocked sibling, which nobody is going to answer.
AbandonBlocked(k) ==
    /\ phase = "draining" /\ k \in still
    /\ still' = still \ {k}
    /\ Record(k, "cancelled")
    /\ UNCHANGED <<kind, phase, target, toRun, pc, at, outcome, results, stopped, report,
                   aborted, outputs, history, nodeDone, terminal, bounds>>

CrashRun ==
    /\ phase = "draining" /\ still = {}
    /\ Returns("crashed")
    /\ IF aborted THEN UNCHANGED <<steps, terminal>>
                  ELSE steps' = closeOpen("crashed") /\ terminal' = "crashed"
    /\ UNCHANGED <<kind, aborted, outputs, history, nodeDone, bounds>>

SettleBlocked ==
    /\ LanesDone /\ ~Some("cancelled") /\ ~Some("crashed")
    /\ Some("blocked") \/ still # {}
    /\ Returns("blocked")
    /\ UNCHANGED <<kind, aborted, log, bounds>>

CompleteWithoutPending ==
    /\ LanesDone
    /\ ~Some("cancelled") /\ ~Some("crashed") /\ ~Some("blocked")
    /\ phase' = "completing"
    /\ nodeDone' = (nodeDone \/ ~aborted)
    /\ UNCHANGED <<kind, memory, report, aborted, steps, outputs, history, terminal,
                   bounds>>

CompleteNode ==
    /\ LanesDone
    /\ ~Some("cancelled") /\ ~Some("crashed") /\ ~Some("blocked") /\ still = {}
    /\ phase' = "completing"
    /\ nodeDone' = (nodeDone \/ ~aborted)
    /\ UNCHANGED <<kind, memory, report, aborted, steps, outputs, history, terminal,
                   bounds>>

CompleteRun ==
    /\ phase = "completing"
    /\ Returns(IF aborted THEN "cancelled" ELSE "completed")
    /\ terminal' = IF aborted THEN terminal ELSE "completed"
    /\ UNCHANGED <<kind, aborted, steps, outputs, history, nodeDone, bounds>>

-----------------------------------------------------------------------------
(* The commands, and the process.                                           *)

\* resumeWithAnswer for a step: any pending one may be named, unless the run completed
\* after it had asked (settledAfter; a crash or a cancellation leaves nothing blocked).
Answer(step) ==
    /\ phase = "returned" /\ calls < MaxCalls
    /\ deriveRunStatus = "blocked" /\ steps[step] = "blocked" /\ terminal # "completed"
    /\ StartCall(step, reentryItems(step), reentryClaim(step))
    /\ steps' = [steps EXCEPT ![step] = "in_progress"]
    /\ at' = [i \in Items |-> IF i = step[1] THEN step[2] ELSE 1]
    /\ still' = stillBlocked(step)
    /\ results' = CASE kind = "sequential" -> history \intersect 1..(step[1] - 1)
                    [] kind # "sequential" -> Recovered \ {step[1]}
    /\ UNCHANGED <<kind, outputs, history, nodeDone, terminal, crashes, cancels>>

\* resumeWorkflow of a crashed or cancelled run.
Resume ==
    /\ phase = "returned" /\ calls < MaxCalls
    /\ deriveRunStatus \in {"crashed", "cancelled"}
    /\ at' = [i \in Items |-> 1]
    /\ still' = {}
    /\ results' = Items \ freshItems
    /\ \/ /\ ~nodeDone
          /\ StartCall(Fresh, freshItems, First(laneCount, freshItems))
       \/ /\ nodeDone
          /\ phase' = "completing" /\ aborted' = FALSE /\ report' = "none"
          /\ calls' = calls + 1
          /\ UNCHANGED <<target, toRun, pc, outcome, stopped>>
    /\ UNCHANGED <<kind, log, crashes, cancels>>

\* /workflow cancel: of the executing run, or of a blocked one.
Cancel ==
    /\ cancels < MaxCancels
    /\ phase # "down" /\ ~aborted
    /\ phase = "returned" => deriveRunStatus = "blocked"
    /\ cancels' = cancels + 1
    /\ aborted' = (phase # "returned")
    /\ steps' = closeOpen("cancelled")
    /\ terminal' = "cancelled"
    /\ report' = IF phase = "returned" THEN "cancelled" ELSE report
    /\ UNCHANGED <<kind, phase, memory, outputs, history, nodeDone, calls, crashes>>

\* The process dies: what it had in memory is gone.
Crash ==
    /\ phase \notin {"returned", "down"} /\ crashes < MaxCrashes
    /\ crashes' = crashes + 1
    /\ phase' = "down"
    /\ aborted' = FALSE
    /\ report' = "none"
    /\ Forgets
    /\ UNCHANGED <<kind, log, calls, cancels>>

\* The next command's reconcileAbandonedRun.
Reconcile ==
    /\ phase = "down"
    /\ phase' = "returned"
    /\ IF deriveRunStatus = "in_progress"
       THEN steps' = closeOpen("crashed") /\ terminal' = "crashed"
       ELSE UNCHANGED <<steps, terminal>>
    /\ UNCHANGED <<kind, memory, report, aborted, outputs, history, nodeDone, bounds>>

-----------------------------------------------------------------------------
ItemStep(i) ==
    \/ StartStep(i) \/ CheckpointItem(i)
    \/ \E o \in {"ok", "failed", "blocked", "crashed", "cancelled"} : EndStep(i, o)

Settle ==
    \/ SettleCancelled \/ SettleCrashed \/ CrashRun \/ SettleBlocked
    \/ CompleteNode \/ CompleteRun
    \/ \E k \in StepKeys : AbandonBlocked(k)

Commands == Resume \/ Cancel \/ \E k \in StepKeys : Answer(k)

Next ==
    \/ \E i \in Items : ItemStep(i)
    \/ Settle
    \/ Commands
    \/ Crash
    \/ Reconcile

\* Every step ends (its time budget and its retries are bounded), and the walker goes on.
Fairness == (\A i \in Items : WF_vars(ItemStep(i))) /\ WF_vars(Settle)

Spec == Init /\ [][Next]_vars

FairSpec == Spec /\ Fairness

-----------------------------------------------------------------------------
(* Properties.                                                              *)

\* What a command reports is the status every later command derives from the log,
\* however the items' events interleaved: a run reported blocked has a step to answer
\* and none in progress ("settle, then ask"), a run reported crashed has nothing left to
\* answer.  A cancelled run reports so, whatever the walker returned.
ReportMatchesStatus ==
    phase = "returned" /\ report # "none" =>
        deriveRunStatus = IF aborted THEN "cancelled" ELSE report

\* It holds but for a blocked step of an item that re-entry takes for done: an arm that
\* is blocked again after a restart while the log has its output from the discarded
\* attempt, or the first step of a foreach item that was restarted while blocked further
\* on.  Answering a sibling then completes the run past the open question.
BlockedButRecovered == \E k \in StepKeys : steps[k] = "blocked" /\ k[1] \in Recovered

ReportMatchesStatusOtherwise == BlockedButRecovered \/ ReportMatchesStatus

\* Answering one block leaves every other blocked step untouched: a step that is blocked
\* is worked on again only because it is the one answered (concurrent-nodes.ts: re-entry
\* "leaves every OTHER still-blocked sibling untouched").
OthersUntouched(k) ==
    steps[k] = "blocked" /\ steps'[k] = "in_progress" => phase = "returned" /\ target' = k

BlockedSiblingsUntouched == [][\A k \in StepKeys : OthersUntouched(k)]_vars

BlockedArmsUntouched ==
    [][kind = "parallel" => \A k \in StepKeys : OthersUntouched(k)]_vars

\* Recorded work is not done twice: no step of a checkpointed foreach item starts again,
\* whatever the run goes through, nor does a completed parallel arm while questions of
\* its siblings are answered.  (An item of several steps that was restarted while
\* blocked is blocked twice over; once one answer has completed it, the answer to the
\* other runs it again.  Hence the item being answered is left out.)
Kept(k) == CASE kind = "parallel" -> target # Fresh /\ steps[k] = "completed"
             [] kind # "parallel" -> k[1] \in history \ {target'[1]} /\ steps[k] # "in_progress"

CompletedWorkIsKept == [][\A k \in StepKeys : Kept(k) => steps'[k] # "in_progress"]_vars

\* The construct's output is recorded only when it is whole: every item has settled
\* well, in this call or an earlier one, and has its place in the output.
OutputIsWhole ==
    [][nodeDone' /\ ~nodeDone =>
        /\ results = Items
        /\ \A i \in Items \ Optional : \A s \in 1..BodyOf : <<i, s>> \in outputs
        /\ kind # "parallel" => history = Items]_vars

\* Drain, then crash: in a fresh round no lane claims an item once one has crashed,
\* the lane of the crashed item included.
DrainClaimsNothing ==
    [][target = Fresh /\ Some("crashed")' =>
        \A i \in Items : pc[i] = "out" => pc'[i] = "out"]_vars

\* An engine call comes to an end: its lanes wait for nothing but their own steps.
CallReturns == phase = "walking" ~> phase \in {"returned", "down"}

=============================================================================
