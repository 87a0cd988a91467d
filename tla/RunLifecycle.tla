------------------------------ MODULE RunLifecycle ------------------------------
(***************************************************************************)
(* One run and the commands on it (src/host/commands, reconcile-runs.ts):  *)
(* run, resume, answer, cancel and delete, issued in several processes     *)
(* that share the run's log and its lease, and that may die.               *)
(*                                                                         *)
(* Agents are command invocations.  Each await that lets another command   *)
(* touch the log or the lease is a boundary between steps: what a command  *)
(* read may be stale when it acts.  The lease file is created and read     *)
(* whole, an orphaned retirement marker is replaced in one step, and one   *)
(* execution settles and is cancelled in one step (ExecutionLease and      *)
(* ActiveRun look closer).  The workflow is one step that may ask and      *)
(* crash; of the log, what the commands derive from it is kept.            *)
(***************************************************************************)
EXTENDS Naturals, FiniteSets

CONSTANTS
    Agents,         \* command invocations
    Procs,          \* processes of the extension
    ProcOf,         \* the process an agent belongs to
    First,          \* the agent of the run command
    MaxCommands,    \* bound: further commands issued
    MaxAsks,        \* bound: questions asked
    MaxCrashes,     \* bound: processes that die
    Nobody          \* no agent

ASSUME LifecycleAssumption ==
    /\ ProcOf \in [Agents -> Procs]
    /\ First \in Agents /\ Nobody \notin Agents
    /\ {MaxCommands, MaxAsks, MaxCrashes} \subseteq Nat

VARIABLES
    alive,      \* the processes that run
    log,        \* the event log
    lease,      \* the lease file
    marker,     \* the agent whose retirement marker is there
    pc,         \* where each agent is
    cmd,        \* its command
    ctl,        \* its execution in ActiveRuns: none, running or cancelled
    ex,         \* its execution id, 0 when it has none
    seen,       \* the events it read last
    target,     \* the lease it retires, or the execution it cancels
    shown,      \* the question it shows or answers
    commands,   \* bound: commands issued
    execs,      \* execution ids given out
    blind,      \* history: an agent acted on events that had changed since it read them
    deleted     \* history: the log was deleted

files == <<log, lease, marker>>
agent == <<pc, cmd, ctl, ex, seen, target, shown>>
history == <<blind, deleted>>
vars == <<alive, files, agent, commands, execs, history>>

StepStates == {"todo", "in_progress", "blocked", "completed", "crashed", "cancelled"}

\* run: run-started is recorded; step: the step's derived state; done: step-completed is
\* recorded; last: the last terminal event; by: the last run-execution-started; asks:
\* questionnaires asked; open: nothing settled the last one.
Logs == [run : BOOLEAN, step : StepStates, done : BOOLEAN,
         last : {"none", "completed", "crashed", "cancelled"}, by : Nat,
         asks : 0..MaxAsks, open : BOOLEAN]

Empty == [run |-> FALSE, step |-> "todo", done |-> FALSE, last |-> "none", by |-> 0,
          asks |-> 0, open |-> FALSE]

NoLease == [ex |-> 0]

Engine == {"beginning", "entering", "delivering", "working", "done"}

Retiring == {"marking", "checking", "recording", "removing", "unmarking"}

Places == Engine \union Retiring \union
    {"idle", "dead", "asking", "acquiring", "tracking", "settling",
     "listing", "reading", "inspecting", "loading", "judging", "cancelling", "coldCancelling", "deleting"}

\* The type invariant: every place an agent can be in and every log there can be, and
\* no execution id outlives its release (runTracked's finally).
TypeOK ==
    /\ alive \subseteq Procs
    /\ log \in Logs
    /\ lease \in [ex : Nat \ {0}, proc : Procs] \union {NoLease}
    /\ marker \in Agents \union {Nobody}
    /\ pc \in [Agents -> Places]
    /\ cmd \in [Agents -> {"run", "resume", "answer", "cancel", "delete"}]
    /\ ctl \in [Agents -> {"none", "running", "cancelled"}]
    /\ ex \in [Agents -> Nat]
    /\ seen \in [Agents -> Logs]
    /\ target \in [Agents -> [ex : Nat \ {0}, proc : Procs] \union {NoLease}]
    /\ shown \in [Agents -> 0..MaxAsks]
    /\ commands \in 0..MaxCommands
    /\ execs \in Nat
    /\ blind \in BOOLEAN /\ deleted \in BOOLEAN
    \* A command has an execution id while its execution goes on or releases its lease.
    /\ \A a \in Agents :
           ex[a] # 0 => pc[a] \in Engine \union Retiring \union {"tracking", "settling"}

-----------------------------------------------------------------------------
(* What the log says.                                                       *)

\* deriveRunStatus.
Status(l) ==
    CASE ~l.run -> "none"
      [] l.run /\ l.step \in {"in_progress", "blocked"} -> l.step
      [] l.run /\ l.step \notin {"in_progress", "blocked"} /\ l.last # "none" -> l.last
      [] OTHER -> "in_progress"

\* A terminal event closes the step if it is open, and settles the question.
Ended(l, how) ==
    [l EXCEPT !.last = how, !.open = FALSE,
              !.step = IF @ \in {"in_progress", "blocked"} THEN how ELSE @]

\* One that names the step closes it, whatever its state.
EndedAt(l, how) == [Ended(l, how) EXCEPT !.step = how]

\* Bug in AnswerRefused: the block need not be the last word.
NeverRefused(l) == ~l.run

\* resumeWithAnswer refuses when the run has not started or something settled the last
\* question asked at the path.
AnswerRefused(l) == ~l.run \/ ~l.open

\* Bug in Reruns: a completed run is run again.
RerunsWhatStopped(status) == status \in {"crashed", "cancelled", "completed"}

\* resumeAction's rerun.
Reruns(status) == status \in {"crashed", "cancelled"}

isLiveRun(status) == status \in {"in_progress", "blocked"}

-----------------------------------------------------------------------------
(* Steps.                                                                   *)

\* Where the events an agent read are still in its hands.
Informed == {"inspecting", "marking", "checking", "recording", "removing", "judging",
             "acquiring", "tracking", "beginning", "delivering", "cancelling", "coldCancelling",
             "deleting"}

Goto(a, place) ==
    /\ pc' = [pc EXCEPT ![a] = place]
    /\ seen' = IF place \in Informed THEN seen ELSE [seen EXCEPT ![a] = Empty]

\* The agent reads the log and goes on, where what it reads may matter.
ReadsLog(a, place) ==
    /\ pc' = [pc EXCEPT ![a] = place]
    /\ seen' = [seen EXCEPT ![a] = IF place \in Informed THEN log ELSE Empty]

\* The agent appends to the log, or removes it.  informed: the append follows from what
\* the agent read, which should still be what is there.
Writes(a, l, informed) ==
    /\ log' = l
    /\ blind' = (blind \/ (informed /\ seen[a] # log))

\* ActiveRuns.find, in the agent's process.
Active(a) == {b \in Agents : ProcOf[b] = ProcOf[a] /\ ctl[b] # "none"}

\* Bug in Dead: whatever is not the agent's own is taken for dead.
NotMine(a, l) == l # NoLease /\ l.proc # ProcOf[a]

\* Bug in Dead: no owner is ever found dead.
NeverDead(a, l) == l = NoLease /\ l # NoLease

\* inspect: the lease's owner is provably dead (the processes are on one machine).
Dead(a, l) == l # NoLease /\ l.proc \notin alive

Init ==
    /\ alive = Procs
    /\ log = Empty /\ lease = NoLease /\ marker = Nobody
    /\ pc = [a \in Agents |-> IF a = First THEN "acquiring" ELSE "idle"]
    /\ cmd = [a \in Agents |-> "run"]
    /\ ctl = [a \in Agents |-> "none"]
    /\ ex = [a \in Agents |-> 0]
    /\ seen = [a \in Agents |-> Empty]
    /\ target = [a \in Agents |-> NoLease]
    /\ shown = [a \in Agents |-> 0]
    /\ commands = 0 /\ execs = 0
    /\ blind = FALSE /\ deleted = FALSE

-----------------------------------------------------------------------------
(* An execution: runTracked.                                                *)

\* acquire: whatever lease is there, even a dead owner's, the command fails.
Acquire(a) ==
    /\ pc[a] = "acquiring"
    /\ \/ /\ lease = NoLease
          /\ execs' = execs + 1
          /\ lease' = [ex |-> execs', proc |-> ProcOf[a]]
          /\ ex' = [ex EXCEPT ![a] = execs']
          /\ ctl' = [ctl EXCEPT ![a] = "running"]
          /\ Goto(a, "tracking")
          /\ UNCHANGED shown
       \/ /\ lease # NoLease
          /\ Goto(a, "idle")
          /\ shown' = [shown EXCEPT ![a] = 0]
          /\ UNCHANGED <<execs, lease, ex, ctl>>
    /\ UNCHANGED <<alive, log, marker, cmd, target, commands, history>>

\* run-execution-started is appended by runTracked, cancelled or not.
Track(a) ==
    /\ pc[a] = "tracking"
    /\ Writes(a, [log EXCEPT !.by = ex[a]], cmd[a] = "resume")
    /\ Goto(a, "beginning")
    /\ UNCHANGED <<alive, lease, marker, cmd, ctl, ex, target, shown, commands, execs,
                   deleted>>

\* The engine's events are accepted until the execution is cancelled; then it stops.
EngineWrites(a, l) ==
    /\ ctl[a] = "running"
    /\ Writes(a, l, FALSE)
    /\ UNCHANGED <<alive, lease, marker, cmd, ctl, ex, target, commands, execs, deleted>>

\* runWorkflow, or resumeWorkflow with the events the command read: it begins at the first
\* node without an output.
Begin(a) ==
    /\ pc[a] = "beginning"
    /\ \/ /\ cmd[a] = "run"
          /\ EngineWrites(a, [log EXCEPT !.run = TRUE])
          /\ Goto(a, "entering")
       \/ /\ cmd[a] = "resume"
          /\ EngineWrites(a, log)                        \* run-resumed
          /\ Goto(a, IF seen[a].done THEN "done" ELSE "entering")
    /\ UNCHANGED shown

\* The definition changed under a completed step: the resume records a crash.
Drift(a) ==
    /\ pc[a] = "beginning" /\ cmd[a] = "resume" /\ seen[a].done
    /\ EngineWrites(a, EndedAt(log, "crashed"))
    /\ Goto(a, "settling")
    /\ shown' = [shown EXCEPT ![a] = 0]

\* The attended loop reads the log under the lease and hands it to resumeWithAnswer.
Reload(a) ==
    /\ pc[a] = "beginning" /\ cmd[a] = "answer"
    /\ IF AnswerRefused(log)
       THEN Goto(a, "settling") /\ shown' = [shown EXCEPT ![a] = 0]
       ELSE ReadsLog(a, "delivering") /\ UNCHANGED shown
    /\ UNCHANGED <<alive, files, cmd, ctl, ex, target, commands, execs, history>>

Deliver(a) ==
    /\ pc[a] = "delivering" /\ ctl[a] = "running"
    /\ Writes(a, [log EXCEPT !.step = "in_progress", !.open = FALSE], TRUE)
    /\ Goto(a, "working")
    /\ shown' = [shown EXCEPT ![a] = 0]
    /\ UNCHANGED <<alive, lease, marker, cmd, ctl, ex, target, commands, execs, deleted>>

StartStep(a) ==
    /\ pc[a] = "entering"
    /\ EngineWrites(a, [log EXCEPT !.step = "in_progress"])
    /\ Goto(a, "working")
    /\ UNCHANGED shown

\* The step asks, completes, or fails for good.
EndStep(a) ==
    /\ pc[a] = "working"
    /\ \/ /\ log.asks < MaxAsks
          /\ EngineWrites(a, [log EXCEPT !.step = "blocked", !.asks = @ + 1, !.open = TRUE])
          /\ shown' = [shown EXCEPT ![a] = log.asks + 1]
          /\ Goto(a, "settling")
       \/ /\ EngineWrites(a, [log EXCEPT !.step = "completed", !.done = TRUE, !.open = FALSE])
          /\ Goto(a, "done")
          /\ UNCHANGED shown
       \/ /\ EngineWrites(a, EndedAt(log, "crashed"))
          /\ Goto(a, "settling")
          /\ UNCHANGED shown

Complete(a) ==
    /\ pc[a] = "done"
    /\ EngineWrites(a, Ended(log, "completed"))
    /\ Goto(a, "settling")
    /\ UNCHANGED shown

\* A cancelled execution stops at its next boundary, its events refused.
Stop(a) ==
    /\ pc[a] \in Engine /\ ctl[a] = "cancelled"
    /\ Goto(a, "settling")
    /\ shown' = [shown EXCEPT ![a] = 0]
    /\ UNCHANGED <<alive, files, cmd, ctl, ex, target, commands, execs, history>>

\* settle and finish; the release begins.  A cancellation overrides a block.
Settle(a) ==
    /\ pc[a] = "settling"
    /\ ctl' = [ctl EXCEPT ![a] = "none"]
    /\ shown' = [shown EXCEPT ![a] = IF ctl[a] = "cancelled" THEN 0 ELSE @]
    /\ target' = [target EXCEPT ![a] = [ex |-> ex[a], proc |-> ProcOf[a]]]
    /\ Goto(a, "marking")
    /\ UNCHANGED <<alive, files, cmd, ex, commands, execs, history>>

-----------------------------------------------------------------------------
(* retire, for a release (the agent has an execution) or a reclamation.     *)

\* Where an agent goes when its retire returned: the question its run blocked on, or on
\* with its command.
Returned(a) ==
    /\ Goto(a, IF ex[a] = 0 THEN "loading" ELSE IF shown[a] # 0 THEN "asking" ELSE "idle")
    /\ ex' = [ex EXCEPT ![a] = 0]
    /\ target' = [target EXCEPT ![a] = NoLease]

MarkerHeld == \E h \in Agents : marker = h /\ ProcOf[h] \in alive

\* A live agent's marker makes retire return false, the lease still there.
Mark(a) ==
    /\ pc[a] = "marking"
    /\ \/ /\ ~MarkerHeld
          /\ marker' = a
          /\ Goto(a, "checking")
          /\ UNCHANGED <<ex, target>>
       \/ /\ MarkerHeld
          /\ Returned(a)
          /\ UNCHANGED marker
    /\ UNCHANGED <<alive, log, lease, cmd, ctl, shown, commands, execs, history>>

Check(a) ==
    /\ pc[a] = "checking"
    /\ Goto(a, IF lease # target[a] THEN "unmarking"
               ELSE IF ex[a] = 0 /\ Status(seen[a]) = "in_progress" THEN "recording"
               ELSE "removing")
    /\ UNCHANGED <<alive, files, cmd, ctl, ex, target, shown, commands, execs, history>>

\* The synthetic run-crashed, before a dead owner's lease is removed or without one.
RecordCrash(a) ==
    /\ pc[a] = "recording"
    /\ Writes(a, Ended(log, "crashed"), TRUE)
    /\ Goto(a, IF target[a] = NoLease THEN "loading" ELSE "removing")
    /\ UNCHANGED <<alive, lease, marker, cmd, ctl, ex, target, shown, commands, execs,
                   deleted>>

RemoveLease(a) ==
    /\ pc[a] = "removing"
    /\ lease' = NoLease
    /\ Goto(a, "unmarking")
    /\ UNCHANGED <<alive, log, marker, cmd, ctl, ex, target, shown, commands, execs, history>>

Unmark(a) ==
    /\ pc[a] = "unmarking"
    /\ marker' = Nobody
    /\ Returned(a)
    /\ UNCHANGED <<alive, log, lease, cmd, ctl, shown, commands, execs, history>>

-----------------------------------------------------------------------------
(* Commands.                                                                *)

Issue(a) ==
    /\ pc[a] = "idle" /\ commands < MaxCommands
    /\ commands' = commands + 1
    /\ \E c \in {"resume", "cancel", "delete"} : cmd' = [cmd EXCEPT ![a] = c]
    /\ Goto(a, "listing")
    /\ UNCHANGED <<alive, files, ctl, ex, target, shown, execs, history>>

\* handleCancel found an execution in this process, keeps it and reads the log.
CancelsActive(a) ==
    \E b \in Active(a) :
        /\ target' = [target EXCEPT ![a] = [ex |-> ex[b], proc |-> ProcOf[b]]]
        /\ ReadsLog(a, "cancelling")

\* resolveRunRef: the run must be listed.  cancel looks for a local execution first.
Resolve(a) ==
    /\ pc[a] = "listing"
    /\ \/ cmd[a] = "cancel" /\ CancelsActive(a)
       \/ /\ cmd[a] = "cancel" => Active(a) = {}
          /\ Goto(a, IF log.run THEN "reading" ELSE "idle")
          /\ UNCHANGED target
    /\ UNCHANGED <<alive, files, cmd, ctl, ex, shown, commands, execs, history>>

\* reconcileAbandonedRun does nothing for a run that executes here (delete does not ask).
Reconcile(a) ==
    /\ pc[a] = "reading"
    /\ IF cmd[a] # "delete" /\ Active(a) # {}
       THEN Goto(a, "loading")
       ELSE ReadsLog(a, "inspecting")
    /\ UNCHANGED <<alive, files, cmd, ctl, ex, target, shown, commands, execs, history>>

\* A dead owner's lease is retired, with a crash if the run was in progress; a run in
\* progress without a lease crashed, too, unless it began to execute here meanwhile.
Inspect(a) ==
    /\ pc[a] = "inspecting"
    /\ LET mayCrash == cmd[a] # "delete" => Active(a) = {}
           inProgress == Status(seen[a]) = "in_progress" IN
       \/ /\ Dead(a, lease) /\ (inProgress => mayCrash)
          /\ Goto(a, "marking") /\ target' = [target EXCEPT ![a] = lease]
       \/ /\ lease = NoLease /\ inProgress /\ mayCrash
          /\ Goto(a, "recording") /\ UNCHANGED target
       \/ /\ \/ lease # NoLease /\ ~Dead(a, lease)
             \/ lease = NoLease /\ ~inProgress
             \/ inProgress /\ ~mayCrash
          /\ Goto(a, "loading") /\ UNCHANGED target
    /\ UNCHANGED <<alive, files, cmd, ctl, ex, shown, commands, execs, history>>

\* The command reads the log; cancel looks again for a local execution.
Load(a) ==
    /\ pc[a] = "loading"
    /\ \/ /\ cmd[a] = "cancel" /\ CancelsActive(a)
       \/ /\ cmd[a] = "cancel" => Active(a) = {}
          /\ LET ends == \/ ~log.run
                         \/ cmd[a] = "cancel" /\ Status(log) = "cancelled"
                         \/ cmd[a] = "delete" /\ isLiveRun(Status(log))
             IN ReadsLog(a, IF ends THEN "idle" ELSE "judging")
          /\ UNCHANGED target
    /\ UNCHANGED <<alive, files, cmd, ctl, ex, shown, commands, execs, history>>

\* Any lease makes the command give up.  Then its own way.
Judge(a) ==
    /\ pc[a] = "judging"
    /\ LET status == Status(seen[a]) IN
       IF lease # NoLease
       THEN Goto(a, "idle") /\ UNCHANGED shown
       ELSE \/ /\ cmd[a] = "resume" /\ status = "blocked"
               /\ shown' = [shown EXCEPT ![a] = seen[a].asks]
               /\ Goto(a, "asking")
            \/ /\ cmd[a] = "resume" /\ Reruns(status)
               /\ Goto(a, "acquiring") /\ UNCHANGED shown
            \/ /\ cmd[a] = "cancel" /\ status = "blocked"
               /\ Goto(a, "coldCancelling") /\ UNCHANGED shown
            \/ /\ cmd[a] = "delete"
               /\ Goto(a, "deleting") /\ UNCHANGED shown
            \/ /\ cmd[a] = "resume" => status # "blocked" /\ ~Reruns(status)
               /\ cmd[a] = "cancel" => status # "blocked"
               /\ cmd[a] # "delete"
               /\ Goto(a, "idle") /\ UNCHANGED shown
    /\ UNCHANGED <<alive, files, cmd, ctl, ex, target, commands, execs, history>>

\* The user answers the question shown, or dismisses it.
Respond(a) ==
    /\ pc[a] = "asking"
    /\ \/ /\ cmd' = [cmd EXCEPT ![a] = "answer"]
          /\ Goto(a, "acquiring")
          /\ UNCHANGED shown
       \/ /\ Goto(a, "idle")
          /\ shown' = [shown EXCEPT ![a] = 0]
          /\ UNCHANGED cmd
    /\ UNCHANGED <<alive, files, ctl, ex, target, commands, execs, history>>

\* The step that the log read last shows as current.
currentStep(l) == l.run /\ Status(l) # "completed" /\ Status(l) = l.step

\* run.cancel() on the execution that was found: recorded if it is still running.
CancelActive(a) ==
    /\ pc[a] = "cancelling"
    /\ LET running == {b \in Agents : ctl[b] = "running" /\ ex[b] = target[a].ex} IN
       \/ /\ running # {}
          /\ ctl' = [b \in Agents |-> IF b \in running THEN "cancelled" ELSE ctl[b]]
          /\ Writes(a, IF currentStep(seen[a]) THEN EndedAt(log, "cancelled")
                       ELSE Ended(log, "cancelled"), FALSE)
       \/ /\ running = {}
          /\ UNCHANGED <<ctl, log, blind>>
    /\ target' = [target EXCEPT ![a] = NoLease]
    /\ Goto(a, "idle")
    /\ UNCHANGED <<alive, lease, marker, cmd, ex, shown, commands, execs, deleted>>

ColdCancel(a) ==
    /\ pc[a] = "coldCancelling"
    /\ Writes(a, Ended(log, "cancelled"), TRUE)
    /\ Goto(a, "idle")
    /\ UNCHANGED <<alive, lease, marker, cmd, ctl, ex, target, shown, commands, execs,
                   deleted>>

Delete(a) ==
    /\ pc[a] = "deleting"
    /\ Writes(a, Empty, TRUE)
    /\ deleted' = TRUE
    /\ Goto(a, "idle")
    /\ UNCHANGED <<alive, lease, marker, cmd, ctl, ex, target, shown, commands, execs>>

\* A process dies, with its commands.
Crash(p) ==
    /\ p \in alive /\ Cardinality(Procs \ alive) < MaxCrashes
    /\ alive' = alive \ {p}
    /\ LET lost(local, none) == [a \in Agents |-> IF ProcOf[a] = p THEN none ELSE local[a]] IN
       /\ pc' = lost(pc, "dead") /\ cmd' = lost(cmd, "run") /\ ctl' = lost(ctl, "none")
       /\ ex' = lost(ex, 0) /\ seen' = lost(seen, Empty)
       /\ target' = lost(target, NoLease) /\ shown' = lost(shown, 0)
    /\ UNCHANGED <<files, commands, execs, history>>

Execution(a) ==
    \/ Acquire(a) \/ Track(a) \/ Begin(a) \/ Drift(a) \/ Reload(a) \/ Deliver(a)
    \/ StartStep(a) \/ EndStep(a) \/ Complete(a) \/ Stop(a) \/ Settle(a)
    \/ Mark(a) \/ Check(a) \/ RecordCrash(a) \/ RemoveLease(a) \/ Unmark(a)

Handler(a) ==
    \/ Resolve(a) \/ Reconcile(a) \/ Inspect(a) \/ Load(a) \/ Judge(a)
    \/ CancelActive(a) \/ ColdCancel(a) \/ Delete(a)

Next ==
    \/ \E a \in Agents : Execution(a) \/ Handler(a) \/ Issue(a) \/ Respond(a)
    \/ \E p \in Procs : Crash(p)

Spec == Init /\ [][Next]_vars

\* What began goes on.  Nobody has to issue a command, respond or die.
FairSpec == Spec /\ \A a \in Agents : WF_vars(Execution(a) \/ Handler(a))

-----------------------------------------------------------------------------
(* Properties.                                                              *)

\* Executions of a run are serial over all processes: whoever executes is the last one
\* recorded in the log, whatever was reclaimed, cancelled or deleted meanwhile
\* (runTracked, reconcileAbandonedRun, the lease).
ExecutionsAreSerial ==
    \A a \in Agents : pc[a] \in Engine => log.by \in {ex[a], 0}

\* As long as no command acted on events that had changed since it read them: a completed
\* run stays completed until it is deleted or its execution, still settling, is cancelled;
\* in a deleted one nothing is executed, though a command that was admitted before may still
\* record its execution or be cancelled; a cancelled step is entered again only by a resume,
\* so an answer to a question that was open when the user cancelled is refused
\* (settledAfter, resumeAction, isLiveRun).
EndStands ==
    [][~blind' =>
        /\ Status(log) = "completed" =>
            \/ Status(log') = "completed" \/ deleted'
            \/ Status(log') = "cancelled" /\ \E a \in Agents : ctl[a] = "running"
        /\ deleted => ~log'.run /\ log'.asks = 0 /\ log'.step \in {"todo", "cancelled"}
        /\ log.step = "cancelled" =>
            \/ log'.step = "cancelled" \/ deleted'
            \/ \E a \in Agents : cmd[a] = "resume" /\ pc[a] \in Engine]_vars

\* Each question takes one answer, however many prompts show it in whatever process: an
\* answer finds its run blocked (the attended loop reads the log again under the lease).
OneAnswerPerQuestion ==
    [][\A a \in Agents :
        pc[a] = "delivering" /\ pc'[a] = "working" /\ ~blind' => log.step = "blocked"]_vars

\* Nobody executes the run, which is in progress all the same.
Abandoned == Status(log) = "in_progress" /\ \A a \in Agents : ctl[a] = "none"

\* A run whose executor is gone is reclaimed by the next command on it, a dead process's
\* marker or not (reconcileAbandonedRun, retire), unless that command's process dies or
\* another command is just retiring a lease.
GhostsAreReclaimed ==
    \A a \in Agents :
        (pc[a] = "reading" /\ Abandoned)
            ~> (~Abandoned \/ pc[a] = "dead"
                \/ \E h \in Agents \ {a} : marker = h /\ pc[h] # "dead")

=============================================================================
