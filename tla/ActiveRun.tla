------------------------------- MODULE ActiveRun -------------------------------
(***************************************************************************)
(* One execution of one run inside the process that owns it: the           *)
(* cancel/settle state machine of src/host/active-runs.ts, the lifecycle   *)
(* runTracked wraps around the engine (src/host/commands/context.ts), the  *)
(* event filter of createHostPort (src/host/host-port.ts) and the per-file *)
(* append queue of src/host/fs-store.ts.                                   *)
(*                                                                         *)
(* The engine is a source of events.  Its walker awaits every event it     *)
(* emits; step loggers and attempts abandoned by a time budget emit        *)
(* without the walker waiting for them ("background").  `/workflow cancel` *)
(* invocations (Callers) race all of them.                                 *)
(* A /workflow cancel of this run that is not served by this process (a    *)
(* cold cancel) belongs to another module.                                 *)
(*                                                                         *)
(* stream is the append queue and the log in one: entries in the order     *)
(* they were queued, each still queued, durable (in the JSONL file) or     *)
(* failed (its append was rejected and it is not in the file).             *)
(***************************************************************************)
EXTENDS Naturals, Sequences, FiniteSets

CONSTANTS
    Fresh,          \* TRUE: /workflow run, which also records run-meta; FALSE: a resume
    Callers,        \* invocations of /workflow cancel that may target the run
    MaxEmits,       \* bound: events the engine tries to emit before its terminal one
    MaxFailures     \* bound: appends the file system rejects

ASSUME ConstantsAssumption ==
    Fresh \in BOOLEAN /\ MaxEmits \in Nat /\ MaxFailures \in Nat

Outcomes == {"completed", "crashed", "cancelled", "blocked"}

\* The run-level terminal event an outcome is recorded with; a blocked run has none.
TerminalEvent == [completed |-> "run-completed", crashed |-> "run-crashed",
                  cancelled |-> "run-cancelled"]

\* "command-cancelled" is the run-cancelled event that handleCancel persists
\* (source "command"), as opposed to the one the engine emits.
EventTypes == {"run-execution-started", "run-meta", "step-event", "background-event",
               "run-completed", "run-crashed", "run-cancelled", "command-cancelled"}

NoStatus == "none"

VARIABLES
    state,          \* ActiveRun.state
    cancellation,   \* "none", or "set": the promise shared by concurrent cancel calls
    aborted,        \* controller.signal.aborted
    stream,         \* the append queue and the log, see above
    phase,          \* where runTracked and the engine's walker are
    awaiting,       \* index in stream the walker awaits, 0 for none
    outcome,        \* what the engine returned
    effective,      \* what runTracked resolved with; "rejected" when it threw
    registered,     \* the execution is in ActiveRuns
    caller,         \* per /workflow cancel invocation: where it is, and its answer
    emits,          \* events the engine has tried to emit
    dropped         \* types of the events acceptEvent refused

vars == <<state, cancellation, aborted, stream, phase, awaiting, outcome,
          effective, registered, caller, emits, dropped>>

States == {"running", "persisting-cancellation", "cancelled", "settling"}

Phases == {"opening", "opened", "describing", "working", "emitting", "closing", "returned",
           "awaiting-cancellation", "finally", "finally-waiting", "done"}

CallerStates == {"idle", "found", "waiting-first", "waiting-shared",
                 "accepted", "already-recorded", "already-settled", "rejected"}

Entries == [type : EventTypes, st : {"queued", "durable", "failed"}]

TypeOK ==
    /\ state \in States
    /\ cancellation \in {"none", "set"}
    /\ aborted \in BOOLEAN
    /\ stream \in Seq(Entries)
    /\ phase \in Phases
    /\ awaiting \in 0..Len(stream)
    /\ outcome \in Outcomes \union {NoStatus}
    /\ effective \in Outcomes \union {NoStatus, "rejected"}
    /\ registered \in BOOLEAN
    /\ caller \in [Callers -> CallerStates]
    /\ emits \in Nat
    /\ dropped \subseteq EventTypes

acceptsUntilRecorded == state # "cancelled"

acceptsEvents == state = "running"

\* Between the engine's return and the end of the second settle() only promise
\* continuations run: no I/O callback, and so no append completion, comes between.
RunningToCompletion == phase \in {"returned", "finally"}

-----------------------------------------------------------------------------
(* The append queue (fs-store.ts serialize/appendEvent).                    *)

Queued(type) == Append(stream, [type |-> type, st |-> "queued"])

AnyQueued(i) ==
    /\ ~RunningToCompletion
    /\ i \in DOMAIN stream
    /\ stream[i].st = "queued"

\* The entry being written: the oldest one still queued.
IsHead(i) ==
    /\ ~RunningToCompletion
    /\ i \in DOMAIN stream
    /\ stream[i].st = "queued"
    /\ \A j \in 1..(i - 1) : stream[j].st # "queued"

Failures == Cardinality({i \in DOMAIN stream : stream[i].st = "failed"})

-----------------------------------------------------------------------------
\* runTracked registers the execution and queues run-execution-started in one
\* synchronous stretch, past the event filter.
Init ==
    /\ state = "running"
    /\ cancellation = "none"
    /\ aborted = FALSE
    /\ stream = <<[type |-> "run-execution-started", st |-> "queued"]>>
    /\ phase = "opening"
    /\ awaiting = 1
    /\ outcome = NoStatus
    /\ effective = NoStatus
    /\ registered = TRUE
    /\ caller = [c \in Callers |-> "idle"]
    /\ emits = 0
    /\ dropped = {}

\* A fresh run records its provenance before the engine starts, past the filter too.
EnterEngine ==
    /\ phase = "opened"
    /\ IF Fresh
       THEN /\ stream' = Queued("run-meta")
            /\ awaiting' = Len(stream')
            /\ phase' = "describing"
       ELSE /\ phase' = "working"
            /\ UNCHANGED <<stream, awaiting>>
    /\ UNCHANGED <<state, cancellation, aborted, outcome, effective, registered,
                   caller, emits, dropped>>

\* host.emit of a checkpoint event by the walker: filtered, else appended and awaited.
EmitStepEvent ==
    /\ phase = "working"
    /\ emits < MaxEmits
    /\ emits' = emits + 1
    /\ \/ /\ acceptsEvents
          /\ stream' = Queued("step-event")
          /\ awaiting' = Len(stream')
          /\ phase' = "emitting"
          /\ UNCHANGED dropped
       \/ /\ ~acceptsEvents
          /\ dropped' = dropped \union {"step-event"}
          /\ UNCHANGED <<stream, awaiting, phase>>
    /\ UNCHANGED <<state, cancellation, aborted, outcome, effective, registered, caller>>

\* host.emit by a step logger or by an attempt its time budget abandoned: the walker
\* does not wait for it, and it may come after the engine has returned.
EmitBackgroundEvent ==
    /\ phase \notin {"opening", "opened", "describing"}
    /\ ~RunningToCompletion
    /\ emits < MaxEmits
    /\ emits' = emits + 1
    /\ \/ /\ acceptsEvents
          /\ stream' = Queued("background-event")
          /\ UNCHANGED dropped
       \/ /\ ~acceptsEvents
          /\ dropped' = dropped \union {"background-event"}
          /\ UNCHANGED stream
    /\ UNCHANGED <<state, cancellation, aborted, phase, awaiting, outcome, effective,
                   registered, caller>>

\* The tail of execute(): record the outcome and return it.  A blocked run records
\* nothing, and an event refused by the filter is not awaited.
EngineReturns(o) ==
    /\ phase = "working"
    /\ outcome' = o
    /\ \/ /\ o # "blocked" /\ acceptsEvents
          /\ stream' = Queued(TerminalEvent[o])
          /\ awaiting' = Len(stream')
          /\ phase' = "closing"
          /\ UNCHANGED dropped
       \/ /\ o # "blocked" /\ ~acceptsEvents
          /\ dropped' = dropped \union {TerminalEvent[o]}
          /\ phase' = "returned"
          /\ UNCHANGED <<stream, awaiting>>
       \/ /\ o = "blocked"
          /\ phase' = "returned"
          /\ UNCHANGED <<stream, awaiting, dropped>>
    /\ UNCHANGED <<state, cancellation, aborted, effective, registered, caller, emits>>

-----------------------------------------------------------------------------
(* The append at the head of the queue finishes.                            *)

\* What the walker does when the append it awaits succeeds.
WalkerResumes ==
    /\ awaiting' = 0
    /\ phase' = CASE phase = "opening" -> "opened"
                  [] phase \in {"describing", "emitting"} -> "working"
                  [] phase = "closing" -> "returned"

\* ... and when it is rejected: the exception leaves execute() and runTracked's try.
WalkerThrows ==
    /\ awaiting' = 0
    /\ phase' = "finally"
    /\ effective' = "rejected"

\* Whoever waits for the cancellation promise learns how it ended.
AnsweredFirstOnly(first, shared) ==
    [c \in Callers |-> IF caller[c] = "waiting-first" THEN first ELSE caller[c]]

Answered(first, shared) ==
    [c \in Callers |-> CASE caller[c] = "waiting-first"  -> first
                         [] caller[c] = "waiting-shared" -> shared
                         [] OTHER -> caller[c]]

AppendSucceeds(i) ==
    /\ IsHead(i)
    /\ stream' = [stream EXCEPT ![i].st = "durable"]
    /\ IF stream[i].type = "command-cancelled"
       THEN /\ state' = "cancelled"
            /\ aborted' = TRUE
            /\ caller' = Answered("accepted", "already-recorded")
       ELSE UNCHANGED <<state, aborted, caller>>
    /\ IF i = awaiting THEN WalkerResumes ELSE UNCHANGED <<awaiting, phase>>
    /\ UNCHANGED <<cancellation, outcome, effective, registered, emits, dropped>>

\* A settle() waiting for a cancellation that is rejected rejects with it; finish()
\* and release() happen all the same.
SettlersLeakRun ==
    /\ phase' = CASE phase = "awaiting-cancellation" -> "finally"
                  [] phase = "finally-waiting" -> "done"
                  [] OTHER -> phase
    /\ effective' = IF phase \in {"awaiting-cancellation", "finally-waiting"}
                    THEN "rejected" ELSE effective
    /\ UNCHANGED registered

SettlersReject ==
    /\ phase' = CASE phase = "awaiting-cancellation" -> "finally"
                  [] phase = "finally-waiting" -> "done"
                  [] OTHER -> phase
    /\ effective' = IF phase \in {"awaiting-cancellation", "finally-waiting"}
                    THEN "rejected" ELSE effective
    /\ registered' = (registered /\ phase # "finally-waiting")

\* A rejected append.  cancel() reopens the run to events, and to cancellation.
AppendFails(i) ==
    /\ IsHead(i)
    /\ Failures < MaxFailures
    /\ stream' = [stream EXCEPT ![i].st = "failed"]
    /\ IF stream[i].type = "command-cancelled"
       THEN /\ state' = "running"
            /\ cancellation' = "none"
            /\ caller' = Answered("rejected", "rejected")
            /\ SettlersReject
            /\ UNCHANGED awaiting
       ELSE /\ IF i = awaiting THEN WalkerThrows
                               ELSE UNCHANGED <<awaiting, phase, effective>>
            /\ UNCHANGED <<state, cancellation, caller, registered>>
    /\ UNCHANGED <<aborted, outcome, emits, dropped>>

-----------------------------------------------------------------------------
(* settle(), as runTracked calls it before it reports and again in finally. *)

SettleWithoutWaiting ==
    /\ phase = "returned"
    /\ state' = IF state = "cancelled" THEN state ELSE "settling"
    /\ effective' = IF state = "cancelled" THEN "cancelled" ELSE outcome
    /\ phase' = "finally"
    /\ UNCHANGED <<cancellation, aborted, stream, awaiting, outcome, registered,
                   caller, emits, dropped>>

\* runTracked's first settle(): closes cancellation admission, or waits for a
\* cancellation that was admitted before it.
SettleBeforeReport ==
    /\ phase = "returned"
    /\ \/ /\ state \in {"running", "settling"}
          /\ state' = "settling"
          /\ effective' = outcome
          /\ phase' = "finally"
       \/ /\ state = "persisting-cancellation"
          /\ phase' = "awaiting-cancellation"
          /\ UNCHANGED <<state, effective>>
       \/ /\ state = "cancelled"
          /\ effective' = "cancelled"
          /\ phase' = "finally"
          /\ UNCHANGED state
    /\ UNCHANGED <<cancellation, aborted, stream, awaiting, outcome, registered,
                   caller, emits, dropped>>

\* The cancellation settle() waited for was recorded: the run reports cancelled.
CancellationWins ==
    /\ phase = "awaiting-cancellation"
    /\ state = "cancelled"
    /\ effective' = "cancelled"
    /\ phase' = "finally"
    /\ UNCHANGED <<state, cancellation, aborted, stream, awaiting, outcome,
                   registered, caller, emits, dropped>>

\* The second settle(), whose answer is not used, then finish() and release().
SettleInFinally ==
    /\ phase = "finally"
    /\ \/ /\ state \in {"running", "settling"}
          /\ state' = "settling"
          /\ phase' = "done"
          /\ registered' = FALSE
       \/ /\ state = "persisting-cancellation"
          /\ phase' = "finally-waiting"
          /\ UNCHANGED <<state, registered>>
       \/ /\ state = "cancelled"
          /\ phase' = "done"
          /\ registered' = FALSE
          /\ UNCHANGED state
    /\ UNCHANGED <<cancellation, aborted, stream, awaiting, outcome, effective,
                   caller, emits, dropped>>

FinallyAfterCancellation ==
    /\ phase = "finally-waiting"
    /\ state = "cancelled"
    /\ phase' = "done"
    /\ registered' = FALSE
    /\ UNCHANGED <<state, cancellation, aborted, stream, awaiting, outcome,
                   effective, caller, emits, dropped>>

-----------------------------------------------------------------------------
(* /workflow cancel of a locally executing run (lifecycle.ts cancelActive). *)

\* activeRuns.find: the handler holds the ActiveRun, then reads the log.
FindActive(c) ==
    /\ caller[c] = "idle"
    /\ registered
    /\ caller' = [caller EXCEPT ![c] = "found"]
    /\ UNCHANGED <<state, cancellation, aborted, stream, phase, awaiting, outcome,
                   effective, registered, emits, dropped>>

CancelAfterSettling(c) ==
    /\ caller[c] = "found"
    /\ ~RunningToCompletion
    /\ cancellation = "none"
    /\ state' = "persisting-cancellation"
    /\ cancellation' = "set"
    /\ stream' = Queued("command-cancelled")
    /\ caller' = [caller EXCEPT ![c] = "waiting-first"]
    /\ UNCHANGED <<aborted, phase, awaiting, outcome, effective, registered, emits,
                   dropped>>

\* run.cancel(persist), at whatever point the execution has reached by then.
Cancel(c) ==
    /\ caller[c] = "found"
    /\ ~RunningToCompletion
    /\ \/ /\ cancellation = "set"
          /\ caller' = [caller EXCEPT ![c] = IF state = "cancelled"
                                             THEN "already-recorded"
                                             ELSE "waiting-shared"]
          /\ UNCHANGED <<state, cancellation, stream>>
       \/ /\ cancellation = "none" /\ state = "settling"
          /\ caller' = [caller EXCEPT ![c] = "already-settled"]
          /\ UNCHANGED <<state, cancellation, stream>>
       \/ /\ cancellation = "none" /\ state # "settling"
          /\ state' = "persisting-cancellation"
          /\ cancellation' = "set"
          /\ stream' = Queued("command-cancelled")
          /\ caller' = [caller EXCEPT ![c] = "waiting-first"]
    /\ UNCHANGED <<aborted, phase, awaiting, outcome, effective, registered, emits,
                   dropped>>

-----------------------------------------------------------------------------
Engine == EnterEngine \/ EmitStepEvent \/ \E o \in Outcomes : EngineReturns(o)

RunTracked == SettleBeforeReport \/ CancellationWins \/ SettleInFinally
              \/ FinallyAfterCancellation

FileSystem == \E i \in DOMAIN stream : AppendSucceeds(i) \/ AppendFails(i)

Next ==
    \/ Engine
    \/ EmitBackgroundEvent
    \/ FileSystem
    \/ RunTracked
    \/ \E c \in Callers : FindActive(c) \/ Cancel(c)

\* The process keeps running: its pending appends finish one way or the other, a
\* handler that holds the run goes on to cancel it, and the engine, whose loops and
\* retries are bounded, returns.
Fairness ==
    /\ WF_vars(FileSystem)
    /\ WF_vars(RunTracked)
    /\ WF_vars(EnterEngine)
    /\ WF_vars(\E o \in Outcomes : EngineReturns(o))
    /\ \A c \in Callers : WF_vars(Cancel(c))

Spec == Init /\ [][Next]_vars

FairSpec == Spec /\ Fairness

-----------------------------------------------------------------------------
(* Properties.                                                              *)

Durable(type) == {i \in DOMAIN stream :
                    stream[i].type = type /\ stream[i].st = "durable"}

\* Once a cancellation is in the queue or in the log, no event of the engine follows
\* it: a late checkpoint or terminal event never comes after run-cancelled and so
\* never brings the run back (active-runs.ts: "closing the late-event race before
\* the disk write").  Only the provenance record of a run cancelled while it starts
\* bypasses the filter.
NothingFollowsCancellation ==
    \A i, j \in DOMAIN stream :
        (/\ stream[i].type = "command-cancelled" /\ stream[i].st # "failed"
         /\ i < j)
        => stream[j].type = "run-meta"

\* The executor is aborted only when the cancellation, and every event accepted
\* before it, has been flushed (README.md: "Cancellation is flushed to that log
\* before /workflow cancel aborts local work").
FlushedBeforeAbort ==
    aborted =>
        \E i \in Durable("command-cancelled") :
            \A j \in 1..i : stream[j].st # "queued"

\* What runTracked reports is what the log says: the last run-level terminal event on
\* disk is the one for the reported status, and a run reported blocked has none.  A run
\* that completed has every checkpoint in the log (README.md:16), unless it was refused
\* on account of a cancellation whose own append then failed.
RunLevel == {"run-completed", "run-crashed", "run-cancelled", "command-cancelled"}

TerminalsOnDisk == UNION {Durable(t) : t \in RunLevel}

LastTerminal == stream[CHOOSE i \in TerminalsOnDisk :
                          \A j \in TerminalsOnDisk : j <= i].type

ReportMatchesLog ==
    /\ effective \in DOMAIN TerminalEvent =>
          /\ TerminalsOnDisk # {}
          /\ LastTerminal \in {TerminalEvent[effective]} \union
                 (IF effective = "cancelled" THEN {"command-cancelled"} ELSE {})
    /\ effective = "blocked" => TerminalsOnDisk = {}
    /\ effective = "completed" /\ "step-event" \in dropped =>
          \E i \in DOMAIN stream : stream[i].type = "command-cancelled" /\ stream[i].st = "failed"

\* The execution implements the one decision that CancelDecision describes.
DecisionTaken == CASE state = "cancelled" -> "recorded"
                   [] state = "settling"  -> "closed"
                   [] OTHER               -> "open"

AnswersGiven ==
    [c \in Callers |->
        IF caller[c] \in {"idle", "found", "waiting-first", "waiting-shared"}
        THEN "none" ELSE caller[c]]

Decision == INSTANCE CancelDecision WITH
    decision <- DecisionTaken, answer <- AnswersGiven, report <- effective

ImplementsDecision == Decision!Spec

\* A run ends, and leaves the table of active runs, however its cancellers, its
\* failed appends and its settling interleave.
RunEnds == <>(phase = "done" /\ ~registered)

\* A canceller that reached the execution is answered: settle() and cancel() never
\* wait for each other.
CancellersAnswered ==
    \A c \in Callers :
        caller[c] = "found" ~>
            caller[c] \in {"accepted", "already-recorded", "already-settled", "rejected"}

=============================================================================
