------------------------------- MODULE StepRunner -------------------------------
(***************************************************************************)
(* One function or agent step from its start to its settlement             *)
(* (src/engine/step-runner.ts, runStepNodeBody and finishStep of           *)
(* execute.ts): attempts under a wall-time and a token budget, retries,    *)
(* corrections within a session, questions that block the step and answers *)
(* that continue it, and attempts that outlive their time budget: one that *)
(* timed out is asked to stop and abandoned, and what it still does        *)
(* interleaves with the attempts after it and with the rest of the run.    *)
(*                                                                         *)
(* Events pass through the file's append queue in order, and whoever       *)
(* emitted one goes on when it is written.  Appends succeed here (their    *)
(* failures are ActiveRun's).  Of the log, the state it derives for the    *)
(* step is kept (deriveStepStates).  An engine call ends when the step     *)
(* blocks or the run is over, and a cancellation aborts it once it is      *)
(* recorded; from then on its events are refused, and whoever emits one    *)
(* goes on.  Time is counted in units the budget is a number of.           *)
(***************************************************************************)
EXTENDS AgentBridge, Sequences, FiniteSets

CONSTANTS
    Steps,          \* the steps to consider: what their definitions say
    Budget,         \* maxDurationMs of a step that declares one
    MaxTokens,      \* the token budget of an agent step
    MaxRetry,       \* retry.maxRetry
    MaxRepairs,     \* maxOutputRepairs
    MaxUsage,       \* bound: tokens one turn uses
    MaxAnswers      \* bound: answers the user delivers

\* asks: it may call workflow_submit_questions; contract: it declares an output schema;
\* model: it names one, which the harness has to select; resumable: it continues one
\* session file.  commit() rejects asks in a background step.
Definitions ==
    [kind : {"function", "session", "background"}, budgeted : BOOLEAN, optional : BOOLEAN,
     asks : BOOLEAN, contract : BOOLEAN, model : BOOLEAN, resumable : BOOLEAN]

ASSUME StepAssumption ==
    /\ Steps \subseteq Definitions
    /\ \A s \in Steps : s.kind # "session" => ~s.asks
    /\ {Budget, MaxTokens, MaxUsage} \subseteq Nat \ {0}
    /\ {MaxRetry, MaxRepairs, MaxAnswers, MaxSessions} \subseteq Nat
    /\ MaxSessions >= (MaxRetry + 1) * (MaxAnswers + 1)

VARIABLES
    step,       \* the step's definition; it never changes
    aborted,    \* the run's abort signal
    \* retryLoop and withTimeBudget
    pc,         \* where the loop is
    n,          \* its counter
    cur,        \* the attempt it races against the timer
    carry,      \* tokens the first attempt starts from; zero once consumed
    carryMs,    \* carryOverMs
    timer,      \* time left until the budget's timer fires
    outcome,    \* the step's outcome
    \* the attempts
    att,        \* per attempt: where it is
    timedOut,   \* attempts whose time budget fired
    repair,     \* per attempt: corrections sent
    total,      \* per attempt: totalTokens
    verdict,    \* per attempt: what checkAgentTurn says of its last reply
    \* the log
    queue,      \* appends under way, the oldest first
    state,      \* the step's state, as the log derives it
    asked,      \* what the last questionnaire-asked event recorded
    answers,    \* bound: answers delivered
    base,       \* attempts of earlier engine calls
    \* History: what the attempt in progress really used, blocks included.
    ran, burned

loop == <<pc, n, cur, carry, carryMs, timer, outcome>>
attempts == <<att, timedOut, repair, total, verdict>>
log == <<queue, state, asked>>
ghosts == <<ran, burned>>
vars == <<step, aborted, loop, attempts, log, answers, base, ghosts, bridge>>

Kinds == {"step-started", "step-retry", "agent-usage", "agent-error", "agent-steer",
          "step-completed", "step-failed", "questionnaire-asked", "answers-provided",
          "run-crashed", "run-cancelled", "run-completed"}

\* An attempt's places: selecting a model, waiting for a reply, for an append, or over.
Places == {"none", "selecting", "turn", "usage", "error", "steer", "returned"}

Verdicts == {"none", "ok", "questions", "violation", "retryable", "fatal"}

StepStates == {"todo", "in_progress", "blocked", "completed", "crashed", "cancelled"}

PCs == {"starting", "running", "retrying", "backoff", "finishing", "walking", "ending",
        "blocked", "answering", "over"}

\* Types; total is bounded by the budget and one turn's overrun, over a block.
TypeOK ==
    /\ step \in Steps
    /\ aborted \in BOOLEAN
    /\ pc \in PCs
    /\ n \in 0..(MaxRetry + 1)
    /\ cur \in 0..MaxSessions
    /\ carry \in 0..MaxTokens
    /\ carryMs \in 0..Budget
    /\ timer \in 0..Budget
    /\ outcome \in {"none", "ok", "blocked", "crashed", "cancelled"}
    /\ att \in [Sessions -> Places]
    /\ timedOut \subseteq Sessions
    /\ repair \in [Sessions -> 0..MaxRepairs]
    /\ total \in [Sessions -> 0..(MaxTokens + MaxUsage)]
    /\ verdict \in [Sessions -> Verdicts]
    /\ queue \in Seq([type : Kinds, by : 0..MaxSessions])
    /\ state \in StepStates
    /\ asked \in [ms : 0..Budget, tokens : 0..MaxTokens]
    /\ answers \in 0..MaxAnswers
    /\ base \in 0..MaxSessions
    /\ ran \in Nat /\ burned \in Nat
    /\ BridgeTypeOK

-----------------------------------------------------------------------------
(* Events.                                                                  *)

\* The loop's own events are emitted by attempt 0.
Event(type, a) == [type |-> type, by |-> a]

\* deriveStepStates, for this step.
Derived(type) ==
    CASE type \in {"step-started", "step-retry", "agent-steer", "answers-provided"} -> "in_progress"
      [] type = "step-completed" -> "completed"
      [] type = "questionnaire-asked" -> "blocked"
      [] type \in {"step-failed", "run-crashed"} -> "crashed"
      [] type = "run-cancelled" -> "cancelled"
      [] OTHER -> state

\* The host accepts an attempt's events while the engine call it belongs to goes on.
accepts(a) == a > base /\ ~aborted /\ pc \notin {"blocked", "over"}

\* Every attempt that emitted waits for its append.  One whose event was refused, or that
\* had no usage to bill, goes on before any callback of the host.
Quiet ==
    \A a \in Sessions :
        att[a] \in {"usage", "steer", "error"} => \E i \in DOMAIN queue : queue[i].by = a

\* The append at the head of the queue is written.
Written(type, a) == queue # <<>> /\ Head(queue) = Event(type, a) /\ state' = Derived(type)

\* emit(): the event joins the queue, unless it is refused.
Emitted(q, type, a) == IF accepts(a) THEN Append(q, Event(type, a)) ELSE q

\* An attempt's emit is over: its event is written, or was refused.
EmitOver(type, a) ==
    \/ Written(type, a)
    \/ (\A i \in DOMAIN queue : queue[i].by # a) /\ UNCHANGED state

\* What is left of the queue then.
Rest(a) == IF queue # <<>> /\ Head(queue).by = a THEN Tail(queue) ELSE queue

\* The attempt's own abort signal: the run's, or its time budget's.
SignalAborted(a) == aborted \/ a \in timedOut

-----------------------------------------------------------------------------
(* The retry loop: what it does with a result.  q is the queue it finds.    *)

\* finishStep, and the end of the run for a step that fails and is not optional.  In a
\* cancelled run the event is refused and the walker stops at the next node.
Finish(q, type, result) ==
    /\ outcome' = result
    /\ IF aborted
       THEN queue' = q /\ pc' = "over"
       ELSE queue' = Append(q, Event(type, Nobody)) /\ pc' = "finishing"

Fail(q) == Finish(q, IF step.optional THEN "step-failed" ELSE "run-crashed", "crashed")

\* Bug in Retry: the retry is not recorded.
RetrySilently(q, k) ==
    \/ k <= MaxRetry /\ queue' = q /\ pc' = "backoff" /\ UNCHANGED outcome
    \/ k > MaxRetry /\ Fail(q)

\* retryScheduled, which emits step-retry and waits for it.
Retry(q, k) ==
    \/ /\ k <= MaxRetry
       /\ IF aborted
          THEN queue' = q /\ pc' = "backoff"
          ELSE queue' = Append(q, Event("step-retry", Nobody)) /\ pc' = "retrying"
       /\ UNCHANGED outcome
    \/ k > MaxRetry /\ Fail(q)

\* Wall time spent before the attempt of this round of the loop.
consumed(k) == IF k = 1 THEN carryMs ELSE 0

\* Bug in elapsedMs: the total forgets what earlier calls consumed.
elapsedThisCall == Budget - consumed(n) - timer

\* withTimeBudget folds the time this call spent into what was consumed before.
elapsedMs == consumed(n) + (Budget - consumed(n) - timer)

Block(a, q) ==
    /\ Finish(q, "questionnaire-asked", "blocked")
    /\ asked' = [ms |-> IF step.budgeted THEN elapsedMs ELSE 0, tokens |-> total[a]]

\* The race is still on for this attempt.
Raced(a) == a = cur /\ pc = "running" /\ a \notin timedOut

\* An attempt returns r, and what it held is gone.  Nobody waits for an abandoned one.
Returns(a, r, q) ==
    /\ att' = [att EXCEPT ![a] = "returned"]
    /\ timedOut' = timedOut \ {a}
    /\ repair' = [repair EXCEPT ![a] = 0]
    /\ total' = [total EXCEPT ![a] = 0]
    /\ verdict' = [verdict EXCEPT ![a] = "none"]
    /\ UNCHANGED <<n, cur, carry, carryMs, timer>>
    /\ \/ /\ ~Raced(a)
          /\ queue' = q
          /\ UNCHANGED <<pc, outcome, asked>>
       \/ /\ Raced(a) /\ r = "ok"
          /\ Finish(q, "step-completed", "ok")
          /\ UNCHANGED asked
       \/ /\ Raced(a) /\ r = "cancelled"
          /\ Finish(q, "run-cancelled", "cancelled")
          /\ UNCHANGED asked
       \/ /\ Raced(a) /\ r = "fatal"
          /\ Fail(q)
          /\ UNCHANGED asked
       \/ /\ Raced(a) /\ r = "retryable"
          /\ Retry(q, n)
          /\ UNCHANGED asked
       \/ /\ Raced(a) /\ r = "blocked"
          /\ Block(a, q)

\* A failure that is a cooperative stop if the attempt was aborted.
Thrown(a) == IF SignalAborted(a) THEN "cancelled" ELSE "retryable"

-----------------------------------------------------------------------------
(* Sending: runAgentSession's sendAndAwaitEnd, and a function step's run.   *)

Refused ==
    \/ step.kind = "session" /\ Occupied
    \/ step.kind = "background" /\ Claimed(step.resumable)

\* The session waits for its reply, or selects its model first.
Sends(a) ==
    \/ /\ step.kind = "function"
       /\ att' = [att EXCEPT ![a] = "turn"]
       /\ UNCHANGED bridge
    \/ /\ step.kind = "session" /\ ~Occupied
       /\ IF step.model
          THEN att' = [att EXCEPT ![a] = "selecting"] /\ UNCHANGED bridge
          ELSE att' = [att EXCEPT ![a] = "turn"] /\ SendTurn(a, step.contract)
    \/ /\ step.kind = "background" /\ ~Claimed(step.resumable)
       /\ att' = [att EXCEPT ![a] = "turn"]
       /\ Spawn(a, step.resumable)

\* It throws before there is a child to wait for.
SendThrows(a) ==
    /\ step.kind = "background" /\ ~Claimed(step.resumable)
    /\ ThrowBeforeSpawn(a, step.resumable)

-----------------------------------------------------------------------------
(* The loop's steps.                                                        *)

Init ==
    /\ step \in Steps
    /\ aborted = FALSE
    /\ pc = "starting" /\ n = 0 /\ cur = 0 /\ outcome = "none"
    /\ carry = 0 /\ carryMs = 0 /\ timer = 0
    /\ att = [a \in Sessions |-> "none"]
    /\ timedOut = {}
    /\ repair = [a \in Sessions |-> 0]
    /\ total = [a \in Sessions |-> 0]
    /\ verdict = [a \in Sessions |-> "none"]
    /\ queue = <<Event("step-started", Nobody)>>
    /\ state = "todo"
    /\ asked = [ms |-> 0, tokens |-> 0]
    /\ answers = 0 /\ base = 0
    /\ ran = 0 /\ burned = 0
    /\ BridgeInit

\* An attempt continues the one that blocked, rather than starting afresh.
Continues(k) == k = 1 /\ answers > 0

\* A budget the earlier calls used up fails the attempt before it starts.
Exhausted(k) == step.budgeted /\ consumed(k) >= Budget

\* The attempt takes the carried tokens, once.
Launch(a, k, q) ==
    /\ cur' = a
    /\ carry' = 0
    /\ total' = [total EXCEPT ![a] = carry]
    /\ timer' = Budget - consumed(k)
    /\ ran' = IF Continues(k) THEN ran ELSE 0
    /\ burned' = IF Continues(k) THEN burned ELSE 0
    /\ \/ \* It waits for its reply.
          /\ queue' = q
          /\ pc' = "running"
          /\ Sends(a)
          /\ UNCHANGED outcome
       \/ \* The session does not start, the bridge refuses its turn, or throws.
          /\ att' = [att EXCEPT ![a] = "returned"]
          /\ Retry(q, k)
          /\ \/ (step.kind # "function" \/ Refused) /\ UNCHANGED bridge
             \/ SendThrows(a)
       \/ \* The author's key or prompt callback threw.
          /\ step.kind # "function"
          /\ att' = [att EXCEPT ![a] = "returned"]
          /\ Fail(q)
          /\ UNCHANGED bridge

\* The top of the loop, for its k-th attempt.
Begin(k, q) ==
    /\ n' = k
    /\ UNCHANGED <<step, aborted, carryMs, timedOut, repair, verdict, asked, answers, base>>
    /\ \/ /\ aborted
          /\ Finish(q, "run-cancelled", "cancelled")
          /\ UNCHANGED <<cur, carry, timer, att, total, ghosts, bridge>>
       \/ /\ ~aborted /\ Exhausted(k)
          /\ Retry(q, k)
          /\ UNCHANGED <<cur, carry, timer, att, total, ghosts, bridge>>
       \/ ~aborted /\ ~Exhausted(k) /\ Launch(cur + 1, k, q)

\* The step is started, or its answers are recorded: the loop begins, unless the author's
\* budget callback throws.
CallBegins ==
    /\ \/ pc = "starting" /\ Written("step-started", Nobody)
       \/ pc = "answering" /\ Written("answers-provided", Nobody)
    /\ \/ Begin(1, Tail(queue))
       \/ /\ step.budgeted
          /\ Fail(Tail(queue))
          /\ UNCHANGED <<step, aborted, n, cur, carry, carryMs, timer, attempts, asked, answers,
                         base, ghosts, bridge>>

RetryWritten ==
    /\ pc = "retrying" /\ Written("step-retry", Nobody)
    /\ \/ Begin(n + 1, Tail(queue))
       \/ /\ pc' = "backoff"
          /\ queue' = Tail(queue)
          /\ UNCHANGED <<step, aborted, n, cur, carry, carryMs, timer, outcome, attempts, asked,
                         answers, base, ghosts, bridge>>

\* The delay before a retry is not cut short by a cancellation.
BackoffOver == pc = "backoff" /\ Begin(n + 1, queue) /\ UNCHANGED state

\* Time passes for the attempt in the race.
Tick ==
    /\ pc = "running" /\ step.budgeted /\ timer > 0
    /\ timer' = timer - 1
    /\ ran' = ran + 1
    /\ UNCHANGED <<step, aborted, pc, n, cur, carry, carryMs, outcome, attempts, log, answers,
                   base, burned, bridge>>

\* Bug in Timeout: the attempt is awaited after it was asked to stop.
TimeoutAwaitsAttempt ==
    /\ pc = "running" /\ step.budgeted /\ timer = 0 /\ cur \notin timedOut
    /\ timedOut' = timedOut \union {cur}
    /\ UNCHANGED <<step, aborted, loop, att, repair, total, verdict, log, answers, base, ghosts,
                   bridge>>

\* The timer wins the race: the attempt is asked to stop and no longer awaited.
Timeout ==
    /\ pc = "running" /\ step.budgeted /\ timer = 0
    /\ timedOut' = timedOut \union {cur}
    /\ Retry(queue, n)
    /\ UNCHANGED <<step, aborted, n, cur, carry, carryMs, timer, att, repair, total, verdict,
                   state, asked, answers, base, ghosts, bridge>>

-----------------------------------------------------------------------------
(* The attempts' steps.                                                     *)

\* A function step's run() returns a value, or throws or returns an invalid one.
FunctionEnds(a) ==
    /\ step.kind = "function" /\ att[a] = "turn"
    /\ \E r \in {"ok", Thrown(a)} : Returns(a, r, queue)
    /\ UNCHANGED <<step, aborted, state, answers, base, ghosts, bridge>>

\* pi.setModel is over.  The guard of sendAndAwaitEnd is not looked at again.
ModelSelected(a) ==
    /\ att[a] = "selecting"
    /\ \/ /\ ~SignalAborted(a)
          /\ att' = [att EXCEPT ![a] = "turn"]
          /\ SendTurn(a, step.contract)
          /\ UNCHANGED <<loop, timedOut, repair, total, verdict, queue, asked>>
       \/ /\ SignalAborted(a)
          /\ Returns(a, "cancelled", queue)
          /\ SendRefusedByAbort(a, step.contract)
       \/ \* No such model, or no key for it.
          /\ Returns(a, Thrown(a), queue)
          /\ Dispose(a)
          /\ UNCHANGED <<inFlight, claim, children, leaked>>
    /\ UNCHANGED <<step, aborted, state, answers, base, ghosts>>

\* checkAgentTurn: without a contract every reply is a result; a submission takes the
\* tools.  A subprocess has its own.
VerdictsOf(a) ==
    IF ~step.contract THEN {"ok"}
    ELSE {"violation"} \union
         (IF step.kind = "background" \/ tools = a
          THEN {"ok"} \union (IF step.asks THEN {"questions"} ELSE {})
          ELSE {})

\* A turn ends with a reply, whose usage is billed, or with a provider's error, which
\* is fatal when the session is too long and only grows.
Reply(a) ==
    /\ UNCHANGED <<loop, timedOut, repair, asked>>
    /\ \/ \E usage \in 0..MaxUsage, v \in VerdictsOf(a) :
            /\ total' = [total EXCEPT ![a] = @ + usage]
            /\ burned' = IF a = cur THEN burned + usage ELSE burned
            /\ verdict' = [verdict EXCEPT ![a] = v]
            /\ att' = [att EXCEPT ![a] = "usage"]
            /\ \/ queue' = Emitted(queue, "agent-usage", a)
               \/ usage = 0 /\ UNCHANGED queue      \* none was reported
       \/ \E v \in {"retryable"} \union (IF step.resumable THEN {"fatal"} ELSE {}) :
            /\ verdict' = [verdict EXCEPT ![a] = v]
            /\ att' = [att EXCEPT ![a] = "error"]
            /\ queue' = Emitted(queue, "agent-error", a)
            /\ UNCHANGED <<total, burned>>

\* agent_settled or the idle watch: the turn in flight is over.
TurnEnds(a) ==
    /\ step.kind = "session" /\ att[a] = "turn" /\ inFlight = a
    /\ \/ /\ ~SignalAborted(a)
          /\ Reply(a)
          /\ TurnOver
          /\ UNCHANGED <<tools, narrowed>>
       \/ \* Aborted by its signal, interrupted by the user (escape), or failed.
          /\ \E r \in {"cancelled", Thrown(a)} : Returns(a, r, queue)
          /\ TurnOver
          /\ Dispose(a)
          /\ UNCHANGED burned
    /\ UNCHANGED <<step, aborted, state, answers, base, ran>>

\* The subprocess is gone: killed, failed, or with a reply.
ChildExits(a) ==
    /\ step.kind = "background" /\ att[a] = "turn"
    /\ ChildGone(a, step.resumable)
    /\ \/ ~SignalAborted(a) /\ Reply(a)
       \/ /\ Returns(a, Thrown(a), queue)
          /\ UNCHANGED burned
    /\ UNCHANGED <<step, aborted, state, answers, base, ran>>

\* The session is over, with result r.
SessionReturns(a, r, q) ==
    /\ Returns(a, r, q)
    /\ Dispose(a)
    /\ UNCHANGED <<inFlight, claim, children, leaked>>

\* The reply is billed: the token budget comes first, then the output.
UsageBilled(a) ==
    /\ att[a] = "usage"
    /\ EmitOver("agent-usage", a)
    /\ \/ total[a] > MaxTokens /\ SessionReturns(a, "retryable", Rest(a))
       \/ /\ total[a] <= MaxTokens
          /\ \/ verdict[a] = "ok" /\ SessionReturns(a, "ok", Rest(a))
             \/ verdict[a] = "questions" /\ SessionReturns(a, "blocked", Rest(a))
             \/ /\ verdict[a] = "violation" /\ repair[a] = MaxRepairs
                /\ SessionReturns(a, "retryable", Rest(a))
             \/ /\ verdict[a] = "violation" /\ repair[a] < MaxRepairs
                /\ queue' = Emitted(Rest(a), "agent-steer", a)
                /\ att' = [att EXCEPT ![a] = "steer"]
                /\ repair' = [repair EXCEPT ![a] = @ + 1]
                /\ UNCHANGED <<loop, timedOut, total, verdict, asked, bridge>>
    /\ UNCHANGED <<step, aborted, answers, base, ghosts>>

\* The correction is sent in the same session, unless the attempt was aborted.
Steered(a) ==
    /\ att[a] = "steer"
    /\ EmitOver("agent-steer", a)
    /\ \/ SignalAborted(a) /\ SessionReturns(a, "cancelled", Rest(a))
       \/ ~SignalAborted(a) /\ Refused /\ SessionReturns(a, "retryable", Rest(a))
       \/ /\ ~SignalAborted(a) /\ SendThrows(a)
          /\ Returns(a, "retryable", Rest(a))
       \/ /\ ~SignalAborted(a) /\ Sends(a)
          /\ queue' = Rest(a)
          /\ UNCHANGED <<loop, timedOut, repair, total, verdict, asked>>
    /\ UNCHANGED <<step, aborted, answers, base, ghosts>>

ErrorRecorded(a) ==
    /\ att[a] = "error"
    /\ EmitOver("agent-error", a)
    /\ SessionReturns(a, verdict[a], Rest(a))
    /\ UNCHANGED <<step, aborted, answers, base, ghosts>>

-----------------------------------------------------------------------------
(* After the loop, and the user.                                            *)

\* The step's last event is written.  The run goes on after a step that completed or
\* was optional; the call returns when the step blocked.
OutcomeWritten ==
    /\ pc = "finishing"
    /\ \E type \in {"step-completed", "step-failed", "questionnaire-asked", "run-crashed",
                   "run-cancelled"} : Written(type, Nobody)
    /\ pc' = CASE outcome = "blocked" -> "blocked"
               [] outcome = "ok" \/ (outcome = "crashed" /\ step.optional) -> "walking"
               [] OTHER -> "over"
    /\ queue' = Tail(queue)
    /\ UNCHANGED <<step, aborted, n, cur, carry, carryMs, timer, outcome, attempts, asked,
                   answers, base, ghosts, bridge>>

\* The rest of the run ends.
RunCompletes ==
    /\ pc = "walking"
    /\ IF aborted
       THEN pc' = "over" /\ UNCHANGED queue
       ELSE pc' = "ending" /\ queue' = Append(queue, Event("run-completed", Nobody))
    /\ UNCHANGED <<step, aborted, n, cur, carry, carryMs, timer, outcome, attempts, state, asked,
                   answers, base, ghosts, bridge>>

RunCompleted ==
    /\ pc = "ending" /\ Written("run-completed", Nobody)
    /\ pc' = "over"
    /\ queue' = Tail(queue)
    /\ UNCHANGED <<step, aborted, n, cur, carry, carryMs, timer, outcome, attempts, asked,
                   answers, base, ghosts, bridge>>

\* resumeWithAnswer: a new engine call, for a step the log says is blocked.  It carries
\* what the question recorded.
Answer ==
    /\ pc = "blocked" /\ state = "blocked" /\ answers < MaxAnswers
    /\ answers' = answers + 1
    /\ base' = cur
    /\ carry' = asked.tokens
    /\ carryMs' = asked.ms
    /\ queue' = Append(queue, Event("answers-provided", Nobody))
    /\ pc' = "answering"
    /\ UNCHANGED <<step, aborted, n, cur, timer, outcome, attempts, state, asked, ghosts, bridge>>

\* handleCancel: the cancellation is recorded once what was accepted before is, and
\* closes the step if it is open; then the signal fires.
Cancel ==
    /\ ~aborted /\ queue = <<>> /\ pc \notin {"blocked", "over"}
    /\ aborted' = TRUE
    /\ state' = IF state \in {"in_progress", "blocked"} THEN "cancelled" ELSE state
    /\ UNCHANGED <<step, loop, attempts, queue, asked, answers, base, ghosts, bridge>>

LoopStep ==
    \/ CallBegins \/ RetryWritten \/ BackoffOver \/ Timeout \/ Tick
    \/ OutcomeWritten \/ RunCompletes \/ RunCompleted

EmitStep ==
    \E a \in Sessions :
        /\ Quiet \/ \A i \in DOMAIN queue : queue[i].by # a
        /\ UsageBilled(a) \/ Steered(a) \/ ErrorRecorded(a)

TurnStep == \E a \in Sessions : FunctionEnds(a) \/ ModelSelected(a) \/ TurnEnds(a) \/ ChildExits(a)

Next == EmitStep \/ (Quiet /\ (LoopStep \/ TurnStep \/ Answer \/ Cancel))

Spec == Init /\ [][Next]_vars

\* Appends finish, timers fire, promises go on.  An agent's turn that was aborted ends:
\* the harness settles, the child is killed (killOnAbort).  Nothing else about a turn, a
\* function or a user is assumed.
FairSpec ==
    /\ Spec
    /\ WF_vars(Quiet /\ LoopStep)
    /\ WF_vars(EmitStep)
    /\ WF_vars(\E a \in Sessions : Quiet /\ SignalAborted(a)
            /\ (ModelSelected(a) \/ TurnEnds(a) \/ ChildExits(a)))

-----------------------------------------------------------------------------
(* Properties.                                                              *)

\* One conversation at a time: a session that waits for a turn is the one the harness
\* runs it for (or it would get another's reply, or none), and a resumable subagent that
\* runs is the one writer of the session file, which is free again once it is gone, over
\* timeouts and retries (sendAndAwaitEnd's guard, claimResumeFile).  The code leaves the
\* file claimed by a session that threw between its claim and its spawn: that one is
\* excepted, and nothing else may leak a claim.
OneConversation ==
    \A a \in Sessions :
        /\ step.kind = "session" => (att[a] = "turn" <=> inFlight = a)
        /\ step.kind = "background" /\ step.resumable =>
            /\ a \in children => claim = a
            /\ claim = a => a \in children \/ a \in leaked

\* An attempt's budgets span its blocks: whatever the user's answers, the attempt never
\* runs longer than its time budget in all, nor sends once it is over its token budget
\* (withTimeBudget's consumedMs, runAgentStep's carry).
BudgetsSpanBlocks ==
    /\ step.budgeted => ran <= Budget
    /\ pc = "running" /\ att[cur] \in {"turn", "selecting", "steer"} => burned <= MaxTokens

\* A completed step stays completed and a question stays open until it is answered,
\* whatever abandoned attempts still emit: the log would otherwise lose a checkpoint or a
\* question (retryScheduled waits for its event, appends are in order).
CompletedOrBlockedStands ==
    [][/\ state = "completed" => state' = "completed"
       /\ state = "blocked" => state' = "blocked" \/ Head(queue).type = "answers-provided"]_vars

\* A budgeted step ends, whether or not its attempts do, and so does a cancelled agent
\* step without a budget (withTimeBudget's race, the bridge's abort handlers).
StepEnds ==
    (step.budgeted \/ (aborted /\ step.kind # "function")) ~> pc \in {"blocked", "over"}

=============================================================================
