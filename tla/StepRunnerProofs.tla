--------------------------- MODULE StepRunnerProofs ---------------------------
(***************************************************************************)
(* Proofs about StepRunner, for steps of every kind, any budgets, any      *)
(* number of retries, corrections and answers.                             *)
(*                                                                         *)
(* None of the properties is inductive.  That a session has the harness to *)
(* itself rests on the attempts before it being abandoned (Abandoned);     *)
(* that budgets span blocks, on what the question recorded (Tokens, Time); *)
(* and that a completed or blocked step stands, on the order of the append *)
(* queue: an abandoned attempt can still correct its session only while    *)
(* its reply is ahead of the retry in the queue (Overtaken).               *)
(***************************************************************************)
EXTENDS StepRunner, TLAPS

Alive(a) == att[a] \notin {"none", "returned"}

\* Attempts are numbered as they start: MaxRetry + 1 of them in an engine call, of which
\* there is one per answer and the first.
Rounds ==
    /\ pc \in {"starting", "answering"} => cur <= answers * (MaxRetry + 1)
    /\ pc \notin {"starting", "answering"} => cur <= answers * (MaxRetry + 1) + n
    /\ pc \in {"retrying", "backoff"} => n \in 1..MaxRetry
    /\ pc = "running" => n >= 1
    /\ pc = "starting" => answers = 0
    /\ base <= cur

\* The loop awaits one attempt at most; it asked every other one that lives to stop.
Abandoned ==
    /\ \A a \in Sessions : a > cur => att[a] = "none"
    /\ pc = "running" => cur \in Sessions /\ Alive(cur) /\ cur \notin timedOut
    /\ \A a \in Sessions :
          a \in timedOut <=> Alive(a) /\ ~(a = cur /\ pc = "running")

\* The harness is free while the awaited attempt selects its model; an attempt waits for a
\* subprocess exactly while it runs.
Conversations ==
    /\ OneConversation
    /\ \A a \in Sessions : att[a] = "selecting" => step.kind = "session"
    /\ pc = "running" /\ att[cur] = "selecting" => inFlight = Nobody
    /\ step.kind = "background" => \A a \in Sessions : att[a] = "turn" <=> a \in children

\* The question that blocked the step was recorded, or is being.
Blocking == pc = "blocked" \/ (pc = "finishing" /\ outcome = "blocked")

\* An attempt counts at least what it burned, over a block.
Tokens ==
    /\ \A a \in Sessions : att[a] # "usage" => total[a] <= MaxTokens
    /\ \A a \in Sessions : a = cur /\ Alive(a) => burned <= total[a]
    /\ Blocking => burned <= asked.tokens
    /\ pc = "answering" => burned <= carry
    /\ Blocking \/ pc = "answering" => \A a \in Sessions : a = cur => ~Alive(a)

\* The timer is what the budget has left.
Time ==
    step.budgeted =>
        /\ ran <= Budget
        /\ pc = "running" => ran + timer <= Budget
        /\ Blocking => ran <= asked.ms
        /\ pc = "answering" => ran <= carryMs

\* The event the loop waits for.
Pending(p, o) ==
    CASE p = "starting"  -> {"step-started"}
      [] p = "retrying"  -> {"step-retry"}
      [] p = "answering" -> {"answers-provided"}
      [] p = "ending"    -> {"run-completed"}
      [] p = "finishing" /\ o = "ok"        -> {"step-completed"}
      [] p = "finishing" /\ o = "blocked"   -> {"questionnaire-asked"}
      [] p = "finishing" /\ o = "crashed"   -> {"step-failed", "run-crashed"}
      [] p = "finishing" /\ o = "cancelled" -> {"run-cancelled"}
      [] OTHER -> {}

\* It is in the queue, the only one that is not an attempt's.
Awaited ==
    /\ \A i \in DOMAIN queue :
          /\ queue[i].by = Nobody => queue[i].type \in Pending(pc, outcome)
          /\ queue[i].by # Nobody => queue[i].type \in {"agent-usage", "agent-error", "agent-steer"}
    /\ \A i, j \in DOMAIN queue : queue[i].by = Nobody /\ queue[j].by = Nobody => i = j
    /\ Pending(pc, outcome) # {} => \E i \in DOMAIN queue : queue[i].by = Nobody

\* An abandoned attempt has its last reply billed before its retry is recorded.
Overtaken ==
    \A a \in Sessions : att[a] = "usage" /\ a \in timedOut =>
        /\ a = cur /\ (pc = "retrying" \/ (pc = "finishing" /\ outcome = "crashed"))
        /\ \E i, j \in DOMAIN queue : i < j /\ queue[i].by = a /\ queue[j].by = Nobody

\* A cancellation finds no event under way, and none comes after it.
Cancelled ==
    aborted =>
        /\ queue = <<>> /\ pc # "blocked"
        /\ \A a \in Sessions : att[a] \notin {"usage", "error", "steer"}

\* No correction is written after the step's last event.
SteersFirst ==
    pc = "finishing" /\ outcome \in {"ok", "blocked"} =>
        \A i, j \in DOMAIN queue :
            i < j /\ queue[i].by = Nobody => queue[j].type # "agent-steer"

Stands ==
    /\ state = "completed" => pc \in {"walking", "ending", "over"}
    /\ state = "blocked" => pc \in {"blocked", "answering"}
    /\ state \in {"completed", "blocked"} =>
          \A i \in DOMAIN queue : queue[i].type # "agent-steer"

IInv ==
    /\ TypeOK
    /\ Rounds
    /\ Abandoned
    /\ Conversations
    /\ Tokens
    /\ Time
    /\ Awaited
    /\ Overtaken
    /\ Cancelled
    /\ SteersFirst
    /\ Stands

Events == [type : Kinds, by : 0..MaxSessions]

\* The places of an attempt that waits for the append of an event it emitted.
AttemptsTypes == {"agent-usage", "agent-error", "agent-steer"}

-----------------------------------------------------------------------------
(* The queue.                                                               *)

LEMMA Appended ==
    ASSUME NEW q \in Seq(Events), NEW e \in Events
    PROVE  /\ Append(q, e) \in Seq(Events)
           /\ DOMAIN q = 1..Len(q) /\ Len(q) \in Nat
           /\ DOMAIN Append(q, e) = 1..(Len(q) + 1)
           /\ \A i \in DOMAIN q : Append(q, e)[i] = q[i]
           /\ Append(q, e)[Len(q) + 1] = e
  OBVIOUS

LEMMA Removed ==
    ASSUME NEW q \in Seq(Events), q # <<>>
    PROVE  /\ Tail(q) \in Seq(Events)
           /\ DOMAIN q = 1..Len(q) /\ Len(q) \in Nat \ {0}
           /\ DOMAIN Tail(q) = 1..(Len(q) - 1)
           /\ \A i \in DOMAIN Tail(q) : Tail(q)[i] = q[i + 1]
           /\ Head(q) = q[1]
  OBVIOUS

\* What a step leaves of the queue before it adds to it.
LeftOf(q) == q = queue \/ (queue # <<>> /\ q = Tail(queue))

LEMMA LeftFacts ==
    ASSUME TypeOK, NEW q, LeftOf(q)
    PROVE  /\ queue \in Seq(Events) /\ q \in Seq(Events)
           /\ DOMAIN q = 1..Len(q) /\ Len(q) \in Nat
           /\ DOMAIN queue = 1..Len(queue) /\ Len(queue) \in Nat
           /\ \E d \in {0, 1} : \A i \in DOMAIN q : i + d \in DOMAIN queue /\ q[i] = queue[i + d]
  <1>1. queue \in Seq(Events)
    BY DEF TypeOK, Events
  <1>2. CASE q = queue
    <2>1. \A i \in DOMAIN q : i + 0 \in DOMAIN queue /\ q[i] = queue[i + 0]
      BY <1>1, <1>2
    <2> QED
      BY <1>1, <1>2, <2>1
  <1>3. CASE queue # <<>> /\ q = Tail(queue)
    <2>1. \A i \in DOMAIN q : i + 1 \in DOMAIN queue /\ q[i] = queue[i + 1]
      BY <1>1, <1>3, Removed
    <2> QED
      BY <1>1, <1>3, <2>1, Removed
  <1> QED
    BY <1>2, <1>3 DEF LeftOf

\* The loop's event is the head of the queue, and it is written: what is left is the attempts'.
LEMMA LoopWritten ==
    ASSUME IInv, queue # <<>>, Head(queue).by = Nobody
    PROVE  /\ LeftOf(Tail(queue))
           /\ \A i \in DOMAIN Tail(queue) : Tail(queue)[i].by # Nobody
           /\ pc # "running" => \A a \in Sessions : att[a] # "usage"
           /\ Head(queue).type \in Pending(pc, outcome)
           /\ ~aborted
  <1>1. queue \in Seq(Events)
    BY DEF IInv, TypeOK, Events
  <1>2. /\ DOMAIN queue = 1..Len(queue) /\ Len(queue) \in Nat \ {0}
        /\ DOMAIN Tail(queue) = 1..(Len(queue) - 1)
        /\ \A i \in DOMAIN Tail(queue) : Tail(queue)[i] = queue[i + 1]
        /\ Head(queue) = queue[1]
    BY <1>1, Removed
  <1>3. 1 \in DOMAIN queue /\ queue[1].by = Nobody
    BY <1>2
  <1>4. \A i \in DOMAIN Tail(queue) : Tail(queue)[i].by # Nobody
    <2> SUFFICES ASSUME NEW i \in DOMAIN Tail(queue), Tail(queue)[i].by = Nobody PROVE FALSE
      OBVIOUS
    <2>1. i + 1 \in DOMAIN queue /\ queue[i + 1].by = Nobody /\ i + 1 # 1
      BY <1>2
    <2> QED
      BY <1>3, <2>1 DEF IInv, Awaited
  <1>5. ASSUME NEW a \in Sessions, att[a] = "usage", pc # "running" PROVE FALSE
    <2>1. a \in timedOut
      BY <1>5 DEF IInv, Abandoned, Alive
    <2>2. PICK i, j \in DOMAIN queue : i < j /\ queue[i].by = a /\ queue[j].by = Nobody
      BY <1>5, <2>1 DEF IInv, Overtaken
    <2>3. j = 1
      BY <1>3, <2>2 DEF IInv, Awaited
    <2> QED
      BY <1>2, <2>2, <2>3
  <1>6. Head(queue).type \in Pending(pc, outcome)
    BY <1>2, <1>3 DEF IInv, Awaited
  <1> QED
    BY <1>4, <1>5, <1>6 DEF LeftOf, IInv, Cancelled

\* When the loop awaits no event of its own, every event in the queue is an attempt's.
LEMMA NoneAwaited ==
    ASSUME IInv, Pending(pc, outcome) = {}
    PROVE  \A i \in DOMAIN queue : queue[i].by # Nobody
  BY DEF IInv, Awaited

\* An attempt whose reply is being billed is the awaited one, or it was just overtaken.
LEMMA UsageIs ==
    ASSUME IInv, NEW a \in Sessions, att[a] = "usage"
    PROVE  /\ a = cur /\ ~aborted
           /\ pc \in {"running", "retrying"} \/ (pc = "finishing" /\ outcome = "crashed")
           /\ pc = "running" <=> a \notin timedOut
  BY DEF IInv, Abandoned, Overtaken, Cancelled, Alive

-----------------------------------------------------------------------------
(* The loop's events.                                                       *)

\* The loop stops for now: it waits for its event, or for a delay, or is over.
LoopStops(q, k) ==
    /\ outcome' \in {"none", "ok", "blocked", "crashed", "cancelled"}
    /\ \/ /\ aborted /\ queue' = q
          /\ pc' = "over" \/ (pc' = "backoff" /\ k <= MaxRetry)
       \/ /\ ~aborted
          /\ \/ pc' = "retrying" /\ k <= MaxRetry
             \/ pc' = "finishing"
          /\ \E type \in Pending(pc', outcome') : queue' = Append(q, Event(type, Nobody))

LEMMA RetryStops ==
    ASSUME IInv, NEW q, NEW k, Retry(q, k)
    PROVE  LoopStops(q, k) /\ (outcome' = outcome \/ outcome' = "crashed")
                           /\ (pc' = "finishing" => outcome' = "crashed")
  <1>1. "step-retry" \in Pending("retrying", outcome')
    BY DEF Pending
  <1>2. {"step-failed", "run-crashed"} = Pending("finishing", "crashed")
    BY DEF Pending
  <1>3. CASE ~Fail(q)
    <2>1. /\ k <= MaxRetry /\ outcome' = outcome
          /\ IF aborted THEN queue' = q /\ pc' = "backoff"
             ELSE queue' = Append(q, Event("step-retry", Nobody)) /\ pc' = "retrying"
      BY <1>3 DEF Retry
    <2> QED
      BY <1>1, <2>1 DEF LoopStops, IInv, TypeOK
  <1>4. CASE Fail(q)
    BY <1>2, <1>4 DEF Fail, Finish, LoopStops
  <1> QED
    BY <1>3, <1>4 DEF Retry

LEMMA FinishStops ==
    ASSUME NEW q, NEW k, NEW type, NEW result, Finish(q, type, result),
           type \in Pending("finishing", result),
           result \in {"ok", "blocked", "crashed", "cancelled"}
    PROVE  LoopStops(q, k) /\ outcome' = result /\ pc' \in {"over", "finishing"}
  BY DEF Finish, LoopStops

LEMMA FailStops ==
    ASSUME NEW q, NEW k, Fail(q)
    PROVE  LoopStops(q, k) /\ outcome' = "crashed" /\ pc' \in {"over", "finishing"}
  BY DEF Fail, Finish, LoopStops, Pending

\* The queue, when the loop stops.
LEMMA StopsQueue ==
    ASSUME IInv, NEW q, NEW k, LeftOf(q), \A i \in DOMAIN q : q[i].by # Nobody,
           LoopStops(q, k)
    PROVE  /\ queue' \in Seq(Events)
           /\ Awaited' /\ SteersFirst'
           /\ aborted => queue' = <<>>
           /\ ~aborted => /\ DOMAIN queue' = 1..(Len(q) + 1) /\ Len(q) \in Nat
                          /\ \A i \in DOMAIN q : queue'[i] = q[i]
                          /\ queue'[Len(q) + 1].by = Nobody
                          /\ queue'[Len(q) + 1].type # "agent-steer"
  <1>1. /\ q \in Seq(Events) /\ DOMAIN q = 1..Len(q) /\ Len(q) \in Nat
        /\ \E d \in {0, 1} : \A i \in DOMAIN q : i + d \in DOMAIN queue /\ q[i] = queue[i + d]
    BY LeftFacts DEF IInv
  <1>2. \A i \in DOMAIN q : q[i].type \in AttemptsTypes
    BY <1>1 DEF IInv, Awaited, AttemptsTypes
  <1>3. CASE aborted
    <2>1. queue = <<>>
      BY <1>3 DEF IInv, Cancelled
    <2>2. q = <<>> /\ queue' = <<>> /\ Pending(pc', outcome') = {}
      BY <1>3, <2>1 DEF LeftOf, LoopStops, Pending
    <2>3. pc' # "finishing"
      BY <1>3 DEF LoopStops
    <2> QED
      BY <1>1, <1>3, <2>2, <2>3 DEF Awaited, SteersFirst
  <1>4. CASE ~aborted
    <2>1. PICK type \in Pending(pc', outcome') : queue' = Append(q, Event(type, Nobody))
      BY <1>4 DEF LoopStops
    <2>2. type \in Kinds /\ type # "agent-steer"
      BY <1>4 DEF LoopStops, Pending, Kinds
    <2>3. Event(type, Nobody) \in Events
      BY <2>2, StepAssumption DEF Event, Events, Nobody
    <2>4. /\ queue' \in Seq(Events) /\ DOMAIN queue' = 1..(Len(q) + 1)
          /\ \A i \in DOMAIN q : queue'[i] = q[i]
          /\ queue'[Len(q) + 1] = Event(type, Nobody)
      BY <1>1, <2>1, <2>3, Appended
    <2>5. queue'[Len(q) + 1].by = Nobody /\ queue'[Len(q) + 1].type = type
      BY <2>4 DEF Event
    <2>6. \A i \in DOMAIN queue' : i = Len(q) + 1 \/ i \in DOMAIN q
      BY <1>1, <2>4
    <2>7. Awaited'
      <3>1. \A i \in DOMAIN queue' :
              /\ queue'[i].by = Nobody => i = Len(q) + 1 /\ queue'[i].type \in Pending(pc', outcome')
              /\ queue'[i].by # Nobody =>
                    queue'[i].type \in {"agent-usage", "agent-error", "agent-steer"}
        BY <1>2, <2>4, <2>5, <2>6 DEF AttemptsTypes
      <3>2. Len(q) + 1 \in DOMAIN queue'
        BY <1>1, <2>4
      <3> HIDE DEF Pending
      <3> QED
        BY <2>5, <3>1, <3>2 DEF Awaited
    <2>8. SteersFirst'
      <3> SUFFICES ASSUME NEW i \in DOMAIN queue', NEW j \in DOMAIN queue', i < j,
                          queue'[i].by = Nobody
                   PROVE  queue'[j].type # "agent-steer"
        BY DEF SteersFirst
      <3>1. i = Len(q) + 1
        BY <2>4, <2>6
      <3> QED
        BY <1>1, <2>4, <3>1
    <2> QED
      BY <1>1, <1>4, <2>2, <2>4, <2>5, <2>7, <2>8
  <1> QED
    BY <1>3, <1>4

\* The bound on the attempts grows with the counter.
LEMMA Grows ==
    ASSUME NEW c \in Nat, NEW m \in Nat, NEW i \in Nat, NEW j \in Nat,
           c <= m \/ (c <= m + i /\ j >= i)
    PROVE  c <= m + j
  OBVIOUS

\* The loop stops with the attempts as they were, all of them abandoned or over.
LEMMA StopIInv ==
    ASSUME IInv, NEW q, NEW k \in Nat \ {0}, LeftOf(q), \A i \in DOMAIN q : q[i].by # Nobody,
           LoopStops(q, k), pc # "running", \A a \in Sessions : att[a] # "usage",
           state' \in StepStates \ {"completed", "blocked"},
           pc' = "finishing" => outcome' # "blocked", n' \in 0..(MaxRetry + 1), n' >= n \/ pc \in {"starting", "answering"},
           n' = k \/ pc' \in {"over", "finishing"},
           UNCHANGED <<step, aborted, cur, carry, carryMs, timer, attempts, asked, answers,
                       base, ghosts, bridge>>
    PROVE  IInv'
  <1>1. /\ queue' \in Seq(Events) /\ Awaited' /\ SteersFirst' /\ (aborted => queue' = <<>>)
    BY StopsQueue
  <1>2. /\ pc' \in {"over", "backoff", "retrying", "finishing"}
        /\ pc' \in {"backoff", "retrying"} => n' \in 1..MaxRetry
        /\ outcome' \in {"none", "ok", "blocked", "crashed", "cancelled"}
    BY StepAssumption DEF LoopStops
  <1>3. /\ step' = step /\ aborted' = aborted /\ cur' = cur /\ carry' = carry
        /\ carryMs' = carryMs /\ timer' = timer /\ att' = att /\ timedOut' = timedOut
        /\ repair' = repair /\ total' = total /\ verdict' = verdict /\ asked' = asked
        /\ answers' = answers /\ base' = base /\ ran' = ran /\ burned' = burned
        /\ inFlight' = inFlight /\ tools' = tools /\ narrowed' = narrowed
        /\ claim' = claim /\ children' = children /\ leaked' = leaked
    BY DEF attempts, ghosts, bridge
  <1>4. TypeOK'
    BY <1>1, <1>2, <1>3 DEF IInv, TypeOK, PCs, Events, BridgeTypeOK
  <1>5. Rounds'
    <2>1. n \in Nat /\ cur \in Nat /\ answers \in Nat /\ MaxRetry \in Nat
      BY StepAssumption DEF IInv, TypeOK
    <2>2. PICK m \in Nat : m = answers * (MaxRetry + 1)
      BY <2>1
    <2>3. PICK p \in Nat : p = n' /\ (p >= n \/ pc \in {"starting", "answering"})
      BY <2>1
    <2>4. cur <= m \/ (cur <= m + n /\ p >= n)
      BY <2>2, <2>3 DEF IInv, Rounds
    <2>5. cur <= m + p
      BY <2>1, <2>3, <2>4, Grows
    <2> QED
      BY <1>2, <1>3, <2>2, <2>3, <2>5 DEF IInv, Rounds
  <1>6. Abandoned' /\ Conversations'
    BY <1>2, <1>3 DEF IInv, Abandoned, Alive, Conversations, OneConversation
  <1>7. Tokens' /\ Time'
    BY <1>2, <1>3 DEF IInv, Tokens, Time, Blocking, Alive
  <1>8. Overtaken' /\ Cancelled' /\ Stands'
    BY <1>1, <1>2, <1>3 DEF IInv, Overtaken, Cancelled, Stands
  <1> QED
    BY <1>1, <1>4, <1>5, <1>6, <1>7, <1>8 DEF IInv

-----------------------------------------------------------------------------
(* The loop begins an attempt.                                              *)

\* There is a session for every attempt.
LEMMA RoomForAttempt ==
    ASSUME IInv, pc \in {"starting", "answering"} \/ n <= MaxRetry
    PROVE  cur + 1 \in Sessions /\ att[cur + 1] = "none" /\ cur + 1 \notin timedOut
  <1>1. /\ MaxRetry \in Nat /\ MaxAnswers \in Nat /\ MaxSessions \in Nat
        /\ MaxSessions >= (MaxRetry + 1) * (MaxAnswers + 1)
        /\ answers \in 0..MaxAnswers /\ cur \in 0..MaxSessions /\ n \in 0..(MaxRetry + 1)
    BY StepAssumption DEF IInv, TypeOK
  <1>2. cur + 1 <= answers * (MaxRetry + 1) + (MaxRetry + 1)
    <2>1. answers * (MaxRetry + 1) \in Nat
      BY <1>1
    <2> QED
      BY <1>1, <2>1 DEF IInv, Rounds
  <1>3. answers * (MaxRetry + 1) + (MaxRetry + 1) <= (MaxRetry + 1) * (MaxAnswers + 1)
    <2> DEFINE m == MaxRetry + 1
    <2>1. m \in Nat /\ answers + 1 \in Nat /\ MaxAnswers + 1 \in Nat /\ answers + 1 <= MaxAnswers + 1
      BY <1>1
    <2>2. answers * m + m = m * (answers + 1)
      BY <1>1, <2>1
    <2>3. m * (answers + 1) <= m * (MaxAnswers + 1)
      <3> HIDE DEF m
      <3> QED
        BY <2>1
    <2> QED
      BY <2>2, <2>3
  <1>4. cur + 1 \in Sessions
    <2>1. answers * (MaxRetry + 1) \in Nat /\ (MaxRetry + 1) * (MaxAnswers + 1) \in Nat
      BY <1>1
    <2> QED
      BY <1>1, <1>2, <1>3, <2>1 DEF Sessions
  <1>5. cur + 1 > cur
    BY <1>1
  <1> QED
    BY <1>4, <1>5 DEF IInv, Abandoned, Alive

\* What an attempt that starts finds: it is the next one, and takes the carried tokens.
LEMMA LaunchFacts ==
    ASSUME IInv, NEW k, NEW q, Launch(cur + 1, k, q), ~aborted, ~Exhausted(k),
           \/ k = 1 /\ pc \in {"starting", "answering"}
           \/ k = n + 1 /\ pc \in {"retrying", "backoff"}
    PROVE  /\ k \in 1..(MaxRetry + 1)
           /\ cur + 1 \in Sessions /\ att[cur + 1] = "none" /\ cur + 1 \notin timedOut
           /\ cur' = cur + 1 /\ cur + 1 <= answers * (MaxRetry + 1) + k
           /\ carry' = 0 /\ total' \in [Sessions -> 0..(MaxTokens + MaxUsage)]
           /\ total'[cur + 1] = carry /\ carry <= MaxTokens
           /\ \A a \in Sessions : a # cur + 1 => total'[a] = total[a]
           /\ timer' \in 0..Budget /\ ran' \in Nat /\ burned' \in Nat
           /\ burned' <= carry
           /\ step.budgeted => ran' + timer' <= Budget /\ ran' <= Budget
  <1>1. /\ n \in Nat /\ cur \in Nat /\ answers \in Nat /\ MaxRetry \in Nat /\ Budget \in Nat
        /\ carryMs \in 0..Budget /\ carry \in 0..MaxTokens /\ MaxTokens \in Nat
        /\ MaxUsage \in Nat /\ ran \in Nat /\ burned \in Nat /\ n <= MaxRetry + 1
        /\ total \in [Sessions -> 0..(MaxTokens + MaxUsage)]
    BY StepAssumption DEF IInv, TypeOK
  <1>2. answers * (MaxRetry + 1) \in Nat
    BY <1>1
  <1>3. k \in 1..(MaxRetry + 1) /\ cur + 1 <= answers * (MaxRetry + 1) + k
    BY <1>1, <1>2 DEF IInv, Rounds
  <1>4. cur + 1 \in Sessions /\ att[cur + 1] = "none" /\ cur + 1 \notin timedOut
    BY RoomForAttempt DEF IInv, Rounds
  <1>5. cur' = cur + 1 /\ carry' = 0 /\ total' = [total EXCEPT ![cur + 1] = carry]
    BY DEF Launch
  <1>6. /\ total' \in [Sessions -> 0..(MaxTokens + MaxUsage)] /\ total'[cur + 1] = carry
        /\ \A a \in Sessions : a # cur + 1 => total'[a] = total[a]
    <2>1. carry \in 0..(MaxTokens + MaxUsage)
      BY <1>1
    <2> QED
      BY <1>1, <1>4, <1>5, <2>1
  <1>7. consumed(k) \in 0..Budget /\ timer' = Budget - consumed(k)
    BY <1>1 DEF Launch, consumed
  <1>8. CASE Continues(k)
    <2>1. pc = "answering" /\ k = 1 /\ consumed(k) = carryMs
      BY <1>1, <1>8 DEF Continues, IInv, Rounds, consumed
    <2>2. ran' = ran /\ burned' = burned
      BY <1>8 DEF Launch
    <2>3. burned <= carry /\ (step.budgeted => ran <= carryMs)
      BY <2>1 DEF IInv, Tokens, Time
    <2> QED
      BY <1>1, <1>3, <1>4, <1>5, <1>6, <1>7, <2>1, <2>2, <2>3
  <1>9. CASE ~Continues(k)
    <2>1. ran' = 0 /\ burned' = 0
      BY <1>9 DEF Launch
    <2> QED
      BY <1>1, <1>3, <1>4, <1>5, <1>6, <1>7, <2>1
  <1> QED
    BY <1>8, <1>9

\* It throws before it has a child: the file stays claimed, and nothing else changes.
LEMMA ThrowFacts ==
    ASSUME TypeOK, OneConversation, NEW a \in Sessions, SendThrows(a), step' = step,
           \A b \in Sessions : att'[b] = "turn" <=> att[b] = "turn"
    PROVE  /\ BridgeTypeOK' /\ OneConversation'
           /\ children' = children /\ inFlight' = inFlight
  <1>1. BridgeTypeOK /\ 0 \notin Sessions /\ step.kind = "background"
    BY DEF TypeOK, Sessions, SendThrows
  <1>2. /\ claim' = (IF step.resumable THEN a ELSE claim)
        /\ leaked' = (IF step.resumable THEN leaked \union {a} ELSE leaked)
        /\ inFlight' = inFlight /\ tools' = tools /\ narrowed' = narrowed /\ children' = children
        /\ step.resumable => claim = Nobody
    BY DEF SendThrows, ThrowBeforeSpawn, Claimed
  <1>3. BridgeTypeOK'
    BY <1>1, <1>2 DEF BridgeTypeOK
  <1>4. OneConversation'
    BY <1>1, <1>2 DEF OneConversation, Nobody
  <1> QED
    BY <1>2, <1>3, <1>4

\* The session of the awaited attempt sends: one conversation at a time.
LEMMA SendsFacts ==
    ASSUME TypeOK, OneConversation, NEW a \in Sessions, Sends(a), att[a] # "turn",
           step' = step,
           \A b \in Sessions : att[b] = "selecting" => step.kind = "session",
           step.kind = "background" => \A b \in Sessions : att[b] = "turn" <=> b \in children
    PROVE  /\ \A b \in Sessions : b # a => att'[b] = att[b]
           /\ att' \in [Sessions -> Places] /\ att'[a] \in {"turn", "selecting"}
           /\ BridgeTypeOK'
           /\ OneConversation'
           /\ \A b \in Sessions : att'[b] = "selecting" => step'.kind = "session"
           /\ att'[a] = "selecting" => inFlight' = Nobody
           /\ step'.kind = "background" =>
                  \A b \in Sessions : att'[b] = "turn" <=> b \in children'
  <1>1. att \in [Sessions -> Places] /\ BridgeTypeOK /\ 0 \notin Sessions
    BY DEF TypeOK, Sessions
  <1>2. CASE step.kind = "function"
    BY <1>1, <1>2 DEF Sends, bridge, BridgeTypeOK, OneConversation, Places
  <1>3. CASE step.kind = "session" /\ ~Occupied
    <2>1. CASE step.model
      BY <1>1, <1>3, <2>1 DEF Sends, bridge, BridgeTypeOK, OneConversation, Places, Occupied
    <2>2. CASE ~step.model
      <3>1. /\ att' = [att EXCEPT ![a] = "turn"] /\ inFlight' = a /\ inFlight = Nobody
            /\ claim' = claim /\ children' = children /\ leaked' = leaked
            /\ Narrow(a, step.contract)
        BY <1>3, <2>2 DEF Sends, SendTurn, Occupied
      <3>2. tools' \in {a, tools} /\ narrowed' \subseteq narrowed \union {a}
        BY <3>1 DEF Narrow
      <3> QED
        BY <1>1, <1>3, <3>1, <3>2 DEF BridgeTypeOK, OneConversation, Places, Nobody
    <2> QED
      BY <2>1, <2>2
  <1>4. CASE step.kind = "background" /\ ~Claimed(step.resumable)
    <2>1. /\ att' = [att EXCEPT ![a] = "turn"] /\ children' = children \union {a}
          /\ claim' = IF step.resumable THEN a ELSE claim
          /\ inFlight' = inFlight /\ tools' = tools /\ narrowed' = narrowed /\ leaked' = leaked
          /\ step.resumable => claim = Nobody
      BY <1>4 DEF Sends, Spawn, Claimed
    <2> QED
      BY <1>1, <1>4, <2>1 DEF BridgeTypeOK, OneConversation, Places, Nobody
  <1> QED
    BY <1>2, <1>3, <1>4 DEF Sends

\* The attempt waits for its reply.
LEMMA LaunchRuns ==
    ASSUME IInv, NEW k, NEW q, Launch(cur + 1, k, q), ~aborted, ~Exhausted(k),
           \/ k = 1 /\ pc \in {"starting", "answering"}
           \/ k = n + 1 /\ pc \in {"retrying", "backoff"},
           LeftOf(q), \A i \in DOMAIN q : q[i].by # Nobody, \A a \in Sessions : att[a] # "usage",
           state' \in StepStates \ {"completed", "blocked"},
           UNCHANGED <<step, aborted, carryMs, timedOut, repair, verdict, asked, answers, base>>,
           n' = k, queue' = q, pc' = "running", Sends(cur + 1), outcome' = outcome
    PROVE  IInv'
  <1>1. /\ k \in 1..(MaxRetry + 1)
        /\ cur + 1 \in Sessions /\ att[cur + 1] = "none" /\ cur + 1 \notin timedOut
        /\ cur' = cur + 1 /\ cur + 1 <= answers * (MaxRetry + 1) + k
        /\ carry' = 0 /\ total' \in [Sessions -> 0..(MaxTokens + MaxUsage)]
        /\ total'[cur + 1] = carry /\ carry <= MaxTokens
        /\ \A a \in Sessions : a # cur + 1 => total'[a] = total[a]
        /\ timer' \in 0..Budget /\ ran' \in Nat /\ burned' \in Nat
        /\ burned' <= carry
        /\ step.budgeted => ran' + timer' <= Budget /\ ran' <= Budget
    BY LaunchFacts
  <1>2. /\ \A b \in Sessions : b # cur + 1 => att'[b] = att[b]
        /\ att' \in [Sessions -> Places] /\ att'[cur + 1] \in {"turn", "selecting"}
        /\ BridgeTypeOK' /\ OneConversation'
        /\ \A b \in Sessions : att'[b] = "selecting" => step'.kind = "session"
        /\ att'[cur + 1] = "selecting" => inFlight' = Nobody
        /\ step'.kind = "background" => \A b \in Sessions : att'[b] = "turn" <=> b \in children'
    BY <1>1, SendsFacts DEF IInv, Conversations
  <1>3. /\ q \in Seq(Events)
        /\ \E d \in {0, 1} : \A i \in DOMAIN q : i + d \in DOMAIN queue /\ q[i] = queue[i + d]
    BY LeftFacts DEF IInv
  <1>4. /\ cur \in Nat /\ base <= cur /\ base \in 0..MaxSessions /\ MaxSessions \in Nat
        /\ MaxRetry \in Nat /\ MaxTokens \in Nat
    BY StepAssumption DEF IInv, TypeOK, Rounds
  <1>5. TypeOK'
    <2>1. n' \in 0..(MaxRetry + 1) /\ cur' \in 0..MaxSessions /\ carry' \in 0..MaxTokens
      BY <1>1, <1>4 DEF Sessions
    <2>2. queue' \in Seq([type : Kinds, by : 0..MaxSessions])
      BY <1>3 DEF Events
    <2> QED
      BY <1>1, <1>2, <2>1, <2>2 DEF IInv, TypeOK, PCs
  <1>6. Rounds'
    <2>1. base' <= cur'
      BY <1>1, <1>4
    <2>2. n' >= 1 /\ cur' <= answers' * (MaxRetry + 1) + n'
      BY <1>1
    <2> QED
      BY <2>1, <2>2 DEF Rounds
  <1>7. Abandoned'
    <2>1. \A a \in Sessions : a > cur' => att'[a] = "none"
      <3>1. cur \in Nat /\ \A a \in Sessions : a > cur => att[a] = "none"
        BY DEF IInv, Abandoned, TypeOK
      <3>2. \A a \in Sessions : a > cur + 1 => a > cur /\ a # cur + 1
        BY <3>1 DEF Sessions
      <3> QED
        BY <1>1, <1>2, <1>4, <3>1, <3>2
    <2>2. \A a \in Sessions : a # cur + 1 => (Alive(a)' <=> Alive(a))
      BY <1>2 DEF Alive
    <2>3. pc # "running" /\ \A a \in Sessions : a = cur + 1 => Alive(a)'
      BY <1>2 DEF Alive
    <2>4. \A a \in Sessions : a \in timedOut' <=> Alive(a)' /\ ~(a = cur' /\ pc' = "running")
      BY <1>1, <2>2, <2>3 DEF IInv, Abandoned
    <2> QED
      BY <1>1, <1>2, <2>1, <2>4 DEF Abandoned, Alive
  <1>8. Conversations'
    BY <1>1, <1>2 DEF Conversations
  <1>9. Tokens' /\ Time'
    <2>1. \A a \in Sessions : att'[a] # "usage" => total'[a] <= MaxTokens
      BY <1>1, <1>2 DEF IInv, Tokens
    <2> QED
      BY <1>1, <2>1 DEF Tokens, Time, Blocking
  <1>10. Awaited' /\ SteersFirst'
    <2>1. \A i \in DOMAIN q : q[i].type \in AttemptsTypes
      BY <1>3 DEF IInv, Awaited, AttemptsTypes
    <2>2. Pending(pc', outcome') = {}
      BY DEF Pending
    <2> QED
      BY <2>1, <2>2 DEF Awaited, SteersFirst, AttemptsTypes
  <1>11. Overtaken' /\ Cancelled' /\ Stands'
    <2>1. \A a \in Sessions : att'[a] # "usage"
      BY <1>2
    <2> QED
      BY <2>1 DEF Overtaken, Cancelled, Stands
  <1> QED
    BY <1>5, <1>6, <1>7, <1>8, <1>9, <1>10, <1>11 DEF IInv

\* The attempt is over before it waits for anything.
LEMMA LaunchFails ==
    ASSUME IInv, NEW k, NEW q, Launch(cur + 1, k, q), ~aborted, ~Exhausted(k),
           \/ k = 1 /\ pc \in {"starting", "answering"}
           \/ k = n + 1 /\ pc \in {"retrying", "backoff"},
           LeftOf(q), \A i \in DOMAIN q : q[i].by # Nobody, \A a \in Sessions : att[a] # "usage",
           state' \in StepStates \ {"completed", "blocked"},
           UNCHANGED <<step, aborted, carryMs, timedOut, repair, verdict, asked, answers, base>>,
           n' = k, att' = [att EXCEPT ![cur + 1] = "returned"],
           UNCHANGED bridge \/ SendThrows(cur + 1),
           LoopStops(q, k), pc' = "finishing" => outcome' # "blocked"
    PROVE  IInv'
  <1>1. /\ k \in 1..(MaxRetry + 1)
        /\ cur + 1 \in Sessions /\ att[cur + 1] = "none" /\ cur + 1 \notin timedOut
        /\ cur' = cur + 1 /\ cur + 1 <= answers * (MaxRetry + 1) + k
        /\ carry' = 0 /\ total' \in [Sessions -> 0..(MaxTokens + MaxUsage)]
        /\ total'[cur + 1] = carry /\ carry <= MaxTokens
        /\ \A a \in Sessions : a # cur + 1 => total'[a] = total[a]
        /\ timer' \in 0..Budget /\ ran' \in Nat /\ burned' \in Nat
        /\ burned' <= carry
        /\ step.budgeted => ran' + timer' <= Budget /\ ran' <= Budget
    BY LaunchFacts
  <1>2. /\ \A b \in Sessions : b # cur + 1 => att'[b] = att[b]
        /\ att' \in [Sessions -> Places] /\ att'[cur + 1] = "returned"
    BY <1>1 DEF IInv, TypeOK, Places
  <1>2a. BridgeTypeOK' /\ OneConversation' /\ children' = children /\ inFlight' = inFlight
    <2>1. \A b \in Sessions : att'[b] = "turn" <=> att[b] = "turn"
      BY <1>1, <1>2
    <2>2. CASE UNCHANGED bridge
      BY <2>1, <2>2 DEF IInv, TypeOK, BridgeTypeOK, Conversations, OneConversation, bridge
    <2>3. CASE SendThrows(cur + 1)
      BY <1>1, <2>1, <2>3, ThrowFacts DEF IInv, Conversations
    <2> QED
      BY <2>2, <2>3
  <1>3. queue' \in Seq(Events) /\ Awaited' /\ SteersFirst' /\ (aborted => queue' = <<>>)
    BY StopsQueue
  <1>4. /\ cur \in Nat /\ base <= cur /\ base \in 0..MaxSessions /\ MaxSessions \in Nat
        /\ MaxRetry \in Nat /\ MaxTokens \in Nat
    BY StepAssumption DEF IInv, TypeOK, Rounds
  <1>5. /\ pc' \in {"over", "backoff", "retrying", "finishing"}
        /\ pc' \in {"backoff", "retrying"} => n' \in 1..MaxRetry
        /\ outcome' \in {"none", "ok", "blocked", "crashed", "cancelled"}
    BY <1>1, <1>4 DEF LoopStops
  <1>6. TypeOK'
    <2>1. n' \in 0..(MaxRetry + 1) /\ cur' \in 0..MaxSessions /\ carry' \in 0..MaxTokens
      BY <1>1, <1>4 DEF Sessions
    <2>2. queue' \in Seq([type : Kinds, by : 0..MaxSessions])
      BY <1>3 DEF Events
    <2>3. BridgeTypeOK'
      BY <1>2a
    <2> QED
      BY <1>1, <1>2, <1>5, <2>1, <2>2, <2>3 DEF IInv, TypeOK, PCs
  <1>7. Rounds'
    <2>1. base' <= cur'
      BY <1>1, <1>4
    <2>2. cur' <= answers' * (MaxRetry + 1) + n'
      BY <1>1
    <2> QED
      BY <1>5, <2>1, <2>2 DEF Rounds
  <1>8. Abandoned'
    <2>1. \A a \in Sessions : a > cur' => att'[a] = "none"
      BY <1>1, <1>2, <1>4 DEF IInv, Abandoned, Sessions
    <2>2. \A a \in Sessions : Alive(a)' <=> Alive(a)
      BY <1>1, <1>2 DEF Alive
    <2> QED
      BY <1>5, <2>1, <2>2 DEF IInv, Abandoned
  <1>9. Conversations'
    <2>1. \A b \in Sessions : /\ att'[b] = "turn" <=> att[b] = "turn"
                              /\ att'[b] = "selecting" <=> att[b] = "selecting"
      BY <1>1, <1>2
    <2> QED
      BY <1>2a, <1>5, <2>1 DEF IInv, Conversations
  <1>10. Tokens' /\ Time'
    <2>1. \A a \in Sessions : att'[a] # "usage" => total'[a] <= MaxTokens
      BY <1>1, <1>2 DEF IInv, Tokens
    <2>2. \A a \in Sessions : a = cur' => ~Alive(a)'
      BY <1>1, <1>2 DEF Alive
    <2> QED
      BY <1>1, <1>5, <2>1, <2>2 DEF Tokens, Time, Blocking
  <1>11. Overtaken' /\ Cancelled' /\ Stands'
    <2>1. \A a \in Sessions : att'[a] # "usage"
      BY <1>2
    <2> QED
      BY <2>1 DEF Overtaken, Cancelled, Stands
  <1> QED
    BY <1>3, <1>6, <1>7, <1>8, <1>9, <1>10, <1>11 DEF IInv

\* The top of the loop.
LEMMA BeginIInv ==
    ASSUME IInv, NEW k, NEW q, Begin(k, q),
           \/ k = 1 /\ pc \in {"starting", "answering"}
           \/ k = n + 1 /\ pc \in {"retrying", "backoff"},
           LeftOf(q), \A i \in DOMAIN q : q[i].by # Nobody, \A a \in Sessions : att[a] # "usage",
           state' \in StepStates \ {"completed", "blocked"}
    PROVE  IInv'
  <1>1. /\ n' = k
        /\ UNCHANGED <<step, aborted, carryMs, timedOut, repair, verdict, asked, answers, base>>
    BY DEF Begin
  <1>2. MaxRetry \in Nat /\ n \in 0..(MaxRetry + 1)
    BY StepAssumption DEF IInv, TypeOK
  <1>3. k \in Nat \ {0} /\ k \in 0..(MaxRetry + 1) /\ (k >= n \/ pc \in {"starting", "answering"})
    BY <1>2 DEF IInv, Rounds
  <1>4. CASE Finish(q, "run-cancelled", "cancelled")
             /\ UNCHANGED <<cur, carry, timer, att, total, ghosts, bridge>>
    <2>1. LoopStops(q, k) /\ outcome' = "cancelled"
      BY <1>4, FinishStops DEF Pending
    <2> QED
      BY <1>1, <1>3, <1>4, <2>1, StopIInv DEF attempts
  <1>5. CASE Retry(q, k) /\ UNCHANGED <<cur, carry, timer, att, total, ghosts, bridge>>
    <2>1. LoopStops(q, k) /\ (pc' = "finishing" => outcome' # "blocked")
      BY <1>5, RetryStops
    <2> QED
      BY <1>1, <1>3, <1>5, <2>1, StopIInv DEF attempts
  <1>6. CASE ~aborted /\ ~Exhausted(k) /\ Launch(cur + 1, k, q)
    <2>1. CASE queue' = q /\ pc' = "running" /\ Sends(cur + 1) /\ outcome' = outcome
      BY <1>1, <1>6, <2>1, LaunchRuns
    <2>2. CASE /\ att' = [att EXCEPT ![cur + 1] = "returned"] /\ Retry(q, k)
               /\ UNCHANGED bridge \/ SendThrows(cur + 1)
      <3>1. LoopStops(q, k) /\ (pc' = "finishing" => outcome' # "blocked")
        BY <2>2, RetryStops
      <3> QED
        BY <1>1, <1>6, <2>2, <3>1, LaunchFails
    <2>3. CASE att' = [att EXCEPT ![cur + 1] = "returned"] /\ Fail(q) /\ UNCHANGED bridge
      <3>1. LoopStops(q, k) /\ (pc' = "finishing" => outcome' # "blocked")
        BY <2>3, FailStops
      <3> QED
        BY <1>1, <1>6, <2>3, <3>1, LaunchFails
    <2> QED
      BY <1>6, <2>1, <2>2, <2>3 DEF Launch
  <1> QED
    BY <1>4, <1>5, <1>6 DEF Begin

-----------------------------------------------------------------------------
(* The loop's own steps.                                                    *)

LEMMA CallBeginsIInv == IInv /\ CallBegins => IInv'
  <1> SUFFICES ASSUME IInv, CallBegins PROVE IInv'
    OBVIOUS
  <1>1. /\ queue # <<>> /\ Head(queue).by = Nobody /\ pc \in {"starting", "answering"}
        /\ state' = "in_progress"
    BY DEF CallBegins, Written, Event, Derived
  <1>2. /\ LeftOf(Tail(queue))
        /\ \A i \in DOMAIN Tail(queue) : Tail(queue)[i].by # Nobody
        /\ \A a \in Sessions : att[a] # "usage"
    BY <1>1, LoopWritten
  <1>3. state' \in StepStates \ {"completed", "blocked"}
    BY <1>1 DEF StepStates
  <1>4. CASE Begin(1, Tail(queue))
    BY <1>1, <1>2, <1>3, <1>4, BeginIInv
  <1>5. CASE /\ Fail(Tail(queue))
             /\ UNCHANGED <<step, aborted, n, cur, carry, carryMs, timer, attempts, asked,
                            answers, base, ghosts, bridge>>
    <2>1. LoopStops(Tail(queue), 1) /\ outcome' = "crashed" /\ pc' \in {"over", "finishing"}
      BY <1>5, FailStops
    <2>2. n' \in 0..(MaxRetry + 1) /\ 1 \in Nat \ {0} /\ pc # "running"
          /\ (pc' = "finishing" => outcome' # "blocked")
      BY <1>1, <1>5, <2>1 DEF IInv, TypeOK
    <2>3. UNCHANGED <<step, aborted, cur, carry, carryMs, timer, attempts, asked, answers,
                      base, ghosts, bridge>>
      BY <1>5
    <2> QED
      BY <1>1, <1>2, <1>3, <2>1, <2>2, <2>3, StopIInv
  <1> QED
    BY <1>4, <1>5 DEF CallBegins

\* Steps that leave the attempts, their budgets and what was asked alone.
Untouched ==
    UNCHANGED <<step, aborted, n, cur, carry, carryMs, timer, attempts, asked, answers, base,
                ghosts, bridge>>

LEMMA UntouchedIInv ==
    ASSUME IInv, Untouched, pc \notin {"running", "starting", "answering"},
           pc' \in PCs \ {"running", "starting", "answering"},
           outcome' = outcome, state' \in StepStates,
           pc' \in {"retrying", "backoff"} => n \in 1..MaxRetry,
           Blocking' => Blocking, pc' = "blocked" => ~aborted,
           queue' \in Seq(Events), Awaited', SteersFirst', Stands', aborted => queue' = <<>>,
           \A a \in Sessions : att[a] # "usage"
    PROVE  IInv'
  <1>1. /\ step' = step /\ aborted' = aborted /\ cur' = cur /\ carry' = carry
        /\ carryMs' = carryMs /\ timer' = timer /\ att' = att /\ timedOut' = timedOut
        /\ repair' = repair /\ total' = total /\ verdict' = verdict /\ asked' = asked
        /\ answers' = answers /\ base' = base /\ ran' = ran /\ burned' = burned /\ n' = n
        /\ inFlight' = inFlight /\ tools' = tools /\ narrowed' = narrowed
        /\ claim' = claim /\ children' = children /\ leaked' = leaked
    BY DEF Untouched, attempts, ghosts, bridge
  <1>2. TypeOK'
    BY <1>1 DEF IInv, TypeOK, Events, BridgeTypeOK
  <1>3. Rounds'
    BY <1>1 DEF IInv, Rounds
  <1>4. Abandoned' /\ Conversations'
    BY <1>1 DEF IInv, Abandoned, Alive, Conversations, OneConversation
  <1>5. Tokens' /\ Time'
    BY <1>1 DEF IInv, Tokens, Time, Alive
  <1>6. Overtaken' /\ Cancelled'
    BY <1>1 DEF IInv, Overtaken, Cancelled
  <1> QED
    BY <1>2, <1>3, <1>4, <1>5, <1>6 DEF IInv

\* Only the attempts' events are left.
LEMMA AttemptsLeft ==
    ASSUME IInv, NEW q, LeftOf(q), \A i \in DOMAIN q : q[i].by # Nobody, queue' = q,
           Pending(pc', outcome') = {}, pc' # "finishing"
    PROVE  /\ queue' \in Seq(Events) /\ Awaited' /\ SteersFirst'
           /\ aborted => queue' = <<>>
           /\ \A i \in DOMAIN queue' : \E j \in DOMAIN queue : queue'[i] = queue[j]
  <1>1. /\ q \in Seq(Events)
        /\ \E d \in {0, 1} : \A i \in DOMAIN q : i + d \in DOMAIN queue /\ q[i] = queue[i + d]
    BY LeftFacts DEF IInv
  <1>2. \A i \in DOMAIN q : \E j \in DOMAIN queue : q[i] = queue[j]
    BY <1>1
  <1>3. Awaited' /\ SteersFirst'
    BY <1>2 DEF IInv, Awaited, SteersFirst
  <1>4. aborted => queue' = <<>>
    BY DEF IInv, Cancelled, LeftOf
  <1> QED
    BY <1>1, <1>2, <1>3, <1>4

LEMMA RetryWrittenIInv == IInv /\ RetryWritten => IInv'
  <1> SUFFICES ASSUME IInv, RetryWritten PROVE IInv'
    OBVIOUS
  <1>1. /\ queue # <<>> /\ Head(queue).by = Nobody /\ pc = "retrying"
        /\ state' = "in_progress"
    BY DEF RetryWritten, Written, Event, Derived
  <1>2. /\ LeftOf(Tail(queue))
        /\ \A i \in DOMAIN Tail(queue) : Tail(queue)[i].by # Nobody
        /\ \A a \in Sessions : att[a] # "usage"
    BY <1>1, LoopWritten
  <1>3. state' \in StepStates \ {"completed", "blocked"}
    BY <1>1 DEF StepStates
  <1>4. CASE Begin(n + 1, Tail(queue))
    BY <1>1, <1>2, <1>3, <1>4, BeginIInv
  <1>5. CASE /\ pc' = "backoff" /\ queue' = Tail(queue) /\ outcome' = outcome /\ Untouched
    <2>1. Pending(pc', outcome') = {} /\ ~Blocking'
      BY <1>5 DEF Pending, Blocking
    <2>2. /\ queue' \in Seq(Events) /\ Awaited' /\ SteersFirst'
          /\ aborted => queue' = <<>>
      BY <1>2, <1>5, <2>1, AttemptsLeft
    <2>3. Stands'
      BY <1>1 DEF Stands
    <2>4. n \in 1..MaxRetry
      BY <1>1 DEF IInv, Rounds
    <2> QED
      BY <1>1, <1>2, <1>3, <1>5, <2>1, <2>2, <2>3, <2>4, UntouchedIInv DEF PCs
  <1> QED
    BY <1>4, <1>5 DEF RetryWritten, Untouched

LEMMA BackoffOverIInv == IInv /\ BackoffOver => IInv'
  <1> SUFFICES ASSUME IInv, BackoffOver PROVE IInv'
    OBVIOUS
  <1>1. pc = "backoff" /\ Begin(n + 1, queue) /\ state' = state
    BY DEF BackoffOver
  <1>2. Pending(pc, outcome) = {}
    BY <1>1 DEF Pending
  <1>3. \A i \in DOMAIN queue : queue[i].by # Nobody
    BY <1>2, NoneAwaited
  <1>4. \A a \in Sessions : att[a] # "usage"
    BY <1>1, UsageIs
  <1>5. state' \in StepStates \ {"completed", "blocked"}
    BY <1>1 DEF IInv, TypeOK, Stands
  <1> QED
    BY <1>1, <1>3, <1>4, <1>5, BeginIInv DEF LeftOf

LEMMA TickIInv == IInv /\ Tick => IInv'
  <1> SUFFICES ASSUME IInv, Tick PROVE IInv'
    OBVIOUS
  <1>1. /\ pc = "running" /\ step.budgeted /\ timer > 0 /\ timer' = timer - 1 /\ ran' = ran + 1
        /\ step' = step /\ aborted' = aborted /\ pc' = pc /\ n' = n /\ cur' = cur
        /\ carry' = carry /\ carryMs' = carryMs /\ outcome' = outcome
        /\ att' = att /\ timedOut' = timedOut /\ repair' = repair /\ total' = total
        /\ verdict' = verdict /\ queue' = queue /\ state' = state /\ asked' = asked
        /\ answers' = answers /\ base' = base /\ burned' = burned
        /\ inFlight' = inFlight /\ tools' = tools /\ narrowed' = narrowed
        /\ claim' = claim /\ children' = children /\ leaked' = leaked
    BY DEF Tick, attempts, log, bridge
  <1>2. timer' \in 0..Budget /\ ran' \in Nat /\ ran' + timer' = ran + timer
    <2>1. Budget \in Nat /\ timer \in 0..Budget /\ ran \in Nat
      BY StepAssumption DEF IInv, TypeOK
    <2> QED
      BY <1>1, <2>1
  <1>3. TypeOK'
    BY <1>1, <1>2 DEF IInv, TypeOK, BridgeTypeOK
  <1>4. Time'
    <2>1. ran + timer <= Budget /\ timer \in Nat /\ ran \in Nat /\ Budget \in Nat
      BY <1>1, StepAssumption DEF IInv, TypeOK, Time
    <2>2. ran' <= Budget
      BY <1>1, <2>1
    <2> QED
      BY <1>1, <1>2, <2>1, <2>2 DEF Time, Blocking
  <1>5. Rounds' /\ Abandoned' /\ Conversations' /\ Tokens'
    BY <1>1 DEF IInv, Rounds, Abandoned, Conversations, OneConversation, Tokens, Alive, Blocking
  <1>6. Awaited' /\ Overtaken' /\ Cancelled' /\ SteersFirst' /\ Stands'
    BY <1>1 DEF IInv, Awaited, Overtaken, Cancelled, SteersFirst, Stands
  <1> QED
    BY <1>3, <1>4, <1>5, <1>6 DEF IInv

LEMMA TimeoutIInv == IInv /\ Quiet /\ Timeout => IInv'
  <1> SUFFICES ASSUME IInv, Quiet, Timeout PROVE IInv'
    OBVIOUS
  <1>1. /\ pc = "running" /\ timedOut' = timedOut \union {cur}
        /\ step' = step /\ aborted' = aborted /\ n' = n /\ cur' = cur
        /\ carry' = carry /\ carryMs' = carryMs /\ timer' = timer
        /\ att' = att /\ repair' = repair /\ total' = total
        /\ verdict' = verdict /\ state' = state /\ asked' = asked
        /\ answers' = answers /\ base' = base /\ ran' = ran /\ burned' = burned
        /\ inFlight' = inFlight /\ tools' = tools /\ narrowed' = narrowed
        /\ claim' = claim /\ children' = children /\ leaked' = leaked
    BY DEF Timeout, ghosts, bridge
  <1>2. LoopStops(queue, n) /\ (pc' = "finishing" => outcome' = "crashed")
    BY RetryStops DEF Timeout
  <1>3. Pending(pc, outcome) = {} /\ LeftOf(queue)
    BY <1>1 DEF Pending, LeftOf
  <1>4. \A i \in DOMAIN queue : queue[i].by # Nobody
    BY <1>3, NoneAwaited
  <1>5. /\ queue' \in Seq(Events) /\ Awaited' /\ SteersFirst'
        /\ aborted => queue' = <<>>
        /\ ~aborted => /\ DOMAIN queue' = 1..(Len(queue) + 1) /\ Len(queue) \in Nat
                       /\ \A i \in DOMAIN queue : queue'[i] = queue[i]
                       /\ queue'[Len(queue) + 1].by = Nobody
    BY <1>2, <1>3, <1>4, StopsQueue
  <1>6. /\ pc' \in {"over", "backoff", "retrying", "finishing"}
        /\ pc' \in {"backoff", "retrying"} => n \in 1..MaxRetry
        /\ ~aborted => pc' \in {"retrying", "finishing"}
        /\ outcome' \in {"none", "ok", "blocked", "crashed", "cancelled"}
    <2>1. n \in Nat /\ n >= 1 /\ MaxRetry \in Nat
      BY <1>1, StepAssumption DEF IInv, TypeOK, Rounds
    <2> QED
      BY <1>2, <2>1 DEF LoopStops
  <1>7. cur \in Sessions /\ Alive(cur)
    BY <1>1 DEF IInv, Abandoned
  <1>8. TypeOK'
    BY <1>1, <1>5, <1>6, <1>7 DEF IInv, TypeOK, PCs, Events, BridgeTypeOK
  <1>9. Rounds' /\ Abandoned' /\ Conversations'
    BY <1>1, <1>6, <1>7 DEF IInv, Rounds, Abandoned, Alive, Conversations, OneConversation
  <1>10. Tokens' /\ Time'
    BY <1>1, <1>2, <1>6 DEF IInv, Tokens, Time, Blocking, Alive
  <1>11. Overtaken'
    <2> SUFFICES ASSUME NEW a \in Sessions, att[a] = "usage"
                 PROVE  /\ a = cur /\ (pc' = "retrying" \/ (pc' = "finishing" /\ outcome' = "crashed"))
                        /\ \E i, j \in DOMAIN queue' :
                              i < j /\ queue'[i].by = a /\ queue'[j].by = Nobody
      BY <1>1 DEF Overtaken
    <2>1. a = cur /\ ~aborted
      BY UsageIs
    <2>2. PICK i \in DOMAIN queue : queue[i].by = a
      BY DEF Quiet
    <2>3. DOMAIN queue = 1..Len(queue)
      BY DEF IInv, TypeOK
    <2>4. i \in DOMAIN queue' /\ Len(queue) + 1 \in DOMAIN queue' /\ i < Len(queue) + 1
      BY <1>5, <2>1, <2>2, <2>3
    <2> QED
      BY <1>2, <1>5, <1>6, <2>1, <2>2, <2>4
  <1>12. Cancelled' /\ Stands'
    BY <1>1, <1>5, <1>6 DEF IInv, Cancelled, Stands
  <1> QED
    BY <1>5, <1>8, <1>9, <1>10, <1>11, <1>12 DEF IInv

LEMMA OutcomeWrittenIInv == IInv /\ OutcomeWritten => IInv'
  <1> SUFFICES ASSUME IInv, OutcomeWritten PROVE IInv'
    OBVIOUS
  <1>1. PICK type \in {"step-completed", "step-failed", "questionnaire-asked", "run-crashed",
                       "run-cancelled"} : Written(type, Nobody)
    BY DEF OutcomeWritten
  <1>2. /\ pc = "finishing" /\ queue # <<>> /\ Head(queue).by = Nobody /\ Head(queue).type = type
        /\ state' = Derived(type)
        /\ queue' = Tail(queue) /\ outcome' = outcome /\ Untouched
    BY <1>1 DEF OutcomeWritten, Written, Event, Untouched
  <1>3. /\ LeftOf(Tail(queue))
        /\ \A i \in DOMAIN Tail(queue) : Tail(queue)[i].by # Nobody
        /\ \A a \in Sessions : att[a] # "usage"
        /\ type \in Pending("finishing", outcome) /\ ~aborted
    BY <1>2, LoopWritten
  <1>4. /\ outcome \in {"ok", "blocked", "crashed", "cancelled"}
        /\ state' = CASE outcome = "ok" -> "completed"
                      [] outcome = "blocked" -> "blocked"
                      [] outcome = "crashed" -> "crashed"
                      [] outcome = "cancelled" -> "cancelled"
    BY <1>2, <1>3 DEF Pending, Derived
  <1>5. /\ outcome = "blocked" => pc' = "blocked"
        /\ outcome = "ok" => pc' = "walking"
        /\ pc' \in {"blocked", "walking", "over"}
        /\ pc' = "blocked" => outcome = "blocked"
    BY DEF OutcomeWritten
  <1>6. Pending(pc', outcome') = {}
    BY <1>5 DEF Pending
  <1>7. /\ queue' \in Seq(Events) /\ Awaited' /\ SteersFirst'
        /\ aborted => queue' = <<>>
    BY <1>2, <1>3, <1>5, <1>6, AttemptsLeft
  <1>8. Stands'
    <2>1. ASSUME outcome \in {"ok", "blocked"}, NEW i \in DOMAIN queue'
          PROVE  queue'[i].type # "agent-steer"
      <3>1. /\ DOMAIN queue = 1..Len(queue) /\ Len(queue) \in Nat \ {0}
            /\ DOMAIN Tail(queue) = 1..(Len(queue) - 1)
            /\ \A j \in DOMAIN Tail(queue) : Tail(queue)[j] = queue[j + 1]
            /\ Head(queue) = queue[1]
        BY <1>2, Removed DEF IInv, TypeOK, Events
      <3>2. 1 \in DOMAIN queue /\ queue[1].by = Nobody
        BY <1>2, <3>1
      <3>3. i + 1 \in DOMAIN queue /\ 1 < i + 1 /\ queue'[i] = queue[i + 1]
        BY <1>2, <2>1, <3>1
      <3> QED
        BY <1>2, <2>1, <3>2, <3>3 DEF IInv, SteersFirst
    <2> QED
      BY <1>4, <1>5, <2>1 DEF Stands
  <1>9. Blocking' => Blocking
    BY <1>2, <1>5 DEF Blocking
  <1>10. state' \in StepStates
    BY <1>4 DEF StepStates
  <1> QED
    BY <1>2, <1>3, <1>5, <1>7, <1>8, <1>9, <1>10, UntouchedIInv DEF PCs

LEMMA RunCompletesIInv == IInv /\ RunCompletes => IInv'
  <1> SUFFICES ASSUME IInv, RunCompletes PROVE IInv'
    OBVIOUS
  <1>1. /\ pc = "walking" /\ outcome' = outcome /\ state' = state /\ Untouched
        /\ \/ aborted /\ pc' = "over" /\ queue' = queue
           \/ ~aborted /\ pc' = "ending" /\ queue' = Append(queue, Event("run-completed", Nobody))
    BY DEF RunCompletes, Untouched
  <1>2. \A a \in Sessions : att[a] # "usage"
    BY <1>1, UsageIs
  <1>3. Pending(pc, outcome) = {}
    BY <1>1 DEF Pending
  <1>4. \A i \in DOMAIN queue : queue[i].by # Nobody
    BY <1>3, NoneAwaited
  <1>5. /\ queue' \in Seq(Events) /\ Awaited' /\ SteersFirst' /\ (aborted => queue' = <<>>)
        /\ \A i \in DOMAIN queue' : \/ queue'[i].type = "run-completed"
                                    \/ \E j \in DOMAIN queue : queue'[i] = queue[j]
    <2>1. CASE aborted /\ pc' = "over" /\ queue' = queue
      <3>1. Pending(pc', outcome') = {} /\ pc' # "finishing" /\ LeftOf(queue)
        BY <2>1 DEF Pending, LeftOf
      <3> QED
        BY <1>4, <2>1, <3>1, AttemptsLeft
    <2>2. CASE ~aborted /\ pc' = "ending" /\ queue' = Append(queue, Event("run-completed", Nobody))
      <3> DEFINE e == Event("run-completed", Nobody)
      <3>1. e \in Events /\ e.by = Nobody /\ e.type = "run-completed"
        BY StepAssumption DEF Event, Events, Kinds, Nobody
      <3>2. queue \in Seq(Events)
        BY DEF IInv, TypeOK, Events
      <3> HIDE DEF e
      <3>3. queue' = Append(queue, e)
        BY <2>2 DEF e
      <3>4. /\ queue' \in Seq(Events)
            /\ DOMAIN queue = 1..Len(queue) /\ Len(queue) \in Nat
            /\ DOMAIN queue' = 1..(Len(queue) + 1)
            /\ \A i \in DOMAIN queue : queue'[i] = queue[i]
            /\ queue'[Len(queue) + 1] = e
        BY <3>1, <3>2, <3>3, Appended
      <3>5. \A i \in DOMAIN queue' : i = Len(queue) + 1 \/ i \in DOMAIN queue
        BY <3>4
      <3>6. Pending(pc', outcome') = {"run-completed"}
        BY <2>2 DEF Pending
      <3>7. Len(queue) + 1 \in DOMAIN queue'
        BY <3>4
      <3>8. Awaited'
        BY <1>4, <3>1, <3>4, <3>5, <3>6, <3>7 DEF IInv, Awaited
      <3> QED
        BY <2>2, <3>1, <3>4, <3>5, <3>8 DEF SteersFirst
    <2> QED
      BY <1>1, <2>1, <2>2
  <1>6. Stands'
    BY <1>1, <1>5 DEF IInv, Stands
  <1>7. ~Blocking' /\ state' \in StepStates
    BY <1>1 DEF Blocking, IInv, TypeOK
  <1> QED
    BY <1>1, <1>2, <1>5, <1>6, <1>7, UntouchedIInv DEF PCs

LEMMA RunCompletedIInv == IInv /\ RunCompleted => IInv'
  <1> SUFFICES ASSUME IInv, RunCompleted PROVE IInv'
    OBVIOUS
  <1>1. /\ pc = "ending" /\ pc' = "over" /\ queue # <<>> /\ Head(queue).by = Nobody
        /\ queue' = Tail(queue) /\ outcome' = outcome /\ state' = state /\ Untouched
    BY DEF RunCompleted, Written, Event, Derived, Untouched
  <1>2. /\ LeftOf(Tail(queue))
        /\ \A i \in DOMAIN Tail(queue) : Tail(queue)[i].by # Nobody
        /\ \A a \in Sessions : att[a] # "usage"
    BY <1>1, LoopWritten
  <1>3. Pending(pc', outcome') = {} /\ ~Blocking'
    BY <1>1 DEF Pending, Blocking
  <1>4. /\ queue' \in Seq(Events) /\ Awaited' /\ SteersFirst'
        /\ aborted => queue' = <<>>
        /\ \A i \in DOMAIN queue' : \E j \in DOMAIN queue : queue'[i] = queue[j]
    BY <1>1, <1>2, <1>3, AttemptsLeft
  <1>5. Stands' /\ state' \in StepStates
    BY <1>1, <1>4 DEF IInv, TypeOK, Stands
  <1> QED
    BY <1>1, <1>2, <1>3, <1>4, <1>5, UntouchedIInv DEF PCs

LEMMA AnswerIInv == IInv /\ Answer => IInv'
  <1> SUFFICES ASSUME IInv, Answer PROVE IInv'
    OBVIOUS
  <1> DEFINE e == Event("answers-provided", Nobody)
  <1>1. /\ pc = "blocked" /\ pc' = "answering" /\ state = "blocked" /\ answers < MaxAnswers
        /\ answers' = answers + 1 /\ base' = cur /\ carry' = asked.tokens /\ carryMs' = asked.ms
        /\ queue' = Append(queue, e)
        /\ step' = step /\ aborted' = aborted /\ n' = n /\ cur' = cur /\ timer' = timer
        /\ outcome' = outcome /\ att' = att /\ timedOut' = timedOut /\ repair' = repair
        /\ total' = total /\ verdict' = verdict /\ state' = state /\ asked' = asked
        /\ ran' = ran /\ burned' = burned
        /\ inFlight' = inFlight /\ tools' = tools /\ narrowed' = narrowed
        /\ claim' = claim /\ children' = children /\ leaked' = leaked
    BY DEF Answer, attempts, ghosts, bridge
  <1>2. /\ e \in Events /\ e.by = Nobody /\ e.type = "answers-provided"
    BY StepAssumption DEF Event, Events, Kinds, Nobody
  <1>3. queue \in Seq(Events) /\ ~aborted
    BY <1>1 DEF IInv, TypeOK, Events, Cancelled
  <1> HIDE DEF e
  <1>4. /\ queue' \in Seq(Events)
        /\ DOMAIN queue = 1..Len(queue) /\ Len(queue) \in Nat
        /\ DOMAIN queue' = 1..(Len(queue) + 1)
        /\ \A i \in DOMAIN queue : queue'[i] = queue[i]
        /\ queue'[Len(queue) + 1] = e
    BY <1>1, <1>2, <1>3, Appended
  <1>5. Len(queue) + 1 \in DOMAIN queue' /\ \A i \in DOMAIN queue' : i = Len(queue) + 1 \/ i \in DOMAIN queue
    BY <1>4
  <1>6. TypeOK'
    <2>1. answers' \in 0..MaxAnswers
      <3>1. answers \in Nat /\ MaxAnswers \in Nat
        BY StepAssumption DEF IInv, TypeOK
      <3> QED
        BY <1>1, <3>1
    <2>2. carry' \in 0..MaxTokens /\ carryMs' \in 0..Budget
      BY <1>1 DEF IInv, TypeOK
    <2> QED
      BY <1>1, <1>4, <2>1, <2>2 DEF IInv, TypeOK, PCs, Events, BridgeTypeOK
  <1>7. Rounds'
    <2>1. /\ n \in Nat /\ cur \in Nat /\ answers \in Nat /\ MaxRetry \in Nat /\ n <= MaxRetry + 1
      BY StepAssumption DEF IInv, TypeOK
    <2>2. PICK m \in Nat : m = answers * (MaxRetry + 1)
      BY <2>1
    <2>3. cur <= m + n
      BY <1>1, <2>2 DEF IInv, Rounds
    <2>4. (answers + 1) * (MaxRetry + 1) = m + (MaxRetry + 1)
      BY <2>1, <2>2
    <2>5. cur <= m + (MaxRetry + 1)
      BY <2>1, <2>3
    <2> QED
      BY <1>1, <2>1, <2>4, <2>5 DEF Rounds
  <1>8. Abandoned' /\ Conversations'
    BY <1>1 DEF IInv, Abandoned, Alive, Conversations, OneConversation
  <1>9. Tokens' /\ Time'
    BY <1>1 DEF IInv, Tokens, Time, Blocking, Alive
  <1>10. Awaited'
    <2>1. Pending(pc, outcome) = {} /\ Pending(pc', outcome') = {"answers-provided"}
      BY <1>1 DEF Pending
    <2>2. \A i \in DOMAIN queue : queue[i].by # Nobody
      BY <2>1, NoneAwaited
    <2> QED
      BY <1>2, <1>4, <1>5, <2>1, <2>2 DEF IInv, Awaited
  <1>11. Overtaken' /\ Cancelled' /\ SteersFirst'
    BY <1>1, <1>3 DEF IInv, Overtaken, Cancelled, SteersFirst
  <1>12. Stands'
    BY <1>1, <1>2, <1>4, <1>5 DEF IInv, Stands
  <1> QED
    BY <1>6, <1>7, <1>8, <1>9, <1>10, <1>11, <1>12 DEF IInv

LEMMA CancelIInv == IInv /\ Quiet /\ Cancel => IInv'
  <1> SUFFICES ASSUME IInv, Quiet, Cancel PROVE IInv'
    OBVIOUS
  <1>1. /\ queue = <<>> /\ pc # "blocked" /\ aborted' = TRUE
        /\ state' = IF state \in {"in_progress", "blocked"} THEN "cancelled" ELSE state
        /\ step' = step /\ pc' = pc /\ n' = n /\ cur' = cur
        /\ carry' = carry /\ carryMs' = carryMs /\ timer' = timer /\ outcome' = outcome
        /\ att' = att /\ timedOut' = timedOut /\ repair' = repair /\ total' = total
        /\ verdict' = verdict /\ queue' = queue /\ asked' = asked
        /\ answers' = answers /\ base' = base /\ ran' = ran /\ burned' = burned
        /\ inFlight' = inFlight /\ tools' = tools /\ narrowed' = narrowed
        /\ claim' = claim /\ children' = children /\ leaked' = leaked
    BY DEF Cancel, loop, attempts, ghosts, bridge
  <1>2. TypeOK'
    BY <1>1 DEF IInv, TypeOK, StepStates, BridgeTypeOK
  <1>3. Rounds' /\ Abandoned' /\ Conversations' /\ Tokens' /\ Time'
    BY <1>1 DEF IInv, Rounds, Abandoned, Conversations, OneConversation, Tokens, Alive, Time,
       Blocking
  <1>4. Awaited' /\ Overtaken' /\ SteersFirst' /\ Stands'
    BY <1>1 DEF IInv, Awaited, Overtaken, SteersFirst, Stands
  <1>5. Cancelled'
    BY <1>1 DEF Cancelled, Quiet
  <1> QED
    BY <1>2, <1>3, <1>4, <1>5 DEF IInv

-----------------------------------------------------------------------------
(* The attempts' steps.                                                     *)

\* What the bridge holds once an attempt no longer waits for a reply.
Released(a) ==
    /\ BridgeTypeOK'
    /\ step.kind = "session" => inFlight' = IF att[a] = "turn" THEN Nobody ELSE inFlight
    /\ step.kind = "background" =>
          /\ children' = IF att[a] = "turn" THEN children \ {a} ELSE children
          /\ step.resumable =>
                /\ leaked \subseteq leaked'
                /\ \/ claim' = IF att[a] = "turn" THEN Nobody ELSE claim
                   \/ att[a] # "turn" /\ claim = Nobody /\ claim' = a /\ a \in leaked'

\* The session goes on waiting for nothing in the bridge.
LEMMA ReleasedConversation ==
    ASSUME IInv, NEW a \in Sessions, Released(a), step' = step,
           \A b \in Sessions : b # a => att'[b] = att[b],
           att'[a] \notin {"turn", "selecting"}
    PROVE  /\ OneConversation'
           /\ \A b \in Sessions : att'[b] = "selecting" => step'.kind = "session"
           /\ step'.kind = "background" => \A b \in Sessions : att'[b] = "turn" <=> b \in children'
           /\ \A b \in Sessions : b # a /\ att'[b] = "selecting" => att[b] = "selecting"
           /\ step.kind = "session" /\ inFlight = Nobody => inFlight' = Nobody
  <1>1. 0 \notin Sessions
    BY DEF Sessions
  <1>2. ASSUME step.kind = "session", NEW b \in Sessions
        PROVE  att'[b] = "turn" <=> inFlight' = b
    <2>1. \A c \in Sessions : att[c] = "turn" <=> inFlight = c
      BY <1>2 DEF IInv, Conversations, OneConversation
    <2> QED
      BY <1>1, <1>2, <2>1 DEF Released, Nobody
  <1>3. ASSUME step.kind = "background", NEW b \in Sessions
        PROVE  att'[b] = "turn" <=> b \in children'
    BY <1>3 DEF IInv, Conversations, Released
  <1>4. ASSUME step.kind = "background", step.resumable, NEW b \in Sessions
        PROVE  /\ b \in children' => claim' = b
               /\ claim' = b => b \in children' \/ b \in leaked'
    <2>1. \A c \in Sessions : /\ c \in children => claim = c
                              /\ claim = c => c \in children \/ c \in leaked
      BY <1>4 DEF IInv, Conversations, OneConversation
    <2>2. att[a] = "turn" <=> a \in children
      BY <1>4 DEF IInv, Conversations
    <2> QED
      BY <1>1, <1>4, <2>1, <2>2 DEF Released, Nobody
  <1> QED
    BY <1>2, <1>3, <1>4 DEF OneConversation, IInv, Conversations, Released

\* What an attempt's step does to the queue: its own event leaves the head, or not, and
\* the next one it emits joins the end, or is refused.
LeftBy(a, q) == q = queue \/ (queue # <<>> /\ Head(queue).by = a /\ q = Tail(queue))

LEMMA AttemptQueue ==
    ASSUME IInv, NEW a \in Sessions, NEW q, LeftBy(a, q),
           NEW type \in AttemptsTypes, queue' = q \/ queue' = Emitted(q, type, a),
           type = "agent-steer" /\ accepts(a) =>
               pc \in {"running", "retrying"} \/ (pc = "finishing" /\ outcome = "crashed"),
           pc' = pc, outcome' = outcome
    PROVE  /\ queue' \in Seq(Events) /\ Awaited' /\ SteersFirst'
           /\ aborted => queue' = <<>>
           /\ \A b \in Sessions :
                 /\ b # a
                 /\ \E i, j \in DOMAIN queue : i < j /\ queue[i].by = b /\ queue[j].by = Nobody
                 => \E i, j \in DOMAIN queue' : i < j /\ queue'[i].by = b /\ queue'[j].by = Nobody
           /\ q = queue => \A i \in DOMAIN queue : i \in DOMAIN queue' /\ queue'[i] = queue[i]
           /\ state \in {"completed", "blocked"} =>
                 \A i \in DOMAIN queue' : queue'[i].type # "agent-steer"
  <1>1. /\ LeftOf(q) /\ 0 \notin Sessions /\ a # Nobody
    BY DEF LeftBy, LeftOf, Sessions, Nobody
  <1>2. /\ queue \in Seq(Events) /\ q \in Seq(Events)
        /\ DOMAIN q = 1..Len(q) /\ Len(q) \in Nat
        /\ DOMAIN queue = 1..Len(queue) /\ Len(queue) \in Nat
    BY <1>1, LeftFacts DEF IInv
  <1>3. PICK d \in {0, 1} :
            /\ \A i \in DOMAIN q : i + d \in DOMAIN queue /\ q[i] = queue[i + d]
            /\ \A i \in DOMAIN queue :
                  (queue[i].by # a => i - d \in DOMAIN q /\ q[i - d] = queue[i])
            /\ q = queue => d = 0
    <2>1. CASE q = queue
      <3>1. \A i \in DOMAIN q : i + 0 = i /\ i - 0 = i
        BY <1>2
      <3> QED
        BY <2>1, <3>1
    <2>2. CASE q # queue
      <3>1. queue # <<>> /\ Head(queue).by = a /\ q = Tail(queue)
        BY <2>2 DEF LeftBy
      <3>2. /\ DOMAIN Tail(queue) = 1..(Len(queue) - 1) /\ Len(queue) \in Nat \ {0}
            /\ \A i \in DOMAIN Tail(queue) : Tail(queue)[i] = queue[i + 1]
            /\ Head(queue) = queue[1]
        BY <1>2, <3>1, Removed
      <3>3. \A i \in DOMAIN q : i + 1 \in DOMAIN queue /\ q[i] = queue[i + 1]
        BY <1>2, <3>1, <3>2
      <3>4. ASSUME NEW i \in DOMAIN queue, queue[i].by # a
            PROVE  i - 1 \in DOMAIN q /\ q[i - 1] = queue[i]
        <4>1. i # 1
          BY <3>1, <3>2, <3>4
        <4>2. i - 1 \in DOMAIN q /\ (i - 1) + 1 = i
          BY <1>2, <3>1, <3>2, <4>1
        <4> QED
          BY <3>3, <4>2
      <3> QED
        BY <2>2, <3>3, <3>4
    <2> QED
      BY <2>1, <2>2
  <1>4. \/ queue' = q
        \/ /\ accepts(a) /\ ~aborted
           /\ queue' = Append(q, Event(type, a))
    BY DEF Emitted, accepts
  <1>5. /\ Event(type, a) \in Events /\ Event(type, a).by = a /\ Event(type, a).type = type
    BY DEF Event, Events, Kinds, Sessions, AttemptsTypes
  <1>6. /\ queue' \in Seq(Events) /\ DOMAIN q \subseteq DOMAIN queue'
        /\ \A i \in DOMAIN q : queue'[i] = q[i]
        /\ \A i \in DOMAIN queue' : i \in DOMAIN q
               \/ (queue'[i].by = a /\ queue'[i].type = type /\ accepts(a))
    <2>1. CASE queue' = q
      BY <1>2, <2>1
    <2>2. CASE accepts(a) /\ queue' = Append(q, Event(type, a))
      <3>1. /\ DOMAIN queue' = 1..(Len(q) + 1) /\ queue' \in Seq(Events)
            /\ \A i \in DOMAIN q : queue'[i] = q[i]
            /\ queue'[Len(q) + 1] = Event(type, a)
        BY <1>2, <1>5, <2>2, Appended
      <3>2. \A i \in DOMAIN queue' : i = Len(q) + 1 \/ i \in DOMAIN q
        BY <1>2, <3>1
      <3>3. DOMAIN q \subseteq DOMAIN queue'
        BY <1>2, <3>1
      <3>4. queue'[Len(q) + 1].by = a /\ queue'[Len(q) + 1].type = type
        BY <1>5, <3>1
      <3> QED
        BY <2>2, <3>1, <3>2, <3>3, <3>4
    <2> QED
      BY <1>4, <2>1, <2>2
  <1>7. \A i \in DOMAIN queue' :
            \/ i + d \in DOMAIN queue /\ queue'[i] = queue[i + d]
            \/ queue'[i].by = a /\ queue'[i].type = type /\ accepts(a)
    BY <1>3, <1>6
  <1>8. \A i, j \in DOMAIN queue : queue[i].by # a /\ queue[j].by # a =>
            /\ i - d \in DOMAIN queue' /\ queue'[i - d] = queue[i]
            /\ j - d \in DOMAIN queue' /\ queue'[j - d] = queue[j]
            /\ i < j => i - d < j - d
    <2>1. \A i \in DOMAIN queue : queue[i].by # a => i - d \in DOMAIN queue' /\ queue'[i - d] = queue[i]
      BY <1>3, <1>6
    <2>2. \A i, j \in DOMAIN queue : i < j => i - d < j - d
      BY <1>2
    <2> QED
      BY <2>1, <2>2
  <1>9. Awaited'
    <2>1. \A i \in DOMAIN queue' :
              /\ queue'[i].by = Nobody => queue'[i].type \in Pending(pc, outcome)
              /\ queue'[i].by # Nobody => queue'[i].type \in {"agent-usage", "agent-error", "agent-steer"}
      BY <1>1, <1>7 DEF IInv, Awaited, AttemptsTypes
    <2>2. ASSUME NEW i \in DOMAIN queue', NEW j \in DOMAIN queue',
                 queue'[i].by = Nobody, queue'[j].by = Nobody
          PROVE  i = j
      <3>1. i + d \in DOMAIN queue /\ j + d \in DOMAIN queue
            /\ queue[i + d].by = Nobody /\ queue[j + d].by = Nobody
        BY <1>1, <1>7, <2>2
      <3>2. i + d = j + d
        BY <3>1 DEF IInv, Awaited
      <3>3. i \in Nat /\ j \in Nat /\ d \in Nat
        BY <1>6
      <3> QED
        BY <3>2, <3>3
    <2>3. Pending(pc, outcome) # {} => \E i \in DOMAIN queue' : queue'[i].by = Nobody
      BY <1>1, <1>8 DEF IInv, Awaited
    <2> HIDE DEF Pending
    <2> QED
      BY <2>1, <2>2, <2>3 DEF Awaited
  <1>10. SteersFirst'
    <2> SUFFICES ASSUME pc = "finishing", outcome \in {"ok", "blocked"},
                        NEW i \in DOMAIN queue', NEW j \in DOMAIN queue', i < j,
                        queue'[i].by = Nobody
                 PROVE  queue'[j].type # "agent-steer"
      BY DEF SteersFirst
    <2>1. i + d \in DOMAIN queue /\ queue[i + d].by = Nobody
      BY <1>1, <1>7
    <2>2. CASE j + d \in DOMAIN queue /\ queue'[j] = queue[j + d]
      <3>1. i + d < j + d
        BY <1>6
      <3> QED
        BY <2>1, <2>2, <3>1 DEF IInv, SteersFirst
    <2>3. CASE queue'[j].type = type /\ accepts(a)
      BY <2>3
    <2> QED
      BY <1>7, <2>2, <2>3
  <1>11. aborted => queue' = <<>>
    BY <1>1, <1>4 DEF IInv, Cancelled, LeftOf
  <1>12. ASSUME NEW b \in Sessions, b # a,
                NEW i \in DOMAIN queue, NEW j \in DOMAIN queue, i < j,
                queue[i].by = b, queue[j].by = Nobody
         PROVE  \E k, l \in DOMAIN queue' : k < l /\ queue'[k].by = b /\ queue'[l].by = Nobody
    <2>1. /\ i - d \in DOMAIN queue' /\ queue'[i - d] = queue[i]
          /\ j - d \in DOMAIN queue' /\ queue'[j - d] = queue[j] /\ i - d < j - d
      BY <1>1, <1>8, <1>12
    <2> QED
      BY <1>12, <2>1
  <1>13. q = queue => \A i \in DOMAIN queue : i \in DOMAIN queue' /\ queue'[i] = queue[i]
    BY <1>6
  <1>14. state \in {"completed", "blocked"} =>
             \A i \in DOMAIN queue' : queue'[i].type # "agent-steer"
    BY <1>7 DEF IInv, Stands
  <1> QED
    BY <1>6, <1>9, <1>10, <1>11, <1>12, <1>13, <1>14

\* What the log derives may change, but not for a completed or a blocked step.
StateKept ==
    /\ state' \in StepStates
    /\ state' = state \/ {state, state'} \intersect {"completed", "blocked"} = {}

LEMMA EmitOverFacts ==
    ASSUME IInv, NEW a \in Sessions, NEW type \in AttemptsTypes, EmitOver(type, a)
    PROVE  StateKept /\ LeftBy(a, Rest(a))
  <1>1. queue \in Seq(Events) /\ state \in StepStates
    BY DEF IInv, TypeOK, Events
  <1>2. CASE Written(type, a)
    <2>1. queue # <<>> /\ Head(queue) = Event(type, a) /\ state' = Derived(type)
      BY <1>2 DEF Written
    <2>2. 1 \in DOMAIN queue /\ queue[1].type = type /\ Head(queue).by = a
      BY <1>1, <2>1, Removed DEF Event
    <2>3. state \in {"completed", "blocked"} => type # "agent-steer"
      BY <2>2 DEF IInv, Stands
    <2>4. StateKept
      BY <1>1, <2>1, <2>3 DEF StateKept, Derived, AttemptsTypes, StepStates
    <2> QED
      BY <2>1, <2>2, <2>4 DEF LeftBy, Rest
  <1>3. CASE state' = state
    BY <1>1, <1>3 DEF StateKept, LeftBy, Rest
  <1> QED
    BY <1>2, <1>3 DEF EmitOver

\* An attempt goes on: the loop does not notice.
LEMMA AttemptGoesOn ==
    ASSUME IInv, NEW a \in Sessions, Alive(a), NEW q, LeftBy(a, q),
           NEW type \in AttemptsTypes, queue' = q \/ queue' = Emitted(q, type, a),
           type = "agent-steer" /\ accepts(a) =>
               pc \in {"running", "retrying"} \/ (pc = "finishing" /\ outcome = "crashed"),
           StateKept,
           UNCHANGED <<step, aborted, loop, timedOut, asked, answers, base, ran>>,
           att' \in [Sessions -> Places], \A b \in Sessions : b # a => att'[b] = att[b],
           att'[a] \notin {"none", "returned"},
           att'[a] = "usage" => a \notin timedOut,
           aborted => att'[a] \notin {"usage", "error", "steer"},
           repair' \in [Sessions -> 0..MaxRepairs], verdict' \in [Sessions -> Verdicts],
           total' \in [Sessions -> 0..(MaxTokens + MaxUsage)],
           \A b \in Sessions : b # a => total'[b] = total[b],
           att'[a] # "usage" => total'[a] <= MaxTokens,
           burned' \in Nat, a = cur => burned' <= total'[a], a # cur => burned' = burned,
           BridgeTypeOK', Conversations'
    PROVE  IInv'
  <1>1. /\ step' = step /\ aborted' = aborted /\ pc' = pc /\ n' = n /\ cur' = cur
        /\ carry' = carry /\ carryMs' = carryMs /\ timer' = timer /\ outcome' = outcome
        /\ timedOut' = timedOut /\ asked' = asked /\ answers' = answers /\ base' = base
        /\ ran' = ran
    BY DEF loop
  <1>2. /\ queue' \in Seq(Events) /\ Awaited' /\ SteersFirst'
        /\ aborted => queue' = <<>>
        /\ \A b \in Sessions :
              /\ b # a
              /\ \E i, j \in DOMAIN queue : i < j /\ queue[i].by = b /\ queue[j].by = Nobody
              => \E i, j \in DOMAIN queue' : i < j /\ queue'[i].by = b /\ queue'[j].by = Nobody
        /\ state \in {"completed", "blocked"} =>
              \A i \in DOMAIN queue' : queue'[i].type # "agent-steer"
    <2>1. pc' = pc /\ outcome' = outcome
      BY <1>1
    <2> HIDE DEF AttemptsTypes
    <2> QED
      BY ONLY <2>1, AttemptQueue, IInv, a \in Sessions, LeftBy(a, q), type \in AttemptsTypes, 
         queue' = q \/ queue' = Emitted(q, type, a),
         type = "agent-steer" /\ accepts(a) =>
               pc \in {"running", "retrying"} \/ (pc = "finishing" /\ outcome = "crashed")
  <1>3. TypeOK'
    BY <1>1, <1>2 DEF IInv, TypeOK, Events, StateKept
  <1>4. Rounds'
    BY <1>1 DEF IInv, Rounds
  <1>5. Abandoned'
    <2>1. \A b \in Sessions : Alive(b)' <=> Alive(b)
      BY DEF Alive
    <2>2. \A b \in Sessions : att'[b] = "none" <=> att[b] = "none"
      BY DEF Alive
    <2>3. pc = "running" => cur \in Sessions /\ Alive(cur) /\ cur \notin timedOut
      BY DEF IInv, Abandoned
    <2>4. pc' = "running" => cur' \in Sessions /\ Alive(cur)' /\ cur' \notin timedOut'
      BY <1>1, <2>1, <2>3 DEF Alive
    <2> QED
      BY <1>1, <2>1, <2>2, <2>4 DEF IInv, Abandoned
  <1>6. Tokens'
    <2>1. \A b \in Sessions : Alive(b)' <=> Alive(b)
      BY DEF Alive
    <2>2. Blocking' <=> Blocking
      BY <1>1 DEF Blocking
    <2>3. Blocking \/ pc = "answering" => a # cur
      BY DEF IInv, Tokens
    <2> QED
      BY <1>1, <2>1, <2>2, <2>3 DEF IInv, Tokens
  <1>7. Time'
    BY <1>1 DEF IInv, Time, Blocking
  <1>8. Overtaken'
    <2> SUFFICES ASSUME NEW b \in Sessions, att'[b] = "usage", b \in timedOut
                 PROVE  /\ b = cur /\ (pc = "retrying" \/ (pc = "finishing" /\ outcome = "crashed"))
                        /\ \E i, j \in DOMAIN queue' :
                              i < j /\ queue'[i].by = b /\ queue'[j].by = Nobody
      BY <1>1 DEF Overtaken
    <2>1. b # a /\ att[b] = "usage"
      OBVIOUS
    <2>2. /\ b = cur /\ (pc = "retrying" \/ (pc = "finishing" /\ outcome = "crashed"))
          /\ \E i, j \in DOMAIN queue : i < j /\ queue[i].by = b /\ queue[j].by = Nobody
      BY <2>1 DEF IInv, Overtaken
    <2> QED
      BY <1>2, <2>1, <2>2
  <1>9. Cancelled'
    <2>1. aborted => \A b \in Sessions : att'[b] \notin {"usage", "error", "steer"}
      BY DEF IInv, Cancelled
    <2> QED
      BY <1>1, <1>2, <2>1 DEF IInv, Cancelled
  <1>10. Stands'
    BY <1>1, <1>2 DEF IInv, Stands, StateKept
  <1> QED
    BY <1>2, <1>3, <1>4, <1>5, <1>6, <1>7, <1>8, <1>9, <1>10 DEF IInv

-----------------------------------------------------------------------------
\* The awaited attempt returns: the loop goes on with its result.
LEMMA RacedStops ==
    ASSUME IInv, NEW a \in Sessions, NEW r, NEW q, Returns(a, r, q), Raced(a)
    PROVE  /\ LoopStops(q, n)
           /\ \/ /\ pc' = "finishing" => outcome' # "blocked"
                 /\ asked' = asked
              \/ /\ r = "blocked" /\ outcome' = "blocked"
                 /\ asked' = [ms |-> IF step.budgeted THEN elapsedMs ELSE 0, tokens |-> total[a]]
                 /\ pc' \in {"finishing", "over"}
  <1>1. CASE r = "ok"
    BY <1>1, FinishStops DEF Returns, Pending
  <1>2. CASE r = "cancelled"
    BY <1>2, FinishStops DEF Returns, Pending
  <1>3. CASE r = "fatal"
    BY <1>3, FailStops DEF Returns
  <1>4. CASE r = "retryable"
    BY <1>4, RetryStops DEF Returns
  <1>5. CASE r = "blocked"
    BY <1>5, FinishStops DEF Returns, Block, Pending
  <1> QED
    BY <1>1, <1>2, <1>3, <1>4, <1>5 DEF Returns

\* What an attempt leaves when it returns, whether or not the loop waits for it.
LEMMA ReturnedFacts ==
    ASSUME IInv, NEW a \in Sessions, Alive(a), NEW r, NEW q, Returns(a, r, q),
           Released(a), StateKept,
           UNCHANGED <<step, aborted, answers, base, ran>>, burned' = burned
    PROVE  /\ step' = step /\ aborted' = aborted /\ answers' = answers /\ base' = base
           /\ ran' = ran /\ n' = n /\ cur' = cur /\ carry' = carry /\ carryMs' = carryMs
           /\ timer' = timer /\ timedOut' = timedOut \ {a}
           /\ att' \in [Sessions -> Places] /\ att'[a] = "returned"
           /\ \A b \in Sessions : b # a => att'[b] = att[b]
           /\ total' \in [Sessions -> 0..(MaxTokens + MaxUsage)] /\ total'[a] = 0
           /\ \A b \in Sessions : b # a => total'[b] = total[b]
           /\ repair' \in [Sessions -> 0..MaxRepairs] /\ verdict' \in [Sessions -> Verdicts]
           /\ BridgeTypeOK' /\ state' \in StepStates
           /\ \A b \in Sessions : Alive(b)' <=> (Alive(b) /\ b # a)
           /\ Raced(a) <=> (a = cur /\ pc = "running")
  <1>1. /\ att' = [att EXCEPT ![a] = "returned"] /\ timedOut' = timedOut \ {a}
        /\ repair' = [repair EXCEPT ![a] = 0] /\ total' = [total EXCEPT ![a] = 0]
        /\ verdict' = [verdict EXCEPT ![a] = "none"]
        /\ n' = n /\ cur' = cur /\ carry' = carry /\ carryMs' = carryMs /\ timer' = timer
    BY DEF Returns
  <1>2. /\ att \in [Sessions -> Places] /\ repair \in [Sessions -> 0..MaxRepairs]
        /\ total \in [Sessions -> 0..(MaxTokens + MaxUsage)] /\ verdict \in [Sessions -> Verdicts]
        /\ 0 \in 0..MaxRepairs /\ 0 \in 0..(MaxTokens + MaxUsage)
        /\ "returned" \in Places /\ "none" \in Verdicts
    <2>1. MaxRepairs \in Nat /\ MaxTokens + MaxUsage \in Nat
      BY StepAssumption
    <2>2. 0 \in 0..MaxRepairs /\ 0 \in 0..(MaxTokens + MaxUsage)
      BY <2>1
    <2>3. "returned" \in Places /\ "none" \in Verdicts
      BY DEF Places, Verdicts
    <2>4. /\ att \in [Sessions -> Places] /\ repair \in [Sessions -> 0..MaxRepairs]
          /\ total \in [Sessions -> 0..(MaxTokens + MaxUsage)] /\ verdict \in [Sessions -> Verdicts]
      BY DEF IInv, TypeOK
    <2> QED
      BY <2>2, <2>3, <2>4
  <1>3. /\ att' \in [Sessions -> Places] /\ att'[a] = "returned"
        /\ \A b \in Sessions : b # a => att'[b] = att[b]
    BY <1>1, <1>2
  <1>4. /\ total' \in [Sessions -> 0..(MaxTokens + MaxUsage)] /\ total'[a] = 0
        /\ \A b \in Sessions : b # a => total'[b] = total[b]
    BY <1>1, <1>2
  <1>5. repair' \in [Sessions -> 0..MaxRepairs] /\ verdict' \in [Sessions -> Verdicts]
    BY <1>1, <1>2
  <1>6. \A b \in Sessions : Alive(b)' <=> (Alive(b) /\ b # a)
    BY <1>3 DEF Alive
  <1>7. Raced(a) <=> (a = cur /\ pc = "running")
    BY DEF Raced, IInv, Abandoned
  <1> QED
    BY <1>1, <1>3, <1>4, <1>5, <1>6, <1>7 DEF Released, StateKept

\* An abandoned attempt returns, and nobody notices.
LEMMA AbandonedReturns ==
    ASSUME IInv, NEW a \in Sessions, Alive(a), NEW r, NEW q, Returns(a, r, q),
           Released(a), StateKept, LeftBy(a, q), ~Raced(a),
           UNCHANGED <<step, aborted, answers, base, ran>>, burned' = burned
    PROVE  IInv'
  <1>1. /\ step' = step /\ aborted' = aborted /\ answers' = answers /\ base' = base
        /\ ran' = ran /\ n' = n /\ cur' = cur /\ carry' = carry /\ carryMs' = carryMs
        /\ timer' = timer /\ timedOut' = timedOut \ {a}
        /\ att' \in [Sessions -> Places] /\ att'[a] = "returned"
        /\ \A b \in Sessions : b # a => att'[b] = att[b]
        /\ total' \in [Sessions -> 0..(MaxTokens + MaxUsage)] /\ total'[a] = 0
        /\ \A b \in Sessions : b # a => total'[b] = total[b]
        /\ repair' \in [Sessions -> 0..MaxRepairs] /\ verdict' \in [Sessions -> Verdicts]
        /\ BridgeTypeOK' /\ state' \in StepStates
        /\ \A b \in Sessions : Alive(b)' <=> (Alive(b) /\ b # a)
        /\ Raced(a) <=> (a = cur /\ pc = "running")
    BY ReturnedFacts
  <1>2. pc' = pc /\ outcome' = outcome /\ asked' = asked /\ queue' = q
    BY DEF Returns
  <1>3. /\ queue' \in Seq(Events) /\ Awaited' /\ SteersFirst'
        /\ aborted => queue' = <<>>
        /\ \A b \in Sessions :
              /\ b # a
              /\ \E i, j \in DOMAIN queue : i < j /\ queue[i].by = b /\ queue[j].by = Nobody
              => \E i, j \in DOMAIN queue' : i < j /\ queue'[i].by = b /\ queue'[j].by = Nobody
        /\ state \in {"completed", "blocked"} =>
              \A i \in DOMAIN queue' : queue'[i].type # "agent-steer"
    <2>1. "agent-usage" \in AttemptsTypes /\ "agent-usage" # "agent-steer"
      BY DEF AttemptsTypes
    <2>2. queue' = q \/ queue' = Emitted(q, "agent-usage", a)
      BY <1>2
    <2> QED
      BY ONLY <1>2, <2>1, <2>2, AttemptQueue, IInv, a \in Sessions, LeftBy(a, q)
  <1>4. TypeOK'
    <2>1. timedOut' \subseteq Sessions
      BY <1>1 DEF IInv, TypeOK
    <2> QED
      BY ONLY <1>1, <1>2, <1>3, <2>1, IInv, burned' = burned DEF IInv, TypeOK, Events
  <1>5. Rounds' /\ Time'
    BY <1>1, <1>2 DEF IInv, Rounds, Time, Blocking
  <1>6. Abandoned'
    <2>1. pc = "running" => cur \in Sessions /\ Alive(cur) /\ cur \notin timedOut /\ cur # a
      BY <1>1 DEF IInv, Abandoned
    <2>2. pc' = "running" => cur' \in Sessions /\ Alive(cur)' /\ cur' \notin timedOut'
      BY <1>1, <1>2, <2>1 DEF Alive
    <2>3. \A b \in Sessions : b > cur' => att'[b] = "none"
      BY <1>1 DEF IInv, Abandoned, Alive
    <2>4. \A b \in Sessions : b \in timedOut' <=> Alive(b)' /\ ~(b = cur' /\ pc' = "running")
      BY <1>1, <1>2 DEF IInv, Abandoned
    <2> QED
      BY <2>2, <2>3, <2>4 DEF Abandoned
  <1>7. Conversations'
    <2>1. /\ OneConversation'
          /\ \A b \in Sessions : att'[b] = "selecting" => step'.kind = "session"
          /\ step'.kind = "background" => \A b \in Sessions : att'[b] = "turn" <=> b \in children'
          /\ step.kind = "session" /\ inFlight = Nobody => inFlight' = Nobody
      BY <1>1, ReleasedConversation
    <2>2. ASSUME pc' = "running", att'[cur'] = "selecting" PROVE inFlight' = Nobody
      <3>1. pc = "running" /\ cur \in Sessions /\ cur # a /\ att[cur] = "selecting"
        BY <1>1, <1>2, <2>2 DEF IInv, Abandoned
      <3>2. inFlight = Nobody /\ step.kind = "session"
        BY <3>1 DEF IInv, Conversations
      <3> QED
        BY <2>1, <3>2
    <2> QED
      BY <2>1, <2>2 DEF Conversations
  <1>8. Tokens'
    <2>1. \A b \in Sessions : att'[b] # "usage" => total'[b] <= MaxTokens
      BY <1>1, StepAssumption DEF IInv, Tokens
    <2>2. Blocking' <=> Blocking
      BY <1>2 DEF Blocking
    <2>3. \A b \in Sessions : b = cur' /\ Alive(b)' => burned' <= total'[b]
      BY <1>1 DEF IInv, Tokens
    <2> QED
      BY <1>1, <1>2, <2>1, <2>2, <2>3 DEF IInv, Tokens
  <1>9. Overtaken'
    <2> SUFFICES ASSUME NEW b \in Sessions, att'[b] = "usage", b \in timedOut'
                 PROVE  /\ b = cur /\ (pc = "retrying" \/ (pc = "finishing" /\ outcome = "crashed"))
                        /\ \E i, j \in DOMAIN queue' :
                              i < j /\ queue'[i].by = b /\ queue'[j].by = Nobody
      BY <1>1, <1>2 DEF Overtaken
    <2>1. b # a /\ att[b] = "usage" /\ b \in timedOut
      BY <1>1
    <2>2. /\ b = cur /\ (pc = "retrying" \/ (pc = "finishing" /\ outcome = "crashed"))
          /\ \E i, j \in DOMAIN queue : i < j /\ queue[i].by = b /\ queue[j].by = Nobody
      BY <2>1 DEF IInv, Overtaken
    <2> QED
      BY <1>3, <2>1, <2>2
  <1>10. Cancelled'
    <2>1. aborted => \A b \in Sessions : att'[b] \notin {"usage", "error", "steer"}
      BY <1>1 DEF IInv, Cancelled
    <2> QED
      BY <1>1, <1>2, <1>3, <2>1 DEF IInv, Cancelled
  <1>11. Stands'
    BY <1>2, <1>3 DEF IInv, Stands, StateKept
  <1> QED
    BY <1>3, <1>4, <1>5, <1>6, <1>7, <1>8, <1>9, <1>10, <1>11 DEF IInv

\* The awaited attempt returns.
LEMMA AwaitedReturns ==
    ASSUME IInv, NEW a \in Sessions, Alive(a), NEW r, NEW q, Returns(a, r, q),
           Released(a), StateKept, LeftBy(a, q), Raced(a), r = "blocked" => total[a] <= MaxTokens,
           UNCHANGED <<step, aborted, answers, base, ran>>, burned' = burned
    PROVE  IInv'
  <1>1. /\ step' = step /\ aborted' = aborted /\ answers' = answers /\ base' = base
        /\ ran' = ran /\ n' = n /\ cur' = cur /\ carry' = carry /\ carryMs' = carryMs
        /\ timer' = timer /\ timedOut' = timedOut \ {a}
        /\ att' \in [Sessions -> Places] /\ att'[a] = "returned"
        /\ \A b \in Sessions : b # a => att'[b] = att[b]
        /\ total' \in [Sessions -> 0..(MaxTokens + MaxUsage)] /\ total'[a] = 0
        /\ \A b \in Sessions : b # a => total'[b] = total[b]
        /\ repair' \in [Sessions -> 0..MaxRepairs] /\ verdict' \in [Sessions -> Verdicts]
        /\ BridgeTypeOK' /\ state' \in StepStates
        /\ \A b \in Sessions : Alive(b)' <=> (Alive(b) /\ b # a)
        /\ Raced(a) <=> (a = cur /\ pc = "running")
    BY ReturnedFacts
  <1>2. a = cur /\ pc = "running"
    BY <1>1
  <1>3. /\ LoopStops(q, n)
        /\ \/ /\ pc' = "finishing" => outcome' # "blocked"
              /\ asked' = asked
           \/ /\ r = "blocked" /\ outcome' = "blocked"
              /\ asked' = [ms |-> IF step.budgeted THEN elapsedMs ELSE 0, tokens |-> total[a]]
              /\ pc' \in {"finishing", "over"}
    BY RacedStops
  <1>4. LeftOf(q) /\ \A i \in DOMAIN q : q[i].by # Nobody
    <2>1. Pending(pc, outcome) = {}
      BY <1>2 DEF Pending
    <2>2. \A i \in DOMAIN queue : queue[i].by # Nobody
      BY <2>1, NoneAwaited
    <2>3. LeftOf(q)
      BY DEF LeftBy, LeftOf
    <2> QED
      BY <2>2, <2>3, LeftFacts DEF IInv
  <1>5. /\ queue' \in Seq(Events) /\ Awaited' /\ SteersFirst' /\ (aborted => queue' = <<>>)
    BY <1>3, <1>4, StopsQueue
  <1>6. /\ pc' \in {"over", "backoff", "retrying", "finishing"}
        /\ pc' \in {"backoff", "retrying"} => n \in 1..MaxRetry
        /\ outcome' \in {"none", "ok", "blocked", "crashed", "cancelled"}
    <2>1. n \in Nat /\ n >= 1 /\ MaxRetry \in Nat
      BY <1>2, StepAssumption DEF IInv, TypeOK, Rounds
    <2> QED
      BY <1>3, <2>1 DEF LoopStops
  <1>7. /\ asked' \in [ms : 0..Budget, tokens : 0..MaxTokens]
        /\ Blocking' => /\ burned <= asked'.tokens
                        /\ step.budgeted => ran <= asked'.ms
    <2>1. CASE asked' = asked /\ (pc' = "finishing" => outcome' # "blocked")
      BY <1>6, <2>1 DEF IInv, TypeOK, Blocking
    <2>2. CASE /\ r = "blocked"
               /\ asked' = [ms |-> IF step.budgeted THEN elapsedMs ELSE 0, tokens |-> total[a]]
      <3>1. /\ Budget \in Nat /\ timer \in 0..Budget /\ carryMs \in 0..Budget /\ ran \in Nat
            /\ MaxTokens \in Nat /\ MaxUsage \in Nat /\ total[a] \in 0..(MaxTokens + MaxUsage)
            /\ burned \in Nat
        BY StepAssumption DEF IInv, TypeOK
      <3>2. consumed(n) \in 0..Budget
        BY <3>1 DEF consumed
      <3>3. elapsedMs = Budget - timer /\ elapsedMs \in 0..Budget
        BY <3>1, <3>2 DEF elapsedMs
      <3>4. total[a] \in 0..MaxTokens /\ burned <= total[a]
        BY <1>2, <2>2, <3>1 DEF IInv, Tokens
      <3>5. step.budgeted => ran <= elapsedMs
        BY <1>2, <3>1, <3>3 DEF IInv, Time
      <3> HIDE DEF elapsedMs
      <3>6. asked'.tokens = total[a] /\ (step.budgeted => asked'.ms = elapsedMs)
        BY <2>2
      <3>7. (IF step.budgeted THEN elapsedMs ELSE 0) \in 0..Budget
        BY <3>1, <3>3
      <3> QED
        BY <2>2, <3>4, <3>5, <3>6, <3>7
    <2> QED
      BY <1>3, <2>1, <2>2
  <1>8. TypeOK'
    BY <1>1, <1>5, <1>6, <1>7 DEF IInv, TypeOK, PCs, Events
  <1>9. Rounds'
    BY <1>1, <1>2, <1>6 DEF IInv, Rounds
  <1>10. Abandoned'
    <2>1. \A b \in Sessions : b > cur' => att'[b] = "none"
      BY <1>1, <1>2 DEF IInv, Abandoned, Sessions, TypeOK
    <2>2. \A b \in Sessions : b \in timedOut' <=> Alive(b)'
      BY <1>1, <1>2 DEF IInv, Abandoned
    <2> QED
      BY <1>6, <2>1, <2>2 DEF Abandoned
  <1>11. Conversations'
    <2>1. /\ OneConversation'
          /\ \A b \in Sessions : att'[b] = "selecting" => step'.kind = "session"
          /\ step'.kind = "background" => \A b \in Sessions : att'[b] = "turn" <=> b \in children'
      BY <1>1, ReleasedConversation
    <2> QED
      BY <1>6, <2>1 DEF Conversations
  <1>12. Tokens' /\ Time'
    <2>1. \A b \in Sessions : att'[b] # "usage" => total'[b] <= MaxTokens
      BY <1>1, StepAssumption DEF IInv, Tokens
    <2>2. \A b \in Sessions : b = cur' => ~Alive(b)'
      BY <1>1, <1>2
    <2> QED
      BY <1>1, <1>6, <1>7, <2>1, <2>2 DEF IInv, Tokens, Time
  <1>13. Overtaken' /\ Cancelled'
    <2>1. \A b \in Sessions : att'[b] # "usage"
      BY <1>1, <1>2, UsageIs
    <2>2. aborted => \A b \in Sessions : att'[b] \notin {"usage", "error", "steer"}
      BY <1>1 DEF IInv, Cancelled
    <2> QED
      BY <1>1, <1>5, <1>6, <2>1, <2>2 DEF Overtaken, Cancelled
  <1>14. Stands'
    <2>1. state \notin {"completed", "blocked"}
      BY <1>2 DEF IInv, Stands
    <2> QED
      BY <2>1 DEF Stands, StateKept
  <1> QED
    BY <1>5, <1>8, <1>9, <1>10, <1>11, <1>12, <1>13, <1>14 DEF IInv

LEMMA ReturnsIInv ==
    ASSUME IInv, NEW a \in Sessions, Alive(a), NEW r, NEW q, Returns(a, r, q),
           Released(a), StateKept, LeftBy(a, q), r = "blocked" => total[a] <= MaxTokens,
           UNCHANGED <<step, aborted, answers, base, ran>>, burned' = burned
    PROVE  IInv'
  <1>1. CASE Raced(a)
    BY <1>1, AwaitedReturns
  <1>2. CASE ~Raced(a)
    BY <1>2, AbandonedReturns
  <1> QED
    BY <1>1, <1>2

\* The host neither aborted the run nor asked the attempt to stop: it is the awaited one.
LEMMA NotAbortedIs ==
    ASSUME IInv, NEW a \in Sessions, Alive(a), ~SignalAborted(a)
    PROVE  a = cur /\ pc = "running" /\ a \notin timedOut /\ ~aborted
  BY DEF IInv, Abandoned, SignalAborted

LEMMA ReplyIInv ==
    ASSUME IInv, NEW a \in Sessions, att[a] = "turn", ~SignalAborted(a), Reply(a), Released(a),
           UNCHANGED <<step, aborted, state, answers, base, ran>>
    PROVE  IInv'
  <1>1. Alive(a) /\ a = cur /\ pc = "running" /\ a \notin timedOut /\ ~aborted
    BY NotAbortedIs DEF Alive
  <1>2. /\ MaxTokens \in Nat /\ MaxUsage \in Nat /\ total[a] \in 0..MaxTokens
        /\ burned \in Nat /\ burned <= total[a]
        /\ total \in [Sessions -> 0..(MaxTokens + MaxUsage)]
        /\ verdict \in [Sessions -> Verdicts] /\ att \in [Sessions -> Places]
    <2>1. MaxTokens \in Nat /\ MaxUsage \in Nat
      BY StepAssumption
    <2>2. /\ total \in [Sessions -> 0..(MaxTokens + MaxUsage)] /\ burned \in Nat
          /\ verdict \in [Sessions -> Verdicts] /\ att \in [Sessions -> Places]
      BY DEF IInv, TypeOK
    <2>3. total[a] <= MaxTokens /\ burned <= total[a]
      BY <1>1 DEF IInv, Tokens
    <2>4. total[a] \in 0..(MaxTokens + MaxUsage)
      BY <2>2
    <2>5. total[a] \in 0..MaxTokens
      BY <2>1, <2>3, <2>4
    <2> QED
      BY <2>1, <2>2, <2>3, <2>5
  <1>3. StateKept /\ LeftBy(a, queue)
    BY DEF StateKept, LeftBy, IInv, TypeOK
  <1>4. UNCHANGED <<step, aborted, loop, timedOut, asked, answers, base, ran>> /\ repair' = repair
    BY DEF Reply
  <1>5. cur' = cur /\ pc' = pc /\ step' = step
    BY <1>4 DEF loop
  <1>6. ASSUME NEW p \in {"usage", "error"}, att' = [att EXCEPT ![a] = p]
        PROVE  /\ att' \in [Sessions -> Places] /\ att'[a] = p
               /\ \A b \in Sessions : b # a => att'[b] = att[b]
               /\ BridgeTypeOK' /\ Conversations'
    <2>1. /\ att' \in [Sessions -> Places] /\ att'[a] = p
          /\ \A b \in Sessions : b # a => att'[b] = att[b]
      BY <1>2, <1>6 DEF Places
    <2>2. /\ OneConversation'
          /\ \A b \in Sessions : att'[b] = "selecting" => step'.kind = "session"
          /\ step'.kind = "background" => \A b \in Sessions : att'[b] = "turn" <=> b \in children'
      BY <1>5, <2>1, ReleasedConversation
    <2> QED
      BY <1>1, <1>5, <2>1, <2>2 DEF Conversations, Released
  <1>7. ASSUME NEW usage \in 0..MaxUsage, NEW v \in VerdictsOf(a),
               total' = [total EXCEPT ![a] = @ + usage],
               burned' = IF a = cur THEN burned + usage ELSE burned,
               verdict' = [verdict EXCEPT ![a] = v],
               att' = [att EXCEPT ![a] = "usage"],
               queue' = Emitted(queue, "agent-usage", a) \/ queue' = queue
        PROVE  IInv'
    <2>1. /\ total' \in [Sessions -> 0..(MaxTokens + MaxUsage)] /\ total'[a] = total[a] + usage
          /\ \A b \in Sessions : b # a => total'[b] = total[b]
      <3>1. total[a] + usage \in 0..(MaxTokens + MaxUsage)
        BY <1>2
      <3> QED
        BY <1>2, <1>7, <3>1
    <2>2. burned' \in Nat /\ burned' <= total'[a]
      BY <1>1, <1>2, <1>7, <2>1
    <2>3. v \in Verdicts
      BY DEF VerdictsOf, Verdicts
    <2>4. verdict' \in [Sessions -> Verdicts]
      BY <1>2, <1>7, <2>3
    <2>5. /\ att' \in [Sessions -> Places] /\ att'[a] = "usage"
          /\ \A b \in Sessions : b # a => att'[b] = att[b]
          /\ BridgeTypeOK' /\ Conversations'
      BY <1>6, <1>7
    <2>6. repair' \in [Sessions -> 0..MaxRepairs]
      BY <1>4 DEF IInv, TypeOK
    <2>7. "agent-usage" \in AttemptsTypes
      BY DEF AttemptsTypes
    <2> QED
      BY <1>1, <1>3, <1>4, <1>7, <2>1, <2>2, <2>4, <2>5, <2>6, <2>7, AttemptGoesOn
  <1>8. ASSUME NEW v \in {"retryable", "fatal"},
               verdict' = [verdict EXCEPT ![a] = v],
               att' = [att EXCEPT ![a] = "error"],
               queue' = Emitted(queue, "agent-error", a), total' = total, burned' = burned
        PROVE  IInv'
    <2>1. verdict' \in [Sessions -> Verdicts]
      BY <1>2, <1>8 DEF Verdicts
    <2>2. /\ att' \in [Sessions -> Places] /\ att'[a] = "error"
          /\ \A b \in Sessions : b # a => att'[b] = att[b]
          /\ BridgeTypeOK' /\ Conversations'
      BY <1>6, <1>8
    <2>3. repair' \in [Sessions -> 0..MaxRepairs]
      BY <1>4 DEF IInv, TypeOK
    <2>4. "agent-error" \in AttemptsTypes
      BY DEF AttemptsTypes
    <2>5. total'[a] <= MaxTokens /\ burned' <= total'[a] /\ burned' \in Nat
      BY <1>2, <1>8
    <2> QED
      BY <1>1, <1>2, <1>3, <1>4, <1>8, <2>1, <2>2, <2>3, <2>4, <2>5, AttemptGoesOn
  <1> QED
    BY <1>7, <1>8 DEF Reply

LEMMA FunctionEndsIInv ==
    ASSUME NEW a \in Sessions
    PROVE  IInv /\ FunctionEnds(a) => IInv'
  <1> SUFFICES ASSUME IInv, FunctionEnds(a) PROVE IInv'
    OBVIOUS
  <1>1. PICK r \in {"ok", Thrown(a)} : Returns(a, r, queue)
    BY DEF FunctionEnds
  <1>2. /\ step.kind = "function" /\ Alive(a) /\ r # "blocked"
        /\ UNCHANGED <<step, aborted, answers, base, ran>> /\ burned' = burned
    BY DEF FunctionEnds, Alive, Thrown, ghosts
  <1>3. Released(a)
    BY <1>2 DEF FunctionEnds, Released, bridge, IInv, TypeOK, BridgeTypeOK
  <1>4. StateKept /\ LeftBy(a, queue)
    BY DEF FunctionEnds, StateKept, LeftBy, IInv, TypeOK
  <1> QED
    BY <1>1, <1>2, <1>3, <1>4, ReturnsIInv

LEMMA TurnEndsIInv ==
    ASSUME NEW a \in Sessions
    PROVE  IInv /\ TurnEnds(a) => IInv'
  <1> SUFFICES ASSUME IInv, TurnEnds(a) PROVE IInv'
    OBVIOUS
  <1>1. /\ step.kind = "session" /\ att[a] = "turn" /\ inFlight = a /\ Alive(a)
        /\ UNCHANGED <<step, aborted, state, answers, base, ran>>
    BY DEF TurnEnds, Alive
  <1>2. /\ inFlight' = Nobody /\ claim' = claim /\ children' = children /\ leaked' = leaked
        /\ tools' \in {tools, Nobody} /\ narrowed' \subseteq narrowed
    BY DEF TurnEnds, TurnOver, Dispose
  <1>3. Released(a)
    BY <1>1, <1>2 DEF Released, IInv, TypeOK, BridgeTypeOK
  <1>4. StateKept /\ LeftBy(a, queue)
    BY <1>1 DEF StateKept, LeftBy, IInv, TypeOK
  <1>5. CASE ~SignalAborted(a) /\ Reply(a)
    BY <1>1, <1>3, <1>5, ReplyIInv
  <1>6. ASSUME NEW r \in {"cancelled", Thrown(a)}, Returns(a, r, queue), burned' = burned
        PROVE  IInv'
    <2>1. r # "blocked"
      BY <1>6 DEF Thrown
    <2> QED
      BY <1>1, <1>3, <1>4, <1>6, <2>1, ReturnsIInv
  <1> QED
    BY <1>5, <1>6 DEF TurnEnds

LEMMA ChildExitsIInv ==
    ASSUME NEW a \in Sessions
    PROVE  IInv /\ ChildExits(a) => IInv'
  <1> SUFFICES ASSUME IInv, ChildExits(a) PROVE IInv'
    OBVIOUS
  <1>1. /\ step.kind = "background" /\ att[a] = "turn" /\ Alive(a)
        /\ ChildGone(a, step.resumable)
        /\ UNCHANGED <<step, aborted, state, answers, base, ran>>
    BY DEF ChildExits, Alive
  <1>2. Released(a)
    BY <1>1 DEF Released, ChildGone, IInv, TypeOK, BridgeTypeOK
  <1>3. StateKept /\ LeftBy(a, queue)
    BY <1>1 DEF StateKept, LeftBy, IInv, TypeOK
  <1>4. CASE ~SignalAborted(a) /\ Reply(a)
    BY <1>1, <1>2, <1>4, ReplyIInv
  <1>5. CASE Returns(a, Thrown(a), queue) /\ burned' = burned
    <2>1. Thrown(a) # "blocked"
      BY DEF Thrown
    <2> QED
      BY <1>1, <1>2, <1>3, <1>5, <2>1, ReturnsIInv
  <1> QED
    BY <1>4, <1>5 DEF ChildExits

LEMMA ModelSelectedIInv ==
    ASSUME NEW a \in Sessions
    PROVE  IInv /\ ModelSelected(a) => IInv'
  <1> SUFFICES ASSUME IInv, ModelSelected(a) PROVE IInv'
    OBVIOUS
  <1>1. /\ att[a] = "selecting" /\ Alive(a) /\ step.kind = "session"
        /\ UNCHANGED <<step, aborted, state, answers, base, ran>> /\ burned' = burned
    BY DEF ModelSelected, Alive, ghosts, IInv, Conversations
  <1>2. StateKept /\ LeftBy(a, queue)
    BY <1>1 DEF StateKept, LeftBy, IInv, TypeOK
  <1>3. CASE /\ ~SignalAborted(a)
             /\ att' = [att EXCEPT ![a] = "turn"]
             /\ SendTurn(a, step.contract)
             /\ UNCHANGED <<loop, timedOut, repair, total, verdict, queue, asked>>
    <2>1. a = cur /\ pc = "running" /\ a \notin timedOut /\ ~aborted /\ inFlight = Nobody
      BY <1>1, <1>3, NotAbortedIs DEF IInv, Conversations
    <2>2. /\ att' \in [Sessions -> Places] /\ att'[a] = "turn"
          /\ \A b \in Sessions : b # a => att'[b] = att[b]
      BY <1>3 DEF IInv, TypeOK, Places
    <2>3. /\ inFlight' = a /\ claim' = claim /\ children' = children /\ leaked' = leaked
          /\ tools' \in {a, tools} /\ narrowed' \subseteq narrowed \union {a}
      BY <1>3 DEF SendTurn, Narrow
    <2>4. BridgeTypeOK'
      BY <2>3 DEF IInv, TypeOK, BridgeTypeOK
    <2>5. Conversations'
      <3>1. \A b \in Sessions : b # a => att[b] # "turn"
        BY <1>1, <2>1 DEF IInv, Conversations, OneConversation, Sessions, Nobody
      <3>2. \A b \in Sessions : att'[b] = "turn" <=> inFlight' = b
        BY <2>2, <2>3, <3>1
      <3>3. cur' = cur /\ step' = step
        BY <1>1, <1>3 DEF loop
      <3> QED
        BY <1>1, <2>1, <2>2, <3>2, <3>3 DEF IInv, Conversations, OneConversation
    <2>6. "agent-usage" \in AttemptsTypes /\ queue' = queue
      BY <1>3 DEF AttemptsTypes
    <2>7. /\ repair' \in [Sessions -> 0..MaxRepairs] /\ verdict' \in [Sessions -> Verdicts]
          /\ total' \in [Sessions -> 0..(MaxTokens + MaxUsage)] /\ burned' \in Nat
          /\ total' = total
      BY <1>1, <1>3 DEF IInv, TypeOK
    <2>8. total[a] <= MaxTokens /\ burned' <= total[a]
      BY <1>1, <2>1 DEF IInv, Tokens
    <2>9. UNCHANGED <<step, aborted, loop, timedOut, asked, answers, base, ran>>
      BY <1>1, <1>3
    <2> QED
      BY <1>1, <1>2, <2>1, <2>2, <2>4, <2>5, <2>6, <2>7, <2>8, <2>9, AttemptGoesOn
  <1>4. CASE Returns(a, "cancelled", queue) /\ SendRefusedByAbort(a, step.contract)
    <2>1. Released(a)
      BY <1>1, <1>4 DEF SendRefusedByAbort, Released, IInv, TypeOK, BridgeTypeOK
    <2> QED
      BY <1>1, <1>2, <1>4, <2>1, ReturnsIInv
  <1>5. CASE Returns(a, Thrown(a), queue) /\ Dispose(a) /\ UNCHANGED <<inFlight, claim, children, leaked>>
    <2>1. Released(a)
      BY <1>1, <1>5 DEF Dispose, Released, IInv, TypeOK, BridgeTypeOK
    <2>2. Thrown(a) # "blocked"
      BY DEF Thrown
    <2> QED
      BY <1>1, <1>2, <1>5, <2>1, <2>2, ReturnsIInv
  <1> QED
    BY <1>3, <1>4, <1>5 DEF ModelSelected

\* A session that is over and waits for no reply holds nothing in flight.
LEMMA DisposeReleases ==
    ASSUME IInv, NEW a \in Sessions, att[a] # "turn", step' = step, Dispose(a),
           UNCHANGED <<inFlight, claim, children, leaked>>
    PROVE  Released(a)
  BY DEF Dispose, Released, IInv, TypeOK, BridgeTypeOK

LEMMA SessionReturnsIInv ==
    ASSUME IInv, NEW a \in Sessions, att[a] \in {"usage", "steer", "error"},
           NEW type \in AttemptsTypes, EmitOver(type, a),
           NEW r, SessionReturns(a, r, Rest(a)), r = "blocked" => total[a] <= MaxTokens,
           UNCHANGED <<step, aborted, answers, base, ghosts>>
    PROVE  IInv'
  <1>1. Alive(a) /\ att[a] # "turn"
    BY DEF Alive
  <1>2. StateKept /\ LeftBy(a, Rest(a))
    BY EmitOverFacts
  <1>3. /\ Returns(a, r, Rest(a)) /\ Dispose(a)
        /\ UNCHANGED <<inFlight, claim, children, leaked>>
    BY DEF SessionReturns
  <1>4. Released(a)
    BY <1>1, <1>3, DisposeReleases
  <1>5. UNCHANGED <<step, aborted, answers, base, ran>> /\ burned' = burned
    BY DEF ghosts
  <1> QED
    BY <1>1, <1>2, <1>3, <1>4, <1>5, ReturnsIInv

LEMMA UsageBilledIInv ==
    ASSUME NEW a \in Sessions
    PROVE  IInv /\ UsageBilled(a) => IInv'
  <1> SUFFICES ASSUME IInv, UsageBilled(a) PROVE IInv'
    OBVIOUS
  <1>1. /\ att[a] = "usage" /\ Alive(a) /\ EmitOver("agent-usage", a)
        /\ "agent-usage" \in AttemptsTypes /\ "agent-steer" \in AttemptsTypes
        /\ UNCHANGED <<step, aborted, answers, base, ghosts>>
    BY DEF UsageBilled, Alive, AttemptsTypes
  <1>2. ASSUME NEW r \in {"ok", "blocked", "retryable"}, SessionReturns(a, r, Rest(a)),
               r = "blocked" => total[a] <= MaxTokens
        PROVE  IInv'
    BY <1>1, <1>2, SessionReturnsIInv
  <1>3. CASE /\ total[a] <= MaxTokens /\ repair[a] < MaxRepairs
             /\ queue' = Emitted(Rest(a), "agent-steer", a)
             /\ att' = [att EXCEPT ![a] = "steer"]
             /\ repair' = [repair EXCEPT ![a] = @ + 1]
             /\ UNCHANGED <<loop, timedOut, total, verdict, asked, bridge>>
    <2>1. /\ a = cur /\ ~aborted
          /\ pc \in {"running", "retrying"} \/ (pc = "finishing" /\ outcome = "crashed")
      BY <1>1, UsageIs
    <2>2. StateKept /\ LeftBy(a, Rest(a))
      BY <1>1, EmitOverFacts
    <2>3. MaxRepairs \in Nat /\ repair \in [Sessions -> 0..MaxRepairs] /\ att \in [Sessions -> Places]
      BY StepAssumption DEF IInv, TypeOK
    <2>4. /\ att' \in [Sessions -> Places] /\ att'[a] = "steer"
          /\ \A b \in Sessions : b # a => att'[b] = att[b]
      BY <1>3, <2>3 DEF Places
    <2>5. repair' \in [Sessions -> 0..MaxRepairs]
      <3>1. repair[a] + 1 \in 0..MaxRepairs
        BY <1>3, <2>3
      <3> QED
        BY <1>3, <2>3, <3>1
    <2>6. /\ verdict' \in [Sessions -> Verdicts] /\ total' \in [Sessions -> 0..(MaxTokens + MaxUsage)]
          /\ burned' \in Nat /\ total' = total /\ burned' = burned
      BY <1>1, <1>3 DEF ghosts, IInv, TypeOK
    <2>7. burned <= total[a]
      BY <1>1, <2>1 DEF IInv, Tokens
    <2>8. /\ inFlight' = inFlight /\ claim' = claim /\ children' = children /\ leaked' = leaked /\ tools' = tools
          /\ narrowed' = narrowed /\ cur' = cur /\ pc' = pc /\ step' = step
      BY <1>1, <1>3 DEF bridge, loop
    <2>9. BridgeTypeOK'
      BY <2>8 DEF IInv, TypeOK, BridgeTypeOK
    <2>10. Conversations'
      <3>1. \A b \in Sessions : (att'[b] = "turn" <=> att[b] = "turn")
                                 /\ (att'[b] = "selecting" <=> att[b] = "selecting")
        BY <1>1, <2>4
      <3>2. OneConversation'
        BY <2>8, <3>1 DEF IInv, Conversations, OneConversation
      <3> QED
        BY <2>1, <2>8, <3>1, <3>2 DEF IInv, Conversations
    <2>11. UNCHANGED <<step, aborted, loop, timedOut, asked, answers, base, ran>>
      BY <1>1, <1>3 DEF ghosts
    <2> QED
      BY <1>1, <1>3, <2>1, <2>2, <2>4, <2>5, <2>6, <2>7, <2>9, <2>10, <2>11, AttemptGoesOn
  <1> QED
    BY <1>2, <1>3 DEF UsageBilled

LEMMA SteeredIInv ==
    ASSUME NEW a \in Sessions
    PROVE  IInv /\ Steered(a) => IInv'
  <1> SUFFICES ASSUME IInv, Steered(a) PROVE IInv'
    OBVIOUS
  <1>1. /\ att[a] = "steer" /\ Alive(a) /\ EmitOver("agent-steer", a)
        /\ "agent-steer" \in AttemptsTypes /\ "agent-usage" \in AttemptsTypes
        /\ UNCHANGED <<step, aborted, answers, base, ghosts>>
    BY DEF Steered, Alive, AttemptsTypes
  <1>2. ASSUME NEW r \in {"cancelled", "retryable"}, SessionReturns(a, r, Rest(a))
        PROVE  IInv'
    BY <1>1, <1>2, SessionReturnsIInv
  <1>3. CASE /\ ~SignalAborted(a) /\ Sends(a)
             /\ queue' = Rest(a)
             /\ UNCHANGED <<loop, timedOut, repair, total, verdict, asked>>
    <2>1. a = cur /\ pc = "running" /\ a \notin timedOut /\ ~aborted
      BY <1>1, <1>3, NotAbortedIs
    <2>2. StateKept /\ LeftBy(a, Rest(a))
      BY <1>1, EmitOverFacts
    <2>3. cur' = cur /\ pc' = pc /\ step' = step
      BY <1>1, <1>3 DEF loop
    <2>4. /\ \A b \in Sessions : b # a => att'[b] = att[b]
          /\ att' \in [Sessions -> Places] /\ att'[a] \in {"turn", "selecting"}
          /\ BridgeTypeOK' /\ OneConversation'
          /\ \A b \in Sessions : att'[b] = "selecting" => step'.kind = "session"
          /\ att'[a] = "selecting" => inFlight' = Nobody
          /\ step'.kind = "background" => \A b \in Sessions : att'[b] = "turn" <=> b \in children'
      BY <1>1, <1>3, <2>3, SendsFacts DEF IInv, Conversations
    <2>5. Conversations'
      BY <2>1, <2>3, <2>4 DEF Conversations
    <2>6. /\ repair' \in [Sessions -> 0..MaxRepairs] /\ verdict' \in [Sessions -> Verdicts]
          /\ total' \in [Sessions -> 0..(MaxTokens + MaxUsage)] /\ burned' \in Nat
          /\ total' = total /\ burned' = burned
      BY <1>1, <1>3 DEF ghosts, IInv, TypeOK
    <2>7. total[a] <= MaxTokens /\ burned <= total[a]
      BY <1>1, <2>1 DEF IInv, Tokens
    <2>8. UNCHANGED <<step, aborted, loop, timedOut, asked, answers, base, ran>>
      BY <1>1, <1>3 DEF ghosts
    <2>9. queue' = Rest(a) /\ "agent-usage" # "agent-steer"
      BY <1>3
    <2> QED
      BY <1>1, <2>1, <2>2, <2>4, <2>5, <2>6, <2>7, <2>8, <2>9, AttemptGoesOn
  <1>4. CASE ~SignalAborted(a) /\ SendThrows(a) /\ Returns(a, "retryable", Rest(a))
    <2>1. StateKept /\ LeftBy(a, Rest(a))
      BY <1>1, EmitOverFacts
    <2>2. Released(a)
      BY <1>1, <1>4 DEF SendThrows, ThrowBeforeSpawn, Claimed, Released, IInv, TypeOK, BridgeTypeOK
    <2>3. UNCHANGED <<step, aborted, answers, base, ran>> /\ burned' = burned
      BY <1>1 DEF ghosts
    <2> QED
      BY <1>1, <1>4, <2>1, <2>2, <2>3, ReturnsIInv
  <1> QED
    BY <1>2, <1>3, <1>4 DEF Steered

LEMMA ErrorRecordedIInv ==
    ASSUME NEW a \in Sessions
    PROVE  IInv /\ ErrorRecorded(a) => IInv'
  <1> SUFFICES ASSUME IInv, ErrorRecorded(a) PROVE IInv'
    OBVIOUS
  <1>1. /\ att[a] = "error" /\ EmitOver("agent-error", a) /\ "agent-error" \in AttemptsTypes
        /\ UNCHANGED <<step, aborted, answers, base, ghosts>>
        /\ SessionReturns(a, verdict[a], Rest(a))
    BY DEF ErrorRecorded, AttemptsTypes
  <1>2. verdict[a] # "blocked"
    BY DEF IInv, TypeOK, Verdicts
  <1> QED
    BY <1>1, <1>2, SessionReturnsIInv

-----------------------------------------------------------------------------
(* The theorems.                                                            *)

LEMMA InitInv == Init => IInv
  <1> SUFFICES ASSUME Init PROVE IInv
    OBVIOUS
  <1>1. 0 \notin Sessions /\ Sessions = 1..MaxSessions /\ Nobody = 0
    BY DEF Sessions, Nobody
  <1>2. /\ MaxRetry \in Nat /\ MaxSessions \in Nat /\ MaxTokens \in Nat /\ Budget \in Nat
        /\ MaxRepairs \in Nat /\ MaxUsage \in Nat /\ MaxAnswers \in Nat /\ MaxTokens + MaxUsage \in Nat
    BY StepAssumption
  <1>3. /\ queue = <<Event("step-started", Nobody)>> /\ queue \in Seq(Events)
        /\ DOMAIN queue = {1} /\ queue[1].by = 0 /\ queue[1].type = "step-started"
    BY <1>1, <1>2 DEF Init, Event, Events, Kinds
  <1>4. TypeOK
    <2>1. /\ att \in [Sessions -> Places] /\ verdict \in [Sessions -> Verdicts]
          /\ repair \in [Sessions -> 0..MaxRepairs]
          /\ total \in [Sessions -> 0..(MaxTokens + MaxUsage)]
      <3>1. 0 \in 0..MaxRepairs /\ 0 \in 0..(MaxTokens + MaxUsage)
        BY <1>2
      <3> QED
        BY <3>1 DEF Init, Places, Verdicts
    <2>2. asked \in [ms : 0..Budget, tokens : 0..MaxTokens]
      BY <1>2 DEF Init
    <2>3. BridgeTypeOK
      BY <1>1 DEF Init, BridgeInit, BridgeTypeOK
    <2>4. /\ step \in Steps /\ aborted \in BOOLEAN /\ pc \in PCs /\ n \in 0..(MaxRetry + 1)
          /\ cur \in 0..MaxSessions /\ carry \in 0..MaxTokens /\ carryMs \in 0..Budget
          /\ timer \in 0..Budget /\ outcome = "none" /\ timedOut = {} /\ state \in StepStates
          /\ answers \in 0..MaxAnswers /\ base \in 0..MaxSessions /\ ran \in Nat /\ burned \in Nat
      <3>1. /\ 0 \in 0..(MaxRetry + 1) /\ 0 \in 0..MaxSessions /\ 0 \in 0..MaxTokens
            /\ 0 \in 0..Budget /\ 0 \in 0..MaxAnswers /\ 0 \in Nat
        BY <1>2
      <3> QED
        BY ONLY <3>1, Init DEF Init, PCs, StepStates
    <2> QED
      BY <1>3, <2>1, <2>2, <2>3, <2>4 DEF TypeOK, Events
  <1>5. Rounds
    <2>1. 0 * (MaxRetry + 1) = 0
      BY <1>2
    <2> QED
      BY <2>1 DEF Init, Rounds
  <1>6. Abandoned
    BY <1>1 DEF Init, Abandoned, Alive
  <1>7. Conversations
    BY <1>1 DEF Init, BridgeInit, Conversations, OneConversation
  <1>8. Tokens /\ Time
    BY <1>1, <1>2 DEF Init, Tokens, Time, Blocking, Alive
  <1>9. Awaited
    BY <1>1, <1>3 DEF Init, Awaited, Pending
  <1>10. Overtaken /\ Cancelled /\ SteersFirst /\ Stands
    BY <1>1, <1>3 DEF Init, Overtaken, Cancelled, SteersFirst, Stands
  <1> QED
    BY <1>4, <1>5, <1>6, <1>7, <1>8, <1>9, <1>10 DEF IInv

\* Every step of the loop, of an attempt, of the user keeps the invariant.
LEMMA NextInv == IInv /\ [Next]_vars => IInv'
  <1> SUFFICES ASSUME IInv, [Next]_vars PROVE IInv'
    OBVIOUS
  <1>1. CASE EmitStep
    BY <1>1, UsageBilledIInv, SteeredIInv, ErrorRecordedIInv DEF EmitStep
  <1>2. CASE Quiet /\ LoopStep
    BY <1>2, CallBeginsIInv, RetryWrittenIInv, BackoffOverIInv, TimeoutIInv, TickIInv,
       OutcomeWrittenIInv, RunCompletesIInv, RunCompletedIInv DEF LoopStep
  <1>3. CASE TurnStep
    BY <1>3, FunctionEndsIInv, ModelSelectedIInv, TurnEndsIInv, ChildExitsIInv DEF TurnStep
  <1>4. CASE Quiet /\ (Answer \/ Cancel)
    BY <1>4, AnswerIInv, CancelIInv
  <1>5. CASE UNCHANGED vars
    <2>1. /\ step' = step /\ aborted' = aborted /\ pc' = pc /\ n' = n /\ cur' = cur
          /\ carry' = carry /\ carryMs' = carryMs /\ timer' = timer /\ outcome' = outcome
          /\ att' = att /\ timedOut' = timedOut /\ repair' = repair /\ total' = total
          /\ verdict' = verdict /\ queue' = queue /\ state' = state /\ asked' = asked
          /\ answers' = answers /\ base' = base /\ ran' = ran /\ burned' = burned
          /\ inFlight' = inFlight /\ tools' = tools /\ narrowed' = narrowed
          /\ claim' = claim /\ children' = children /\ leaked' = leaked
      BY <1>5 DEF vars, loop, attempts, log, ghosts, bridge
    <2>2. TypeOK' /\ Rounds' /\ Abandoned'
      <3>1. TypeOK'
        BY ONLY <2>1, IInv DEF IInv, TypeOK, BridgeTypeOK
      <3>2. Rounds'
        BY ONLY <2>1, IInv DEF IInv, Rounds
      <3>3. Abandoned'
        BY ONLY <2>1, IInv DEF IInv, Abandoned, Alive
      <3> QED
        BY <3>1, <3>2, <3>3
    <2>3. Conversations' /\ Tokens' /\ Time'
      BY <2>1 DEF IInv, Conversations, OneConversation, Tokens, Time, Alive, Blocking
    <2>4. Awaited' /\ Overtaken'
      BY <2>1 DEF IInv, Awaited, Overtaken
    <2>5. Cancelled' /\ SteersFirst' /\ Stands'
      BY <2>1 DEF IInv, Cancelled, SteersFirst, Stands
    <2> QED
      BY <2>2, <2>3, <2>4, <2>5 DEF IInv
  <1> QED
    BY <1>1, <1>2, <1>3, <1>4, <1>5 DEF Next

LEMMA Inductive == Spec => []IInv
  BY InitInv, NextInv, PTL DEF Spec

\* Every variable keeps its type: no attempt is started beyond those the retries and the
\* answers allow, and no total exceeds the token budget by more than one turn's usage.
THEOREM TypeCorrect == Spec => []TypeOK
  <1>1. IInv => TypeOK
    BY DEF IInv
  <1> QED
    BY <1>1, Inductive, PTL

\* A session that waits for a turn is the one the harness runs it for, and a resumable
\* subagent that runs is the one writer of its session file, over timeouts and retries
\* (sendAndAwaitEnd's guard, claimResumeFile): for any number of attempts.  The file stays
\* claimed after its child only when it never had one: a session threw after it claimed.
THEOREM ConversationsExclude == Spec => []OneConversation
  <1>1. IInv => OneConversation
    BY DEF IInv, Conversations
  <1> QED
    BY <1>1, Inductive, PTL

\* An attempt never runs longer than its time budget nor sends once it is over its token
\* budget, its blocks included (withTimeBudget's consumedMs, runAgentStep's carry): for any
\* budgets and any number of answers.
THEOREM BudgetsHold == Spec => []BudgetsSpanBlocks
  <1>1. IInv => BudgetsSpanBlocks
    <2> SUFFICES ASSUME IInv PROVE BudgetsSpanBlocks
      OBVIOUS
    <2>1. step.budgeted => ran <= Budget
      BY DEF IInv, Time
    <2>2. ASSUME pc = "running", att[cur] \in {"turn", "selecting", "steer"}
          PROVE  burned <= MaxTokens
      <3>1. cur \in Sessions /\ Alive(cur)
        BY <2>2 DEF IInv, Abandoned
      <3>2. burned <= total[cur] /\ total[cur] <= MaxTokens
        BY <2>2, <3>1 DEF IInv, Tokens
      <3>3. MaxTokens \in Nat /\ MaxTokens + MaxUsage \in Nat
        BY StepAssumption
      <3>4. burned \in Nat /\ total[cur] \in 0..(MaxTokens + MaxUsage)
        BY <3>1 DEF IInv, TypeOK
      <3> QED
        BY <3>2, <3>3, <3>4
    <2> QED
      BY <2>1, <2>2 DEF BudgetsSpanBlocks
  <1> QED
    BY <1>1, Inductive, PTL

\* No step moves a completed step's state, nor a blocked one's but to record its answers.
StandsStep ==
    /\ state = "completed" => state' = "completed"
    /\ state = "blocked" => state' = "blocked" \/ Head(queue).type = "answers-provided"

LEMMA EmitStands == IInv /\ EmitStep => StandsStep
  <1> SUFFICES ASSUME IInv, NEW a \in Sessions,
                      UsageBilled(a) \/ Steered(a) \/ ErrorRecorded(a)
               PROVE  StandsStep
    BY DEF EmitStep
  <1>1. PICK type \in AttemptsTypes : EmitOver(type, a)
    BY DEF UsageBilled, Steered, ErrorRecorded, AttemptsTypes
  <1>2. StateKept
    BY <1>1, EmitOverFacts
  <1> QED
    BY <1>2 DEF StateKept, StandsStep

LEMMA LoopStands == IInv /\ LoopStep => StandsStep
  <1> SUFFICES ASSUME IInv, LoopStep PROVE StandsStep
    OBVIOUS
  <1>1. /\ state = "completed" => pc \in {"walking", "ending", "over"}
        /\ state = "blocked" => pc \in {"blocked", "answering"}
    BY DEF IInv, Stands
  <1>2. CASE CallBegins
    <2>1. state = "blocked" => Head(queue) = Event("answers-provided", Nobody)
      BY <1>1, <1>2 DEF CallBegins, Written
    <2>2. state # "completed"
      BY <1>1, <1>2 DEF CallBegins
    <2> QED
      BY <2>1, <2>2 DEF StandsStep, Event
  <1>3. CASE RetryWritten
    BY <1>1, <1>3 DEF RetryWritten, StandsStep
  <1>4. CASE OutcomeWritten
    BY <1>1, <1>4 DEF OutcomeWritten, StandsStep
  <1>5. CASE RunCompleted
    BY <1>1, <1>5 DEF RunCompleted, Written, Derived, StandsStep
  <1>6. CASE BackoffOver \/ Timeout \/ Tick \/ RunCompletes
    BY <1>6 DEF BackoffOver, Timeout, Tick, RunCompletes, log, StandsStep
  <1> QED
    BY <1>2, <1>3, <1>4, <1>5, <1>6 DEF LoopStep

LEMMA CancelStands == IInv /\ Cancel => StandsStep
  <1> SUFFICES ASSUME IInv, Cancel, state = "blocked" PROVE FALSE
    BY DEF Cancel, StandsStep
  <1>1. pc = "answering" /\ queue = <<>>
    BY DEF Cancel, IInv, Stands
  <1>2. \E i \in DOMAIN queue : queue[i].by = Nobody
    BY <1>1 DEF IInv, Awaited, Pending
  <1> QED
    BY <1>1, <1>2

\* A completed step stays completed and a question stays open until it is answered,
\* whatever the attempts abandoned before it still emit: retryScheduled waits for its
\* event and appends are in order, so no correction of theirs comes after it.
THEOREM CheckpointsStand == Spec => CompletedOrBlockedStands
  <1>1. ASSUME IInv, [Next]_vars PROVE [StandsStep]_vars
    <2>1. CASE EmitStep
      BY <1>1, <2>1, EmitStands
    <2>2. CASE LoopStep
      BY <1>1, <2>2, LoopStands
    <2>3. CASE TurnStep \/ Answer
      BY <2>3 DEF TurnStep, FunctionEnds, ModelSelected, TurnEnds, ChildExits, Answer, StandsStep
    <2>4. CASE Cancel
      BY <1>1, <2>4, CancelStands
    <2> QED
      BY <1>1, <2>1, <2>2, <2>3, <2>4 DEF Next
  <1>2. []IInv /\ [][Next]_vars => [][StandsStep]_vars
    BY <1>1, PTL
  <1> QED
    BY <1>2, Inductive, PTL DEF Spec, CompletedOrBlockedStands, StandsStep
=============================================================================
