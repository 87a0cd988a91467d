---------------------------- MODULE ActiveRunProofs ----------------------------
(***************************************************************************)
(* Proofs about ActiveRun, for any set of cancellers, any number of events *)
(* and any number of failing appends.                                      *)
(*                                                                         *)
(* NothingFollowsCancellation and the refinement of CancelDecision are not *)
(* inductive: both need to know what the process-local state says about    *)
(* the queue, about the waiting cancellers and about runTracked.  IInv     *)
(* adds those facts.                                                       *)
(* ReportMatchesLog needs more: Reported says where the engine's terminal  *)
(* event is when its outcome is reported, and what settled the report.     *)
(***************************************************************************)
EXTENDS ActiveRun, TLAPS

Waiting == {"waiting-first", "waiting-shared"}

\* The promise exists exactly while a cancellation is being, or has been, persisted.
PromiseMatchesState ==
    cancellation = "set" <=> state \in {"persisting-cancellation", "cancelled"}

\* A cancellation in the queue is the one being persisted.
QueuedMatchesState ==
    \A i \in DOMAIN stream :
        stream[i].type = "command-cancelled" =>
            /\ stream[i].st # "failed" => cancellation = "set"
            /\ stream[i].st = "queued" => state = "persisting-cancellation"

\* Cancellers wait only for a cancellation being persisted, and one of them began it.
WaitersMatchState ==
    /\ \A c \in Callers : caller[c] \in Waiting => state = "persisting-cancellation"
    /\ \A c, d \in Callers :
          caller[c] = "waiting-first" /\ caller[d] = "waiting-first" => c = d

\* The walker awaits an append in these phases only.
AwaitingMatchesPhase ==
    awaiting # 0 => phase \in {"opening", "describing", "emitting", "closing"}

\* runTracked has reported nothing before it settles, and an execution that is in its
\* finally block without having settled has thrown.
ReportMatchesPhase ==
    /\ phase \in {"closing", "returned", "awaiting-cancellation"} => outcome \in Outcomes
    /\ phase \notin {"finally", "finally-waiting", "done"} => effective = NoStatus
    /\ phase \notin {"finally", "done"} => state # "settling"
    /\ phase \in {"finally", "finally-waiting"} =>
          \/ effective = "rejected"
          \/ phase = "finally" /\ state \in {"settling", "cancelled"}

IInv ==
    /\ TypeOK
    /\ NothingFollowsCancellation
    /\ FlushedBeforeAbort
    /\ PromiseMatchesState
    /\ QueuedMatchesState
    /\ WaitersMatchState
    /\ AwaitingMatchesPhase
    /\ ReportMatchesPhase

-----------------------------------------------------------------------------
(* The queue: what one more entry leaves unchanged.                         *)

LEMMA AppendEntry ==
    ASSUME NEW s \in Seq(Entries), NEW e \in Entries
    PROVE  /\ Append(s, e) \in Seq(Entries)
           /\ Len(Append(s, e)) = Len(s) + 1
           /\ DOMAIN Append(s, e) = DOMAIN s \union {Len(s) + 1}
           /\ \A i \in DOMAIN s : Append(s, e)[i] = s[i]
           /\ Append(s, e)[Len(s) + 1] = e
  OBVIOUS

-----------------------------------------------------------------------------
LEMMA InitIInv == Init => IInv
  <1> SUFFICES ASSUME Init PROVE IInv
    OBVIOUS
  <1>1. TypeOK
    <2>1. [type |-> "run-execution-started", st |-> "queued"] \in Entries
      BY DEF Entries, EventTypes
    <2>2. stream \in Seq(Entries) /\ Len(stream) = 1
      BY <2>1 DEF Init
    <2>3. caller \in [Callers -> CallerStates]
      BY DEF Init, CallerStates
    <2>4. awaiting \in 0..Len(stream)
      BY <2>2 DEF Init
    <2>5. /\ state \in States /\ cancellation \in {"none", "set"} /\ aborted \in BOOLEAN
          /\ phase \in Phases /\ outcome = NoStatus /\ effective = NoStatus
          /\ registered \in BOOLEAN /\ emits \in Nat /\ dropped = {}
      BY DEF Init, States, Phases
    <2> QED
      BY <2>2, <2>3, <2>4, <2>5 DEF TypeOK
  <1>2. NothingFollowsCancellation
    BY DEF Init, NothingFollowsCancellation
  <1>3. FlushedBeforeAbort /\ PromiseMatchesState /\ QueuedMatchesState
    BY DEF Init, FlushedBeforeAbort, PromiseMatchesState, QueuedMatchesState
  <1>4. WaitersMatchState /\ AwaitingMatchesPhase /\ ReportMatchesPhase
    BY DEF Init, WaitersMatchState, AwaitingMatchesPhase, ReportMatchesPhase, Waiting
  <1> QED
    BY <1>1, <1>2, <1>3, <1>4 DEF IInv

\* What one more entry does to the queue's part of the invariant.
LEMMA QueuedKeeps ==
    ASSUME IInv, NEW t \in EventTypes, stream' = Queued(t),
           aborted' = aborted, state' = state, cancellation' = cancellation,
           t # "command-cancelled", t = "run-meta" \/ state = "running"
    PROVE  /\ stream' \in Seq(Entries)
           /\ NothingFollowsCancellation'
           /\ FlushedBeforeAbort'
           /\ QueuedMatchesState'
  <1> DEFINE e == [type |-> t, st |-> "queued"]
  <1>1. e \in Entries /\ stream \in Seq(Entries)
    BY DEF Entries, IInv, TypeOK
  <1>2. /\ stream' \in Seq(Entries)
        /\ Len(stream') = Len(stream) + 1
        /\ DOMAIN stream' = DOMAIN stream \union {Len(stream) + 1}
        /\ \A i \in DOMAIN stream : stream'[i] = stream[i]
        /\ stream'[Len(stream) + 1] = e
    BY <1>1, AppendEntry DEF Queued
  <1>3. t = "run-meta" \/ \A i \in DOMAIN stream :
            stream[i].type = "command-cancelled" => stream[i].st = "failed"
    BY DEF IInv, QueuedMatchesState, PromiseMatchesState
  <1>4. NothingFollowsCancellation'
    BY <1>1, <1>2, <1>3 DEF IInv, NothingFollowsCancellation
  <1>5. FlushedBeforeAbort'
    <2> SUFFICES ASSUME aborted
                 PROVE  \E i \in Durable("command-cancelled")' :
                            \A j \in 1..i : stream'[j].st # "queued"
      BY DEF FlushedBeforeAbort
    <2>1. PICK i \in Durable("command-cancelled") :
              \A j \in 1..i : stream[j].st # "queued"
      BY DEF IInv, FlushedBeforeAbort
    <2>2. i \in DOMAIN stream /\ \A j \in 1..i : j \in DOMAIN stream
      BY <1>1, <2>1 DEF Durable
    <2>3. i \in Durable("command-cancelled")'
      BY <1>2, <2>1, <2>2 DEF Durable
    <2> QED
      BY <1>2, <2>1, <2>2, <2>3
  <1>6. QueuedMatchesState'
    BY <1>1, <1>2 DEF IInv, QueuedMatchesState
  <1> QED
    BY <1>2, <1>4, <1>5, <1>6

LEMMA EnterEngineIInv == IInv /\ EnterEngine => IInv'
  <1> SUFFICES ASSUME IInv, EnterEngine PROVE IInv'
    OBVIOUS
  <1>1. CASE Fresh
    <2>1. stream' = Queued("run-meta") /\ Len(stream') = Len(stream) + 1
      BY <1>1 DEF EnterEngine, Queued, IInv, TypeOK
    <2>2. /\ stream' \in Seq(Entries) /\ NothingFollowsCancellation'
          /\ FlushedBeforeAbort' /\ QueuedMatchesState'
      BY <2>1, QueuedKeeps DEF EnterEngine, EventTypes
    <2> QED
      BY <1>1, <2>1, <2>2 DEF IInv, EnterEngine, TypeOK, Phases, PromiseMatchesState,
         WaitersMatchState, AwaitingMatchesPhase, ReportMatchesPhase
  <1>2. CASE ~Fresh
    BY <1>2 DEF IInv, EnterEngine, TypeOK, Phases, NothingFollowsCancellation,
       FlushedBeforeAbort, Durable, QueuedMatchesState, PromiseMatchesState,
       WaitersMatchState, AwaitingMatchesPhase, ReportMatchesPhase
  <1> QED
    BY <1>1, <1>2

\* Actions that neither touch the queue nor reopen the run.
LEMMA QueueStable ==
    ASSUME IInv, stream' = stream, aborted' = aborted, cancellation' = cancellation,
           state' = state \/ state \in {"running", "settling"}
    PROVE  NothingFollowsCancellation' /\ FlushedBeforeAbort' /\ QueuedMatchesState'
  BY DEF IInv, NothingFollowsCancellation, FlushedBeforeAbort, Durable,
         QueuedMatchesState, PromiseMatchesState

LEMMA EmitStepEventIInv == IInv /\ EmitStepEvent => IInv'
  <1> SUFFICES ASSUME IInv, EmitStepEvent PROVE IInv'
    OBVIOUS
  <1>1. CASE acceptsEvents
    <2>1. stream' = Queued("step-event") \/ stream' = stream
      BY DEF EmitStepEvent
    <2>2. CASE stream' = Queued("step-event") /\ phase' = "emitting"
      <3>1. Len(stream') = Len(stream) + 1
        BY <2>2 DEF Queued, IInv, TypeOK
      <3>2. /\ stream' \in Seq(Entries) /\ NothingFollowsCancellation'
            /\ FlushedBeforeAbort' /\ QueuedMatchesState'
        BY <1>1, <2>2, QueuedKeeps DEF EmitStepEvent, EventTypes, acceptsEvents
      <3> QED
        BY <1>1, <2>2, <3>1, <3>2 DEF IInv, EmitStepEvent, acceptsEvents, TypeOK, Phases,
           PromiseMatchesState, WaitersMatchState, AwaitingMatchesPhase, ReportMatchesPhase
    <2> QED
      BY <1>1, <2>2 DEF EmitStepEvent
  <1>2. CASE ~acceptsEvents
    <2>1. NothingFollowsCancellation' /\ FlushedBeforeAbort' /\ QueuedMatchesState'
      BY <1>2, QueueStable DEF EmitStepEvent
    <2>2. dropped' \subseteq dropped \union EventTypes
      BY <1>2 DEF EmitStepEvent, EventTypes
    <2>3. TypeOK'
      BY <1>2, <2>2 DEF IInv, EmitStepEvent, TypeOK
    <2> QED
      BY <1>2, <2>1, <2>3 DEF IInv, EmitStepEvent, PromiseMatchesState,
         WaitersMatchState, AwaitingMatchesPhase, ReportMatchesPhase
  <1> QED
    BY <1>1, <1>2

LEMMA EmitBackgroundEventIInv == IInv /\ EmitBackgroundEvent => IInv'
  <1> SUFFICES ASSUME IInv, EmitBackgroundEvent PROVE IInv'
    OBVIOUS
  <1>1. CASE acceptsEvents
    <2>1. stream' = Queued("background-event") /\ Len(stream') = Len(stream) + 1
      BY <1>1 DEF EmitBackgroundEvent, Queued, IInv, TypeOK
    <2>2. /\ stream' \in Seq(Entries) /\ NothingFollowsCancellation'
          /\ FlushedBeforeAbort' /\ QueuedMatchesState'
      BY <1>1, <2>1, QueuedKeeps DEF EmitBackgroundEvent, EventTypes, acceptsEvents
    <2> QED
      BY <1>1, <2>1, <2>2 DEF IInv, EmitBackgroundEvent, acceptsEvents, TypeOK,
         PromiseMatchesState, WaitersMatchState, AwaitingMatchesPhase, ReportMatchesPhase
  <1>2. CASE ~acceptsEvents
    <2>1. NothingFollowsCancellation' /\ FlushedBeforeAbort' /\ QueuedMatchesState'
      BY <1>2, QueueStable DEF EmitBackgroundEvent
    <2>2. dropped' \subseteq dropped \union EventTypes
      BY <1>2 DEF EmitBackgroundEvent, EventTypes
    <2>3. TypeOK'
      BY <1>2, <2>2 DEF IInv, EmitBackgroundEvent, TypeOK
    <2> QED
      BY <1>2, <2>1, <2>3 DEF IInv, EmitBackgroundEvent, PromiseMatchesState,
         WaitersMatchState, AwaitingMatchesPhase, ReportMatchesPhase
  <1> QED
    BY <1>1, <1>2

LEMMA EngineReturnsIInv == ASSUME NEW o \in Outcomes
                           PROVE  IInv /\ EngineReturns(o) => IInv'
  <1> SUFFICES ASSUME IInv, EngineReturns(o) PROVE IInv'
    OBVIOUS
  <1>1. o # "blocked" => TerminalEvent[o] \in EventTypes \ {"command-cancelled", "run-meta"}
    BY DEF Outcomes, TerminalEvent, EventTypes
  <1>2. CASE o # "blocked" /\ acceptsEvents
    <2>1. stream' = Queued(TerminalEvent[o]) /\ Len(stream') = Len(stream) + 1
      BY <1>2 DEF EngineReturns, Queued, IInv, TypeOK
    <2>2. /\ stream' \in Seq(Entries) /\ NothingFollowsCancellation'
          /\ FlushedBeforeAbort' /\ QueuedMatchesState'
      BY <1>1, <1>2, <2>1, QueuedKeeps DEF EngineReturns, acceptsEvents
    <2> QED
      BY <1>2, <2>1, <2>2 DEF IInv, EngineReturns, acceptsEvents, TypeOK, Phases,
         PromiseMatchesState, WaitersMatchState, AwaitingMatchesPhase, ReportMatchesPhase
  <1>3. CASE ~(o # "blocked" /\ acceptsEvents)
    <2>1. /\ stream' = stream /\ awaiting' = awaiting /\ phase' = "returned"
          /\ dropped' \subseteq dropped \union EventTypes
      BY <1>1, <1>3 DEF EngineReturns
    <2>2. NothingFollowsCancellation' /\ FlushedBeforeAbort' /\ QueuedMatchesState'
      BY <2>1, QueueStable DEF EngineReturns
    <2> QED
      BY <1>3, <2>1, <2>2 DEF IInv, EngineReturns, TypeOK, Phases, PromiseMatchesState,
         WaitersMatchState, AwaitingMatchesPhase, ReportMatchesPhase
  <1> QED
    BY <1>2, <1>3

LEMMA SettleIInv == IInv /\ RunTracked => IInv'
  <1> SUFFICES ASSUME IInv, RunTracked PROVE IInv'
    OBVIOUS
  <1>1. NothingFollowsCancellation' /\ FlushedBeforeAbort' /\ QueuedMatchesState'
    BY QueueStable DEF RunTracked, SettleBeforeReport, CancellationWins,
       SettleInFinally, FinallyAfterCancellation
  <1>2. CASE SettleBeforeReport
    <2>1. TypeOK'
      BY <1>2 DEF IInv, SettleBeforeReport, TypeOK, States, Phases, Outcomes,
         ReportMatchesPhase
    <2>2. PromiseMatchesState' /\ WaitersMatchState'
      BY <1>2 DEF IInv, SettleBeforeReport, PromiseMatchesState, WaitersMatchState
    <2>3. AwaitingMatchesPhase'
      BY <1>2 DEF IInv, SettleBeforeReport, AwaitingMatchesPhase
    <2>4. ReportMatchesPhase'
      BY <1>2 DEF IInv, SettleBeforeReport, ReportMatchesPhase
    <2> QED
      BY <1>1, <2>1, <2>2, <2>3, <2>4 DEF IInv
  <1>3. CASE CancellationWins
    BY <1>1, <1>3 DEF IInv, CancellationWins, TypeOK, Phases, Outcomes,
       PromiseMatchesState, WaitersMatchState, AwaitingMatchesPhase, ReportMatchesPhase
  <1>4. CASE SettleInFinally
    BY <1>1, <1>4 DEF IInv, SettleInFinally, TypeOK, States, Phases,
       PromiseMatchesState, WaitersMatchState, AwaitingMatchesPhase, ReportMatchesPhase
  <1>5. CASE FinallyAfterCancellation
    BY <1>1, <1>5 DEF IInv, FinallyAfterCancellation, TypeOK, Phases,
       PromiseMatchesState, WaitersMatchState, AwaitingMatchesPhase, ReportMatchesPhase
  <1> QED
    BY <1>2, <1>3, <1>4, <1>5 DEF RunTracked

LEMMA FindActiveIInv == ASSUME NEW c \in Callers
                        PROVE  IInv /\ FindActive(c) => IInv'
  <1> SUFFICES ASSUME IInv, FindActive(c) PROVE IInv'
    OBVIOUS
  <1>1. NothingFollowsCancellation' /\ FlushedBeforeAbort' /\ QueuedMatchesState'
    BY QueueStable DEF FindActive
  <1>2. TypeOK'
    BY DEF IInv, FindActive, TypeOK, CallerStates
  <1>3. WaitersMatchState'
    BY DEF IInv, FindActive, TypeOK, WaitersMatchState, Waiting
  <1> QED
    BY <1>1, <1>2, <1>3 DEF IInv, FindActive, PromiseMatchesState, AwaitingMatchesPhase,
       ReportMatchesPhase

LEMMA CancelIInv == ASSUME NEW c \in Callers
                    PROVE  IInv /\ Cancel(c) => IInv'
  <1> SUFFICES ASSUME IInv, Cancel(c) PROVE IInv'
    OBVIOUS
  <1>1. CASE stream' = stream /\ state' = state /\ cancellation' = cancellation
    <2>1. NothingFollowsCancellation' /\ FlushedBeforeAbort' /\ QueuedMatchesState'
      BY <1>1, QueueStable DEF Cancel
    <2>2. \E a \in {"already-recorded", "waiting-shared", "already-settled"} :
              /\ caller' = [caller EXCEPT ![c] = a]
              /\ a = "waiting-shared" => state = "persisting-cancellation"
      BY <1>1 DEF Cancel, IInv, TypeOK, PromiseMatchesState
    <2>3. TypeOK'
      BY <1>1, <2>2 DEF IInv, Cancel, TypeOK, CallerStates
    <2>4. WaitersMatchState'
      BY <1>1, <2>2 DEF IInv, TypeOK, WaitersMatchState, Waiting
    <2> QED
      BY <1>1, <2>1, <2>3, <2>4 DEF IInv, Cancel, PromiseMatchesState,
         AwaitingMatchesPhase, ReportMatchesPhase
  <1>2. CASE /\ cancellation = "none" /\ state # "settling"
             /\ state' = "persisting-cancellation" /\ cancellation' = "set"
             /\ stream' = Queued("command-cancelled")
             /\ caller' = [caller EXCEPT ![c] = "waiting-first"]
    <2> DEFINE e == [type |-> "command-cancelled", st |-> "queued"]
    <2>1. e \in Entries /\ stream \in Seq(Entries)
      BY DEF Entries, EventTypes, IInv, TypeOK
    <2>2. /\ stream' \in Seq(Entries)
          /\ Len(stream') = Len(stream) + 1
          /\ DOMAIN stream' = DOMAIN stream \union {Len(stream) + 1}
          /\ \A i \in DOMAIN stream : stream'[i] = stream[i]
          /\ stream'[Len(stream) + 1] = e
      BY <1>2, <2>1, AppendEntry DEF Queued
    <2>3. state = "running"
      BY <1>2 DEF IInv, TypeOK, States, PromiseMatchesState
    <2>4. \A i \in DOMAIN stream :
              stream[i].type = "command-cancelled" => stream[i].st = "failed"
      BY <1>2 DEF IInv, QueuedMatchesState
    <2>5. NothingFollowsCancellation'
      BY <2>1, <2>2, <2>4 DEF NothingFollowsCancellation
    <2>6. ~aborted
      BY <2>4 DEF IInv, FlushedBeforeAbort, Durable
    <2>7. FlushedBeforeAbort'
      BY <2>6 DEF Cancel, FlushedBeforeAbort
    <2>8. QueuedMatchesState'
      BY <1>2, <2>1, <2>2, <2>4 DEF QueuedMatchesState
    <2>9. TypeOK'
      BY <1>2, <2>2 DEF IInv, Cancel, TypeOK, States, CallerStates
    <2>10. WaitersMatchState'
      BY <1>2, <2>3 DEF IInv, TypeOK, WaitersMatchState, Waiting
    <2>11. PromiseMatchesState'
      BY <1>2 DEF PromiseMatchesState
    <2>12. ReportMatchesPhase' /\ AwaitingMatchesPhase'
      BY <1>2, <2>3 DEF IInv, Cancel, ReportMatchesPhase, AwaitingMatchesPhase,
         RunningToCompletion
    <2> QED
      BY <2>5, <2>7, <2>8, <2>9, <2>10, <2>11, <2>12 DEF IInv
  <1> QED
    BY <1>1, <1>2 DEF Cancel

\* Finishing the entry at the head of the queue, whichever it is.
LEMMA FinishKeeps ==
    ASSUME IInv, NEW i \in DOMAIN stream, IsHead(i),
           NEW x \in {"durable", "failed"}, stream' = [stream EXCEPT ![i].st = x]
    PROVE  /\ stream' \in Seq(Entries) /\ Len(stream') = Len(stream)
           /\ DOMAIN stream' = DOMAIN stream
           /\ \A j \in DOMAIN stream : stream'[j].type = stream[j].type
           /\ \A j \in DOMAIN stream : j # i => stream'[j] = stream[j]
           /\ stream'[i].st = x
           /\ NothingFollowsCancellation'
           /\ \A k \in Durable("command-cancelled") : k \in Durable("command-cancelled")'
           /\ \A k \in DOMAIN stream :
                 stream[k].st # "queued" => stream'[k].st # "queued"
  <1>1. /\ stream' \in Seq(Entries) /\ Len(stream') = Len(stream)
        /\ DOMAIN stream' = DOMAIN stream
        /\ \A j \in DOMAIN stream : stream'[j].type = stream[j].type
        /\ \A j \in DOMAIN stream : j # i => stream'[j] = stream[j]
        /\ stream'[i].st = x
    <2>1. /\ stream \in Seq(Entries)
          /\ DOMAIN stream = 1..Len(stream) /\ Len(stream) \in Nat
          /\ \A j \in DOMAIN stream : stream[j] \in Entries
      BY DEF IInv, TypeOK
    <2>2. DOMAIN stream' = DOMAIN stream
      OBVIOUS
    <2>3. \A j \in DOMAIN stream :
              stream'[j] = IF j = i THEN [stream[i] EXCEPT !.st = x] ELSE stream[j]
      OBVIOUS
    <2>4. \A j \in DOMAIN stream :
              stream'[j] \in Entries /\ stream'[j].type = stream[j].type
      BY <2>1, <2>3 DEF Entries
    <2>5. stream'[i].st = x
      BY <2>1, <2>3 DEF Entries
    <2>6. stream' \in Seq(Entries) /\ Len(stream') = Len(stream)
      <3>1. stream' = [j \in 1..Len(stream) |-> stream'[j]]
        BY <2>1, <2>2
      <3>2. stream' \in [1..Len(stream) -> Entries]
        BY <2>1, <2>4, <3>1
      <3> QED
        BY <2>1, <2>2, <3>2
    <2> QED
      BY <2>2, <2>3, <2>4, <2>5, <2>6
  <1>2. stream[i].st = "queued"
    BY DEF IsHead
  <1>3. NothingFollowsCancellation'
    BY <1>1, <1>2 DEF IInv, NothingFollowsCancellation
  <1> QED
    BY <1>1, <1>2, <1>3 DEF Durable

\* Nothing of the flush is undone by finishing another entry.
LEMMA FinishKeepsFlushed ==
    ASSUME IInv, NEW i \in DOMAIN stream, IsHead(i), aborted' = aborted,
           NEW x \in {"durable", "failed"}, stream' = [stream EXCEPT ![i].st = x]
    PROVE  FlushedBeforeAbort'
  <1> SUFFICES ASSUME aborted
               PROVE  \E k \in Durable("command-cancelled")' :
                          \A j \in 1..k : stream'[j].st # "queued"
    BY DEF FlushedBeforeAbort
  <1>1. PICK k \in Durable("command-cancelled") : \A j \in 1..k : stream[j].st # "queued"
    BY DEF IInv, FlushedBeforeAbort
  <1>2. k \in DOMAIN stream /\ \A j \in 1..k : j \in DOMAIN stream
    BY <1>1 DEF Durable, IInv, TypeOK
  <1> QED
    BY <1>1, <1>2, FinishKeeps

\* No other cancellation is in the queue or the log beside the one at the head.
LEMMA OnlyCancellation ==
    ASSUME IInv, NEW i \in DOMAIN stream, IsHead(i),
           stream[i].type = "command-cancelled"
    PROVE  /\ state = "persisting-cancellation" /\ cancellation = "set"
           /\ \A j \in DOMAIN stream :
                 j # i /\ stream[j].type = "command-cancelled" => stream[j].st = "failed"
  <1>1. DOMAIN stream \subseteq Nat
    BY DEF IInv, TypeOK
  <1>2. state = "persisting-cancellation" /\ cancellation = "set"
    BY DEF IInv, IsHead, QueuedMatchesState
  <1>3. ASSUME NEW j \in DOMAIN stream, j # i, stream[j].type = "command-cancelled"
        PROVE  stream[j].st = "failed"
    <2>1. i < j \/ j < i
      BY <1>1, <1>3
    <2> QED
      BY <1>3, <2>1 DEF IInv, IsHead, NothingFollowsCancellation
  <1> QED
    BY <1>2, <1>3

LEMMA AppendSucceedsIInv == ASSUME NEW i \in DOMAIN stream
                            PROVE  IInv /\ AppendSucceeds(i) => IInv'
  <1> SUFFICES ASSUME IInv, AppendSucceeds(i) PROVE IInv'
    OBVIOUS
  <1>1. IsHead(i) /\ stream' = [stream EXCEPT ![i].st = "durable"]
    BY DEF AppendSucceeds
  <1>7. /\ stream' \in Seq(Entries) /\ Len(stream') = Len(stream)
        /\ DOMAIN stream' = DOMAIN stream
        /\ \A j \in DOMAIN stream : stream'[j].type = stream[j].type
        /\ \A j \in DOMAIN stream : j # i => stream'[j] = stream[j]
        /\ stream'[i].st = "durable"
        /\ NothingFollowsCancellation'
        /\ \A k \in DOMAIN stream :
              stream[k].st # "queued" => stream'[k].st # "queued"
    BY <1>1, FinishKeeps
  <1>2. phase \notin {"finally", "returned"} /\ (awaiting' = awaiting \/ awaiting' = 0)
    BY <1>1 DEF AppendSucceeds, WalkerResumes, IsHead, RunningToCompletion
  <1>3. /\ phase' = phase /\ awaiting' = awaiting
        \/ /\ awaiting' = 0 /\ i = awaiting
           /\ \/ phase = "opening" /\ phase' = "opened"
              \/ phase \in {"describing", "emitting"} /\ phase' = "working"
              \/ phase = "closing" /\ phase' = "returned"
    <2>1. i # 0
      BY DEF IInv, TypeOK
    <2> QED
      BY <2>1 DEF IInv, AppendSucceeds, WalkerResumes, AwaitingMatchesPhase
  <1>4. AwaitingMatchesPhase'
    BY <1>3 DEF IInv, AwaitingMatchesPhase
  <1>5. CASE stream[i].type # "command-cancelled"
    <2>1. FlushedBeforeAbort'
      BY <1>1, <1>5, FinishKeepsFlushed DEF AppendSucceeds
    <2>2. QueuedMatchesState'
      BY <1>1, <1>5, <1>7 DEF IInv, AppendSucceeds, QueuedMatchesState
    <2>3. TypeOK'
      BY <1>1, <1>3, <1>5, <1>7 DEF IInv, AppendSucceeds, TypeOK, Phases
    <2>4. ReportMatchesPhase'
      BY <1>3, <1>5 DEF IInv, AppendSucceeds, ReportMatchesPhase
    <2> QED
      BY <1>1, <1>4, <1>5, <2>1, <2>2, <2>3, <2>4, <1>7
      DEF IInv, AppendSucceeds, PromiseMatchesState, WaitersMatchState
  <1>6. CASE stream[i].type = "command-cancelled"
    <2>1. /\ state = "persisting-cancellation" /\ cancellation = "set"
          /\ \A j \in DOMAIN stream :
                j # i /\ stream[j].type = "command-cancelled" => stream[j].st = "failed"
      BY <1>1, <1>6, OnlyCancellation
    <2>2. /\ state' = "cancelled" /\ aborted' = TRUE /\ cancellation' = cancellation
          /\ caller' = Answered("accepted", "already-recorded")
      BY <1>6 DEF AppendSucceeds
    <2>3. FlushedBeforeAbort'
      <3>1. i \in Durable("command-cancelled")'
        BY <1>1, <1>6, <1>7 DEF Durable
      <3>2. \A j \in 1..i : stream'[j].st # "queued"
        BY <1>1, <1>7 DEF IsHead, IInv, TypeOK
      <3> QED
        BY <3>1, <3>2 DEF FlushedBeforeAbort
    <2>4. QueuedMatchesState'
      BY <1>1, <2>1, <2>2, <1>7 DEF QueuedMatchesState
    <2>5. caller' \in [Callers -> CallerStates] /\ \A c \in Callers : caller'[c] \notin Waiting
      BY <2>2 DEF Answered, IInv, TypeOK, CallerStates, Waiting
    <2>6. TypeOK'
      BY <1>1, <1>3, <2>2, <2>5, <1>7 DEF IInv, AppendSucceeds, TypeOK, Phases, States
    <2>7. WaitersMatchState'
      BY <2>5 DEF WaitersMatchState, Waiting
    <2>8. ReportMatchesPhase'
      BY <1>3, <2>2 DEF IInv, AppendSucceeds, ReportMatchesPhase
    <2> QED
      BY <1>1, <1>4, <2>1, <2>2, <2>3, <2>4, <2>6, <2>7, <2>8, <1>7
      DEF IInv, PromiseMatchesState
  <1> QED
    BY <1>5, <1>6

LEMMA AppendFailsIInv == ASSUME NEW i \in DOMAIN stream
                         PROVE  IInv /\ AppendFails(i) => IInv'
  <1> SUFFICES ASSUME IInv, AppendFails(i) PROVE IInv'
    OBVIOUS
  <1>1. /\ IsHead(i) /\ stream' = [stream EXCEPT ![i].st = "failed"] /\ aborted' = aborted
        /\ phase \notin {"finally", "returned"}
    BY DEF AppendFails, IsHead, RunningToCompletion
  <1>7. /\ stream' \in Seq(Entries) /\ Len(stream') = Len(stream)
        /\ DOMAIN stream' = DOMAIN stream
        /\ \A j \in DOMAIN stream : stream'[j].type = stream[j].type
        /\ \A j \in DOMAIN stream : j # i => stream'[j] = stream[j]
        /\ stream'[i].st = "failed"
        /\ NothingFollowsCancellation'
        /\ \A k \in DOMAIN stream :
              stream[k].st # "queued" => stream'[k].st # "queued"
    BY <1>1, FinishKeeps
  <1>2. FlushedBeforeAbort'
    BY <1>1, FinishKeepsFlushed
  <1>3. CASE stream[i].type # "command-cancelled"
    <2>1. QueuedMatchesState'
      BY <1>1, <1>3, <1>7 DEF IInv, AppendFails, QueuedMatchesState
    <2>2. \/ phase' = phase /\ awaiting' = awaiting /\ effective' = effective
          \/ phase' = "finally" /\ awaiting' = 0 /\ effective' = "rejected"
      BY <1>3 DEF AppendFails, WalkerThrows
    <2>3. TypeOK'
      BY <1>1, <1>3, <2>2, <1>7 DEF IInv, AppendFails, TypeOK, Phases
    <2>4. ReportMatchesPhase' /\ AwaitingMatchesPhase'
      BY <1>3, <2>2 DEF IInv, AppendFails, ReportMatchesPhase, AwaitingMatchesPhase
    <2> QED
      BY <1>1, <1>2, <1>3, <2>1, <2>3, <2>4, <1>7
      DEF IInv, AppendFails, PromiseMatchesState, WaitersMatchState
  <1>4. CASE stream[i].type = "command-cancelled"
    <2>1. \A j \in DOMAIN stream :
              j # i /\ stream[j].type = "command-cancelled" => stream[j].st = "failed"
      BY <1>1, <1>4, OnlyCancellation
    <2>2. /\ state' = "running" /\ cancellation' = "none" /\ awaiting' = awaiting
          /\ caller' = Answered("rejected", "rejected") /\ SettlersReject
          /\ outcome' = outcome
      BY <1>4 DEF AppendFails
    <2>3. QueuedMatchesState'
      BY <1>1, <2>1, <2>2, <1>7 DEF QueuedMatchesState
    <2>4. caller' \in [Callers -> CallerStates] /\ \A c \in Callers : caller'[c] \notin Waiting
      BY <2>2 DEF Answered, IInv, TypeOK, CallerStates, Waiting
    <2>5. \/ phase' = phase /\ effective' = effective
             /\ phase \notin {"awaiting-cancellation", "finally-waiting"}
          \/ phase = "awaiting-cancellation" /\ phase' = "finally" /\ effective' = "rejected"
          \/ phase = "finally-waiting" /\ phase' = "done" /\ effective' = "rejected"
      BY <2>2 DEF SettlersReject
    <2>6. registered' \in BOOLEAN
      BY <2>2 DEF SettlersReject, IInv, TypeOK
    <2>7. TypeOK'
      BY <1>1, <2>2, <2>4, <2>5, <2>6, <1>7
      DEF IInv, AppendFails, TypeOK, Phases, States
    <2>8. WaitersMatchState'
      BY <2>4 DEF WaitersMatchState, Waiting
    <2>9. ReportMatchesPhase' /\ AwaitingMatchesPhase'
      BY <1>1, <2>2, <2>5 DEF IInv, ReportMatchesPhase, AwaitingMatchesPhase
    <2> QED
      BY <1>1, <1>2, <2>2, <2>3, <2>7, <2>8, <2>9, <1>7 DEF IInv, PromiseMatchesState
  <1> QED
    BY <1>3, <1>4

-----------------------------------------------------------------------------
LEMMA NextIInv == IInv /\ [Next]_vars => IInv'
  <1> SUFFICES ASSUME IInv, [Next]_vars PROVE IInv'
    OBVIOUS
  <1>1. CASE Engine
    BY <1>1, EnterEngineIInv, EmitStepEventIInv, EngineReturnsIInv DEF Engine
  <1>2. CASE EmitBackgroundEvent
    BY <1>2, EmitBackgroundEventIInv
  <1>3. CASE FileSystem
    BY <1>3, AppendSucceedsIInv, AppendFailsIInv DEF FileSystem
  <1>4. CASE RunTracked
    BY <1>4, SettleIInv
  <1>5. CASE \E c \in Callers : FindActive(c) \/ Cancel(c)
    BY <1>5, FindActiveIInv, CancelIInv
  <1>6. CASE UNCHANGED vars
    BY <1>6 DEF vars, IInv, TypeOK, NothingFollowsCancellation, FlushedBeforeAbort,
       Durable, PromiseMatchesState, QueuedMatchesState, WaitersMatchState,
       AwaitingMatchesPhase, ReportMatchesPhase
  <1> QED
    BY <1>1, <1>2, <1>3, <1>4, <1>5, <1>6 DEF Next

\* What cancel(), settle() and runTracked keep together, in every reachable state.
THEOREM Inductive == Spec => []IInv
  <1> QED
    BY InitIInv, NextIInv, PTL DEF Spec

\* The variables keep their types.
THEOREM TypeCorrect == Spec => []TypeOK
  <1>1. IInv => TypeOK
    BY DEF IInv
  <1> QED
    BY <1>1, Inductive, PTL

\* However many cancellers, events and failing appends there are, no event of the
\* engine follows a queued or recorded cancellation (ActiveRun.cancel, acceptsEvents).
THEOREM CancellationIsLast == Spec => []NothingFollowsCancellation
  <1>1. IInv => NothingFollowsCancellation
    BY DEF IInv
  <1> QED
    BY <1>1, Inductive, PTL

\* The executor is aborted only after the cancellation and every event accepted before
\* it have reached the log (ActiveRun.cancel awaits persist() before abort()).
THEOREM AbortIsFlushed == Spec => []FlushedBeforeAbort
  <1>1. IInv => FlushedBeforeAbort
    BY DEF IInv
  <1> QED
    BY <1>1, Inductive, PTL

-----------------------------------------------------------------------------
(* What runTracked reports is in the log.                                   *)

EngineTerminals == {"run-completed", "run-crashed", "run-cancelled"}

BeforeReturn == {"opening", "opened", "describing", "working", "emitting"}

\* The engine's terminal event is in the log, if its outcome has one.
Recorded ==
    \/ outcome = "blocked"
    \/ outcome \in DOMAIN TerminalEvent /\ Durable(TerminalEvent[outcome]) # {}

\* The engine queues one terminal event at most, the one of its outcome, and waits for it.
OneTerminal ==
    /\ \A i \in DOMAIN stream : stream[i].type \in EngineTerminals =>
           /\ outcome \in DOMAIN TerminalEvent /\ stream[i].type = TerminalEvent[outcome]
           /\ \A j \in DOMAIN stream : stream[j].type \in EngineTerminals => j = i
    /\ phase \in BeforeReturn => outcome = NoStatus
    /\ phase = "closing" =>
           /\ awaiting # 0 /\ outcome \in DOMAIN TerminalEvent
           /\ stream[awaiting].type = TerminalEvent[outcome]

\* A cancellation is over when it is in the log.
CancelledOnDisk == Durable("command-cancelled") # {} <=> state = "cancelled"

\* What was reported is settled, one way or the other.
ReportSettled ==
    /\ phase = "returned" /\ state = "running" => Recorded
    /\ effective \in Outcomes =>
           \/ state = "settling" /\ effective = outcome /\ Recorded
           \/ state = "cancelled" /\ effective = "cancelled"

\* A checkpoint is refused on account of a cancellation.
RefusedByCancellation ==
    "step-event" \in dropped =>
        \/ state \in {"persisting-cancellation", "cancelled"}
        \/ \E i \in DOMAIN stream : stream[i].type = "command-cancelled" /\ stream[i].st = "failed"

Reported == OneTerminal /\ CancelledOnDisk /\ ReportSettled /\ RefusedByCancellation

\* One more entry is not in the log yet.
LEMMA QueuedLog ==
    ASSUME IInv, NEW t \in EventTypes, stream' = Queued(t)
    PROVE  /\ DOMAIN stream' = DOMAIN stream \union {Len(stream) + 1}
           /\ Len(stream) + 1 \notin DOMAIN stream
           /\ Len(stream') = Len(stream) + 1
           /\ \A i \in DOMAIN stream : stream'[i] = stream[i]
           /\ stream'[Len(stream) + 1] = [type |-> t, st |-> "queued"]
           /\ \A u : Durable(u)' = Durable(u)
  <1>1. [type |-> t, st |-> "queued"] \in Entries /\ stream \in Seq(Entries)
    BY DEF Entries, IInv, TypeOK
  <1>2. /\ DOMAIN stream' = DOMAIN stream \union {Len(stream) + 1}
        /\ Len(stream) + 1 \notin DOMAIN stream
        /\ Len(stream') = Len(stream) + 1
        /\ \A i \in DOMAIN stream : stream'[i] = stream[i]
        /\ stream'[Len(stream) + 1] = [type |-> t, st |-> "queued"]
    BY <1>1, AppendEntry DEF Queued
  <1>3. \A u : Durable(u)' = Durable(u)
    BY <1>2 DEF Durable
  <1> QED
    BY <1>2, <1>3

\* The entry at the head of the queue reaches the log, or does not.
LEMMA FinishedLog ==
    ASSUME IInv, NEW i \in DOMAIN stream, IsHead(i),
           NEW x \in {"durable", "failed"}, stream' = [stream EXCEPT ![i].st = x]
    PROVE  /\ DOMAIN stream' = DOMAIN stream
           /\ \A j \in DOMAIN stream : stream'[j].type = stream[j].type
           /\ \A j \in DOMAIN stream : j # i => stream'[j] = stream[j]
           /\ stream'[i].st = x /\ stream[i].st = "queued"
           /\ \A u : Durable(u) \subseteq Durable(u)'
           /\ \A u : u # stream[i].type \/ x = "failed" => Durable(u)' = Durable(u)
  <1>1. /\ DOMAIN stream' = DOMAIN stream
        /\ \A j \in DOMAIN stream : stream'[j].type = stream[j].type
        /\ \A j \in DOMAIN stream : j # i => stream'[j] = stream[j]
        /\ stream'[i].st = x
    BY FinishKeeps
  <1>2. stream[i].st = "queued"
    BY DEF IsHead
  <1> QED
    BY <1>1, <1>2 DEF Durable

\* Steps that queue no terminal event of the engine.
LEMMA OneTerminalKept ==
    ASSUME IInv, OneTerminal, outcome' = outcome,
           DOMAIN stream \subseteq DOMAIN stream',
           \A i \in DOMAIN stream : stream'[i].type = stream[i].type,
           \A i \in DOMAIN stream' :
              i \notin DOMAIN stream => stream'[i].type \notin EngineTerminals,
           phase' \in BeforeReturn => phase \in BeforeReturn,
           phase' = "closing" => phase = "closing" /\ awaiting' = awaiting
    PROVE  OneTerminal'
  <1>1. \A i \in DOMAIN stream' : stream'[i].type \in EngineTerminals =>
            i \in DOMAIN stream /\ stream[i].type = stream'[i].type
    OBVIOUS
  <1>2. phase = "closing" => awaiting \in DOMAIN stream
    BY DEF IInv, TypeOK, OneTerminal
  <1> QED
    BY <1>1, <1>2 DEF OneTerminal

\* What was recorded stays recorded.
LEMMA RecordedKept ==
    ASSUME Recorded, outcome' = outcome, \A u : Durable(u) \subseteq Durable(u)'
    PROVE  Recorded'
  BY DEF Recorded, TerminalEvent

\* Steps that settle nothing.
LEMMA ReportSettledKept ==
    ASSUME ReportSettled, outcome' = outcome, \A u : Durable(u) \subseteq Durable(u)',
           state' = state \/ effective' \notin Outcomes,
           effective' = effective \/ effective' \notin Outcomes,
           phase' # "returned" \/ (phase' = phase /\ state' = state)
    PROVE  ReportSettled'
  BY RecordedKept DEF ReportSettled

\* The cancellations whose append failed stay in the queue's history.
LEMMA RefusedKept ==
    ASSUME RefusedByCancellation, DOMAIN stream \subseteq DOMAIN stream',
           \A i \in DOMAIN stream : stream[i].st # "queued" => stream'[i] = stream[i],
           state' = state \/ state \notin {"persisting-cancellation", "cancelled"}
              \/ state' = "cancelled",
           "step-event" \in dropped' => "step-event" \in dropped
    PROVE  RefusedByCancellation'
  BY DEF RefusedByCancellation

-----------------------------------------------------------------------------
LEMMA InitReported == Init => Reported
  BY DEF Init, Reported, OneTerminal, EngineTerminals, BeforeReturn, CancelledOnDisk,
     Durable, ReportSettled, RefusedByCancellation, NoStatus, Outcomes

LEMMA EnterEngineReported == IInv /\ Reported /\ EnterEngine => Reported'
  <1> SUFFICES ASSUME IInv, Reported, EnterEngine PROVE Reported'
    OBVIOUS
  <1>1. \/ stream' = stream
        \/ stream' = Queued("run-meta")
    BY DEF EnterEngine
  <1>2. /\ DOMAIN stream \subseteq DOMAIN stream'
        /\ \A i \in DOMAIN stream : stream'[i] = stream[i]
        /\ \A i \in DOMAIN stream' :
              i \notin DOMAIN stream => stream'[i].type \notin EngineTerminals
        /\ \A u : Durable(u)' = Durable(u)
    <2>1. CASE stream' = stream
      BY <2>1 DEF Durable
    <2>2. CASE stream' = Queued("run-meta")
      BY <2>2, QueuedLog DEF EventTypes, EngineTerminals
    <2> QED
      BY <1>1, <2>1, <2>2
  <1>3. /\ outcome' = outcome /\ state' = state /\ effective' = effective
        /\ dropped' = dropped /\ phase = "opened" /\ phase' \in {"describing", "working"}
    BY DEF EnterEngine
  <1>4. OneTerminal'
    BY <1>2, <1>3, OneTerminalKept DEF Reported, BeforeReturn
  <1>5. CancelledOnDisk'
    BY <1>2, <1>3 DEF Reported, CancelledOnDisk
  <1>6. ReportSettled'
    BY <1>2, <1>3, ReportSettledKept DEF Reported
  <1>7. RefusedByCancellation'
    BY <1>2, <1>3, RefusedKept DEF Reported
  <1> QED
    BY <1>4, <1>5, <1>6, <1>7 DEF Reported

LEMMA EmitReported == IInv /\ Reported /\ (EmitStepEvent \/ EmitBackgroundEvent) => Reported'
  <1> SUFFICES ASSUME IInv, Reported, EmitStepEvent \/ EmitBackgroundEvent PROVE Reported'
    OBVIOUS
  <1>1. \/ stream' = stream
        \/ stream' = Queued("step-event")
        \/ stream' = Queued("background-event")
    BY DEF EmitStepEvent, EmitBackgroundEvent
  <1>2. /\ DOMAIN stream \subseteq DOMAIN stream'
        /\ \A i \in DOMAIN stream : stream'[i] = stream[i]
        /\ \A i \in DOMAIN stream' :
              i \notin DOMAIN stream => stream'[i].type \notin EngineTerminals
        /\ \A u : Durable(u)' = Durable(u)
    <2>1. CASE stream' = stream
      BY <2>1 DEF Durable
    <2>2. CASE stream' = Queued("step-event")
      BY <2>2, QueuedLog DEF EventTypes, EngineTerminals
    <2>3. CASE stream' = Queued("background-event")
      BY <2>3, QueuedLog DEF EventTypes, EngineTerminals
    <2> QED
      BY <1>1, <2>1, <2>2, <2>3
  <1>3. /\ outcome' = outcome /\ state' = state /\ effective' = effective
        /\ \/ phase' = phase /\ awaiting' = awaiting
           \/ phase = "working" /\ phase' = "emitting"
    BY DEF EmitStepEvent, EmitBackgroundEvent
  <1>4. OneTerminal'
    BY <1>2, <1>3, OneTerminalKept DEF Reported, BeforeReturn
  <1>5. CancelledOnDisk'
    BY <1>2, <1>3 DEF Reported, CancelledOnDisk
  <1>6. ReportSettled'
    BY <1>2, <1>3, ReportSettledKept DEF Reported
  <1>7. RefusedByCancellation'
    <2>1. CASE "step-event" \in dropped \/ "step-event" \notin dropped'
      BY <1>2, <1>3, <2>1, RefusedKept DEF Reported
    <2>2. CASE "step-event" \notin dropped /\ "step-event" \in dropped'
      <3>1. phase = "working" /\ state # "running"
        BY <2>2 DEF EmitStepEvent, EmitBackgroundEvent, acceptsEvents
      <3>2. state' \in {"persisting-cancellation", "cancelled"}
        BY <1>3, <3>1 DEF IInv, ReportMatchesPhase, TypeOK, States
      <3> QED
        BY <3>2 DEF RefusedByCancellation
    <2> QED
      BY <2>1, <2>2
  <1> QED
    BY <1>4, <1>5, <1>6, <1>7 DEF Reported

LEMMA EngineReturnsReported ==
    ASSUME NEW o \in Outcomes
    PROVE  IInv /\ Reported /\ EngineReturns(o) => Reported'
  <1> SUFFICES ASSUME IInv, Reported, EngineReturns(o) PROVE Reported'
    OBVIOUS
  <1>1. /\ phase = "working" /\ outcome = NoStatus /\ effective = NoStatus
        /\ outcome' = o /\ effective' = NoStatus /\ state' = state
        /\ state # "settling"
    BY DEF EngineReturns, IInv, ReportMatchesPhase, Reported, OneTerminal, BeforeReturn
  <1>2. \A i \in DOMAIN stream : stream[i].type \notin EngineTerminals
    BY <1>1 DEF Reported, OneTerminal, NoStatus, TerminalEvent
  <1>3. o # "blocked" =>
            /\ o \in DOMAIN TerminalEvent /\ TerminalEvent[o] \in EngineTerminals
            /\ TerminalEvent[o] \in EventTypes /\ TerminalEvent[o] # "command-cancelled"
            /\ TerminalEvent[o] # "step-event"
    BY DEF Outcomes, TerminalEvent, EngineTerminals, EventTypes
  <1>4. CASE o # "blocked" /\ acceptsEvents
    <2>1. stream' = Queued(TerminalEvent[o]) /\ awaiting' = Len(stream') /\ phase' = "closing"
          /\ dropped' = dropped
      BY <1>4 DEF EngineReturns
    <2>2. /\ DOMAIN stream' = DOMAIN stream \union {Len(stream) + 1}
          /\ Len(stream') = Len(stream) + 1
          /\ \A i \in DOMAIN stream : stream'[i] = stream[i]
          /\ stream'[Len(stream) + 1] = [type |-> TerminalEvent[o], st |-> "queued"]
          /\ \A u : Durable(u)' = Durable(u)
      BY <1>3, <1>4, <2>1, QueuedLog
    <2>3. \A i \in DOMAIN stream' : stream'[i].type \in EngineTerminals =>
              i = Len(stream) + 1 /\ stream'[i].type = TerminalEvent[o]
      BY <1>2, <2>2
    <2>4. Len(stream) + 1 # 0
      BY DEF IInv, TypeOK
    <2>5. OneTerminal'
      BY <1>1, <1>3, <1>4, <2>1, <2>2, <2>3, <2>4 DEF OneTerminal, BeforeReturn
    <2>6. CancelledOnDisk'
      BY <1>1, <2>2 DEF Reported, CancelledOnDisk
    <2>7. ReportSettled'
      BY <1>1, <2>1 DEF ReportSettled, NoStatus, Outcomes
    <2>8. RefusedByCancellation'
      BY <1>1, <2>1, <2>2, RefusedKept DEF Reported
    <2> QED
      BY <2>5, <2>6, <2>7, <2>8 DEF Reported
  <1>5. CASE ~(o # "blocked" /\ acceptsEvents)
    <2>1. stream' = stream /\ phase' = "returned"
      BY <1>5 DEF EngineReturns
    <2>2. OneTerminal'
      BY <1>2, <2>1 DEF OneTerminal, BeforeReturn
    <2>3. CancelledOnDisk'
      BY <1>1, <2>1 DEF Reported, CancelledOnDisk, Durable
    <2>4. ReportSettled'
      BY <1>1, <1>5 DEF ReportSettled, Recorded, acceptsEvents, NoStatus, Outcomes
    <2>5. "step-event" \in dropped' => "step-event" \in dropped
      BY <1>3, <1>5 DEF EngineReturns
    <2>6. RefusedByCancellation'
      BY <1>1, <2>1, <2>5, RefusedKept DEF Reported
    <2> QED
      BY <2>2, <2>3, <2>4, <2>6 DEF Reported
  <1> QED
    BY <1>4, <1>5

LEMMA SettleReported == IInv /\ Reported /\ RunTracked => Reported'
  <1> SUFFICES ASSUME IInv, Reported, RunTracked PROVE Reported'
    OBVIOUS
  <1>1. /\ stream' = stream /\ outcome' = outcome /\ dropped' = dropped
        /\ awaiting' = awaiting /\ phase' \notin BeforeReturn \union {"closing", "returned"}
    BY DEF RunTracked, SettleBeforeReport, CancellationWins, SettleInFinally,
           FinallyAfterCancellation, BeforeReturn
  <1>2. state' = state \/ (state \in {"running", "settling"} /\ state' = "settling")
    BY DEF RunTracked, SettleBeforeReport, CancellationWins, SettleInFinally,
           FinallyAfterCancellation
  <1>3. \A u : Durable(u)' = Durable(u)
    BY <1>1 DEF Durable
  <1>4. OneTerminal'
    BY <1>1, OneTerminalKept DEF Reported
  <1>5. CancelledOnDisk'
    BY <1>2, <1>3 DEF Reported, CancelledOnDisk
  <1>6. RefusedByCancellation'
    BY <1>1, <1>2, RefusedKept DEF Reported
  <1>7. ReportSettled'
    <2>1. CASE SettleBeforeReport
      <3>1. effective = NoStatus /\ outcome \in Outcomes /\ state # "settling"
        BY <2>1 DEF SettleBeforeReport, IInv, ReportMatchesPhase
      <3>2. state = "running" => Recorded
        BY <2>1 DEF SettleBeforeReport, Reported, ReportSettled
      <3>3. state = "running" => Recorded'
        BY <1>1, <1>3, <3>2, RecordedKept
      <3> QED
        BY <1>1, <2>1, <3>1, <3>3 DEF SettleBeforeReport, ReportSettled, NoStatus, Outcomes
    <2>2. CASE CancellationWins
      BY <1>1, <2>2 DEF CancellationWins, ReportSettled
    <2>3. CASE SettleInFinally \/ FinallyAfterCancellation
      <3>1. /\ effective' = effective
            /\ state' = state \/ effective \notin Outcomes
        BY <2>3 DEF SettleInFinally, FinallyAfterCancellation, IInv, ReportMatchesPhase, Outcomes
      <3> QED
        BY <1>1, <1>3, <3>1, ReportSettledKept DEF Reported
    <2> QED
      BY <2>1, <2>2, <2>3 DEF RunTracked
  <1> QED
    BY <1>4, <1>5, <1>6, <1>7 DEF Reported

LEMMA CancelReported ==
    ASSUME NEW c \in Callers
    PROVE  IInv /\ Reported /\ (FindActive(c) \/ Cancel(c)) => Reported'
  <1> SUFFICES ASSUME IInv, Reported, FindActive(c) \/ Cancel(c) PROVE Reported'
    OBVIOUS
  <1>1. /\ outcome' = outcome /\ dropped' = dropped /\ phase' = phase
        /\ awaiting' = awaiting /\ effective' = effective
    BY DEF FindActive, Cancel
  <1>2. \/ stream' = stream /\ state' = state
        \/ /\ stream' = Queued("command-cancelled") /\ state' = "persisting-cancellation"
           /\ state = "running" /\ phase \notin {"returned", "finally"}
    BY DEF FindActive, Cancel, IInv, PromiseMatchesState, TypeOK, States, RunningToCompletion
  <1>3. /\ DOMAIN stream \subseteq DOMAIN stream'
        /\ \A i \in DOMAIN stream : stream'[i] = stream[i]
        /\ \A i \in DOMAIN stream' :
              i \notin DOMAIN stream => stream'[i].type \notin EngineTerminals
        /\ \A u : Durable(u)' = Durable(u)
    <2>1. CASE stream' = stream
      BY <2>1 DEF Durable
    <2>2. CASE stream' = Queued("command-cancelled")
      BY <2>2, QueuedLog DEF EventTypes, EngineTerminals
    <2> QED
      BY <1>2, <2>1, <2>2
  <1>4. OneTerminal'
    BY <1>1, <1>3, OneTerminalKept DEF Reported
  <1>5. CancelledOnDisk'
    BY <1>2, <1>3 DEF Reported, CancelledOnDisk
  <1>6. RefusedByCancellation'
    BY <1>1, <1>2, <1>3, RefusedKept DEF Reported
  <1>7. ReportSettled'
    <2>1. state' = state \/ effective \notin Outcomes
      BY <1>2 DEF Reported, ReportSettled
    <2> QED
      BY <1>1, <1>2, <1>3, <2>1, ReportSettledKept DEF Reported
  <1> QED
    BY <1>4, <1>5, <1>6, <1>7 DEF Reported

LEMMA AppendSucceedsReported ==
    ASSUME NEW i \in DOMAIN stream
    PROVE  IInv /\ Reported /\ AppendSucceeds(i) => Reported'
  <1> SUFFICES ASSUME IInv, Reported, AppendSucceeds(i) PROVE Reported'
    OBVIOUS
  <1>1. /\ IsHead(i) /\ stream' = [stream EXCEPT ![i].st = "durable"]
        /\ outcome' = outcome /\ effective' = effective /\ dropped' = dropped
        /\ phase \notin {"finally", "returned"}
    BY DEF AppendSucceeds, IsHead, RunningToCompletion
  <1>2. /\ DOMAIN stream' = DOMAIN stream
        /\ \A j \in DOMAIN stream : stream'[j].type = stream[j].type
        /\ \A j \in DOMAIN stream : j # i => stream'[j] = stream[j]
        /\ stream'[i].st = "durable" /\ stream[i].st = "queued"
        /\ \A u : Durable(u) \subseteq Durable(u)'
        /\ \A u : u # stream[i].type => Durable(u)' = Durable(u)
    BY <1>1, FinishedLog
  <1>3. /\ phase' = phase /\ awaiting' = awaiting
        \/ /\ awaiting' = 0 /\ i = awaiting
           /\ \/ phase = "opening" /\ phase' = "opened"
              \/ phase \in {"describing", "emitting"} /\ phase' = "working"
              \/ phase = "closing" /\ phase' = "returned"
    <2>1. i # 0
      BY DEF IInv, TypeOK
    <2> QED
      BY <2>1 DEF IInv, AppendSucceeds, WalkerResumes, AwaitingMatchesPhase
  <1>4. OneTerminal'
    BY <1>1, <1>2, <1>3, OneTerminalKept DEF Reported, BeforeReturn
  <1>5. \/ state' = state /\ stream[i].type # "command-cancelled"
        \/ /\ state = "persisting-cancellation" /\ state' = "cancelled"
           /\ stream[i].type = "command-cancelled"
    BY <1>1, OnlyCancellation DEF AppendSucceeds
  <1>6. CancelledOnDisk'
    <2>1. CASE stream[i].type # "command-cancelled"
      BY <1>2, <1>5, <2>1 DEF Reported, CancelledOnDisk
    <2>2. CASE stream[i].type = "command-cancelled"
      BY <1>2, <1>5, <2>2 DEF CancelledOnDisk, Durable
    <2> QED
      BY <2>1, <2>2
  <1>7. ReportSettled'
    <2>1. CASE phase' # "returned"
      <3>1. state' = state \/ effective \notin Outcomes
        BY <1>5 DEF Reported, ReportSettled
      <3> QED
        BY <1>1, <1>2, <2>1, <3>1, ReportSettledKept DEF Reported
    <2>2. CASE phase' = "returned"
      <3>1. phase = "closing" /\ i = awaiting
        BY <1>1, <1>3, <2>2
      <3>2. outcome \in DOMAIN TerminalEvent /\ stream[i].type = TerminalEvent[outcome]
        BY <3>1 DEF Reported, OneTerminal
      <3>3. i \in Durable(TerminalEvent[outcome])'
        BY <1>1, <1>2, <3>2 DEF Durable
      <3>4. Recorded'
        BY <1>1, <3>2, <3>3 DEF Recorded
      <3>5. effective' = NoStatus
        BY <1>1, <3>1 DEF IInv, ReportMatchesPhase
      <3> QED
        BY <3>4, <3>5 DEF ReportSettled, NoStatus, Outcomes
    <2> QED
      BY <2>1, <2>2
  <1>8. RefusedByCancellation'
    BY <1>1, <1>2, <1>5, RefusedKept DEF Reported
  <1> QED
    BY <1>4, <1>6, <1>7, <1>8 DEF Reported

LEMMA AppendFailsReported ==
    ASSUME NEW i \in DOMAIN stream
    PROVE  IInv /\ Reported /\ AppendFails(i) => Reported'
  <1> SUFFICES ASSUME IInv, Reported, AppendFails(i) PROVE Reported'
    OBVIOUS
  <1>1. /\ IsHead(i) /\ stream' = [stream EXCEPT ![i].st = "failed"]
        /\ outcome' = outcome /\ dropped' = dropped
        /\ phase \notin {"finally", "returned"}
    BY DEF AppendFails, IsHead, RunningToCompletion
  <1>2. /\ DOMAIN stream' = DOMAIN stream
        /\ \A j \in DOMAIN stream : stream'[j].type = stream[j].type
        /\ \A j \in DOMAIN stream : j # i => stream'[j] = stream[j]
        /\ stream'[i].st = "failed" /\ stream[i].st = "queued"
        /\ \A u : Durable(u)' = Durable(u)
    BY <1>1, FinishedLog
  <1>3. \/ phase' = phase /\ awaiting' = awaiting /\ effective' = effective
        \/ phase' \in {"finally", "done"} /\ effective' = "rejected"
    BY DEF AppendFails, WalkerThrows, SettlersReject
  <1>4. OneTerminal'
    BY <1>1, <1>2, <1>3, OneTerminalKept DEF Reported, BeforeReturn
  <1>5. \/ state' = state
        \/ /\ state = "persisting-cancellation" /\ state' = "running"
           /\ stream[i].type = "command-cancelled"
    BY <1>1, OnlyCancellation DEF AppendFails
  <1>6. CancelledOnDisk'
    BY <1>2, <1>5 DEF Reported, CancelledOnDisk
  <1>7. ReportSettled'
    <2>1. state' = state \/ effective \notin Outcomes
      BY <1>5 DEF Reported, ReportSettled
    <2>2. phase' # "returned" /\ (effective' = effective \/ effective' \notin Outcomes)
      BY <1>1, <1>3 DEF Outcomes
    <2>3. state' = state \/ effective' \notin Outcomes
      BY <1>3, <2>1 DEF Outcomes
    <2> QED
      BY <1>1, <1>2, <2>2, <2>3, ReportSettledKept DEF Reported
  <1>8. RefusedByCancellation'
    <2>1. CASE state' = state
      BY <1>1, <1>2, <2>1, RefusedKept DEF Reported
    <2>2. CASE stream[i].type = "command-cancelled"
      BY <1>2, <2>2 DEF RefusedByCancellation
    <2> QED
      BY <1>5, <2>1, <2>2
  <1> QED
    BY <1>4, <1>6, <1>7, <1>8 DEF Reported

LEMMA NextReported == IInv /\ Reported /\ [Next]_vars => Reported'
  <1> SUFFICES ASSUME IInv, Reported, [Next]_vars PROVE Reported'
    OBVIOUS
  <1>1. CASE Engine
    BY <1>1, EnterEngineReported, EmitReported, EngineReturnsReported DEF Engine
  <1>2. CASE EmitBackgroundEvent
    BY <1>2, EmitReported
  <1>3. CASE FileSystem
    BY <1>3, AppendSucceedsReported, AppendFailsReported DEF FileSystem
  <1>4. CASE RunTracked
    BY <1>4, SettleReported
  <1>5. CASE \E c \in Callers : FindActive(c) \/ Cancel(c)
    BY <1>5, CancelReported
  <1>6. CASE UNCHANGED vars
    BY <1>6 DEF vars, Reported, OneTerminal, CancelledOnDisk, Durable, ReportSettled,
       Recorded, RefusedByCancellation
  <1> QED
    BY <1>1, <1>2, <1>3, <1>4, <1>5, <1>6 DEF Next

-----------------------------------------------------------------------------
\* The last terminal event is the one no other comes after.
LEMMA LastIs ==
    ASSUME IInv, NEW i \in TerminalsOnDisk, \A j \in TerminalsOnDisk : j <= i
    PROVE  LastTerminal = stream[i].type
  <1> DEFINE last == CHOOSE k \in TerminalsOnDisk : \A j \in TerminalsOnDisk : j <= k
  <1>1. last \in TerminalsOnDisk /\ \A j \in TerminalsOnDisk : j <= last
    OBVIOUS
  <1>2. TerminalsOnDisk \subseteq Nat
    BY DEF IInv, TypeOK, TerminalsOnDisk, Durable
  <1>3. last = i
    <2>1. last \in Nat /\ i \in Nat
      BY <1>1, <1>2
    <2>2. last <= i /\ i <= last
      BY <1>1
    <2> HIDE DEF last
    <2> QED
      BY <2>1, <2>2
  <1> QED
    BY <1>3 DEF LastTerminal

LEMMA ReportedInLog == IInv /\ Reported => ReportMatchesLog
  <1> SUFFICES ASSUME IInv, Reported PROVE ReportMatchesLog
    OBVIOUS
  <1>1. TerminalsOnDisk = {i \in DOMAIN stream :
                              stream[i].st = "durable"
                              /\ stream[i].type \in EngineTerminals \union {"command-cancelled"}}
    BY DEF TerminalsOnDisk, RunLevel, Durable, EngineTerminals
  <1>2. DOMAIN stream \subseteq Nat /\ stream \in Seq(Entries)
    BY DEF IInv, TypeOK
  <1>3. CASE state = "cancelled" /\ effective = "cancelled"
    <2>1. PICK i \in DOMAIN stream :
              stream[i].type = "command-cancelled" /\ stream[i].st = "durable"
      BY <1>3 DEF Reported, CancelledOnDisk, Durable
    <2>2. i \in TerminalsOnDisk
      BY <1>1, <2>1
    <2>3. ASSUME NEW j \in TerminalsOnDisk PROVE j <= i
      <3>1. j \in DOMAIN stream /\ stream[j].type # "run-meta"
        BY <1>1 DEF EngineTerminals
      <3>2. ~(i < j)
        BY <2>1, <3>1 DEF IInv, NothingFollowsCancellation
      <3> QED
        BY <1>2, <3>1, <3>2
    <2>4. LastTerminal = "command-cancelled"
      BY <2>1, <2>2, <2>3, LastIs
    <2> QED
      BY <1>3, <2>2, <2>4 DEF ReportMatchesLog
  <1>4. CASE state = "settling" /\ effective = outcome /\ Recorded
    <2>1. \A i \in TerminalsOnDisk : stream[i].type \in EngineTerminals
      BY <1>1, <1>4 DEF Reported, CancelledOnDisk, Durable
    <2>2. effective = "blocked" => TerminalsOnDisk = {}
      BY <1>1, <1>4, <2>1 DEF Reported, OneTerminal, TerminalEvent
    <2>3. ASSUME effective \in DOMAIN TerminalEvent
          PROVE  TerminalsOnDisk # {} /\ LastTerminal = TerminalEvent[effective]
      <3>1. PICK i \in DOMAIN stream :
                stream[i].type = TerminalEvent[outcome] /\ stream[i].st = "durable"
        BY <1>4, <2>3 DEF Recorded, Durable, TerminalEvent
      <3>2. stream[i].type \in EngineTerminals
        BY <1>4, <2>3, <3>1 DEF TerminalEvent, EngineTerminals
      <3>3. i \in TerminalsOnDisk
        BY <1>1, <3>1, <3>2
      <3>4. \A j \in TerminalsOnDisk : j = i
        BY <1>1, <2>1, <3>2 DEF Reported, OneTerminal
      <3>5. LastTerminal = stream[i].type
        BY <1>2, <3>3, <3>4, LastIs
      <3> QED
        BY <1>4, <3>1, <3>3, <3>5
    <2>4. "step-event" \in dropped =>
              \E i \in DOMAIN stream :
                  stream[i].type = "command-cancelled" /\ stream[i].st = "failed"
      BY <1>4 DEF Reported, RefusedByCancellation
    <2> QED
      BY <2>2, <2>3, <2>4 DEF ReportMatchesLog
  <1>5. CASE effective \notin Outcomes
    BY <1>5 DEF ReportMatchesLog, Outcomes, TerminalEvent
  <1> QED
    BY <1>3, <1>4, <1>5 DEF Reported, ReportSettled

\* What runTracked reports is what the log says, however cancellers, failing appends and
\* refused events interleave: the last run-level terminal event on disk is the reported
\* one, a blocked run has none, and a completed run misses a checkpoint only when a
\* cancellation that refused it failed to be recorded (settle() before the report).
THEOREM ReportIsRecorded == Spec => []ReportMatchesLog
  <1>1. Spec => []Reported
    BY InitReported, NextReported, Inductive, PTL DEF Spec
  <1> QED
    BY <1>1, ReportedInLog, Inductive, PTL

-----------------------------------------------------------------------------
(* The execution implements CancelDecision.                                 *)

LEMMA RefinesInit == Init => Decision!Init
  <1> SUFFICES ASSUME Init PROVE Decision!Init
    OBVIOUS
  <1>1. DecisionTaken = "open"
    BY DEF Init, DecisionTaken
  <1>2. AnswersGiven = [c \in Callers |-> "none"]
    BY DEF Init, AnswersGiven
  <1> QED
    BY <1>1, <1>2 DEF Init, Decision!Init, NoStatus

\* A step that answers nobody.
LEMMA QuietStep ==
    ASSUME Decision!Decide, Decision!Report, AnswersGiven' = AnswersGiven,
           caller \in [Callers -> CallerStates]
    PROVE  Decision!Next
  <1>1. AnswersGiven' \in [Callers -> {"none", "accepted", "already-recorded",
                                       "already-settled", "rejected"}]
    BY DEF AnswersGiven, CallerStates
  <1>2. {} \in SUBSET Callers
    OBVIOUS
  <1>3. Decision!Tell
    BY <1>1, <1>2 DEF Decision!Tell
  <1> QED
    BY <1>3 DEF Decision!Next

\* A step that changes neither the decision nor the callers.
LEMMA EngineStepRefines ==
    ASSUME IInv, state' = state, caller' = caller, Decision!Report
    PROVE  Decision!Next
  <1>1. Decision!Decide
    BY DEF Decision!Decide, DecisionTaken
  <1>2. AnswersGiven' = AnswersGiven
    BY DEF AnswersGiven
  <1> QED
    BY <1>1, <1>2, QuietStep DEF IInv, TypeOK

LEMMA RunTrackedRefines == IInv /\ RunTracked => Decision!Next
  <1> SUFFICES ASSUME IInv, RunTracked PROVE Decision!Next
    OBVIOUS
  <1>1. caller' = caller
    BY DEF RunTracked, SettleBeforeReport, CancellationWins, SettleInFinally,
           FinallyAfterCancellation
  <1>2. AnswersGiven' = AnswersGiven
    BY <1>1 DEF AnswersGiven
  <1>3. \/ state' = state
        \/ state = "running" /\ state' = "settling"
    BY DEF RunTracked, SettleBeforeReport, CancellationWins, SettleInFinally,
           FinallyAfterCancellation
  <1>4. Decision!Decide
    BY <1>3 DEF Decision!Decide, DecisionTaken
  <1>5. CASE SettleBeforeReport
    <2>1. effective = NoStatus /\ outcome \in Outcomes
      BY <1>5 DEF SettleBeforeReport, IInv, ReportMatchesPhase
    <2>2. Decision!Report
      BY <1>5, <2>1 DEF SettleBeforeReport, Decision!Report, Decision!Reports,
         DecisionTaken, NoStatus, Outcomes
    <2> QED
      BY <1>2, <1>4, <2>2, QuietStep DEF IInv, TypeOK
  <1>6. CASE CancellationWins
    <2>1. effective = NoStatus
      BY <1>6 DEF CancellationWins, IInv, ReportMatchesPhase
    <2>2. Decision!Report
      BY <1>6, <2>1 DEF CancellationWins, Decision!Report, Decision!Reports,
         DecisionTaken, NoStatus
    <2> QED
      BY <1>2, <1>4, <2>2, QuietStep DEF IInv, TypeOK
  <1>7. CASE SettleInFinally \/ FinallyAfterCancellation
    <2>1. Decision!Report
      BY <1>7 DEF SettleInFinally, FinallyAfterCancellation, Decision!Report
    <2> QED
      BY <1>2, <1>4, <2>1, QuietStep DEF IInv, TypeOK
  <1> QED
    BY <1>5, <1>6, <1>7 DEF RunTracked

LEMMA CancelRefines == ASSUME NEW c \in Callers
                       PROVE  IInv /\ (FindActive(c) \/ Cancel(c)) => Decision!Next
  <1> SUFFICES ASSUME IInv, FindActive(c) \/ Cancel(c) PROVE Decision!Next
    OBVIOUS
  <1>1. Decision!Report
    BY DEF FindActive, Cancel, Decision!Report
  <1>2. Decision!Decide
    BY DEF FindActive, Cancel, Decision!Decide, DecisionTaken, IInv, PromiseMatchesState,
       TypeOK, States
  <1>3. caller \in [Callers -> CallerStates]
    BY DEF IInv, TypeOK
  <1>4. CASE \E a \in {"found", "waiting-first", "waiting-shared"} :
                 /\ caller[c] \in {"idle", "found"}
                 /\ caller' = [caller EXCEPT ![c] = a]
    <2>1. AnswersGiven' = AnswersGiven
      BY <1>3, <1>4 DEF AnswersGiven
    <2> QED
      BY <1>1, <1>2, <1>3, <2>1, QuietStep
  <1>5. CASE /\ caller[c] = "found"
             /\ \/ /\ caller' = [caller EXCEPT ![c] = "already-recorded"]
                   /\ state = "cancelled" /\ state' = state
                \/ /\ caller' = [caller EXCEPT ![c] = "already-settled"]
                   /\ state = "settling" /\ state' = state
    <2>1. AnswersGiven' \in [Callers -> {"none", "accepted", "already-recorded",
                                         "already-settled", "rejected"}]
      BY <1>3, <1>5 DEF AnswersGiven, CallerStates
    <2>2. \A d \in Callers : d # c => AnswersGiven'[d] = AnswersGiven[d]
      BY <1>3, <1>5 DEF AnswersGiven
    <2>3. AnswersGiven[c] = "none" /\ AnswersGiven'[c] \in Decision!Answers(DecisionTaken')
      BY <1>3, <1>5 DEF AnswersGiven, Decision!Answers, DecisionTaken
    <2>4. Decision!Tell
      <3>1. {} \in SUBSET Callers
        OBVIOUS
      <3> QED
        BY <2>1, <2>2, <2>3, <3>1 DEF Decision!Tell
    <2> QED
      BY <1>1, <1>2, <2>4 DEF Decision!Next
  <1> QED
    BY <1>4, <1>5 DEF FindActive, Cancel

LEMMA AppendRefines == ASSUME NEW i \in DOMAIN stream
                       PROVE  IInv /\ (AppendSucceeds(i) \/ AppendFails(i)) => Decision!Next
  <1> SUFFICES ASSUME IInv, AppendSucceeds(i) \/ AppendFails(i) PROVE Decision!Next
    OBVIOUS
  <1>1. IsHead(i)
    BY DEF AppendSucceeds, AppendFails
  <1>2. i # 0
    BY DEF IInv, TypeOK
  <1>3. caller \in [Callers -> CallerStates]
    BY DEF IInv, TypeOK
  <1>4. CASE stream[i].type # "command-cancelled"
    <2>1. \/ effective' = effective
          \/ effective = NoStatus /\ effective' = "rejected"
      BY <1>2, <1>4 DEF AppendSucceeds, AppendFails, WalkerThrows, IInv, ReportMatchesPhase,
         AwaitingMatchesPhase
    <2>2. Decision!Report
      <3>1. effective' # effective => DecisionTaken' \in {"recorded", "open"}
        BY <1>2, <1>4 DEF DecisionTaken, AppendSucceeds, AppendFails, WalkerThrows, IInv,
           ReportMatchesPhase, AwaitingMatchesPhase
      <3>2. /\ "rejected" \in Decision!Reports("recorded")
            /\ "rejected" \in Decision!Reports("open")
        BY DEF Decision!Reports
      <3> QED
        BY <2>1, <3>1, <3>2 DEF Decision!Report, NoStatus
    <2>3. state' = state /\ caller' = caller
      BY <1>4 DEF AppendSucceeds, AppendFails
    <2> QED
      BY <2>2, <2>3, EngineStepRefines
  <1>5. CASE stream[i].type = "command-cancelled" /\ AppendSucceeds(i)
    <2>1. /\ state = "persisting-cancellation" /\ state' = "cancelled"
          /\ caller' = Answered("accepted", "already-recorded") /\ effective' = effective
      BY <1>1, <1>5, OnlyCancellation DEF AppendSucceeds
    <2>2. Decision!Decide /\ Decision!Report
          /\ DecisionTaken = "open" /\ DecisionTaken' = "recorded"
      BY <2>1 DEF Decision!Decide, Decision!Report, DecisionTaken
    <2> DEFINE first == {c \in Callers : caller[c] = "waiting-first"}
    <2>3. \A c, d \in first : c = d
      BY DEF IInv, WaitersMatchState
    <2>4. AnswersGiven' \in [Callers -> {"none", "accepted", "already-recorded",
                                         "already-settled", "rejected"}]
      BY <1>3, <2>1 DEF AnswersGiven, Answered, CallerStates
    <2>5. \A c \in first : AnswersGiven[c] = "none" /\ AnswersGiven'[c] = "accepted"
      BY <2>1 DEF AnswersGiven, Answered
    <2>6. \A c \in Callers \ first :
              \/ AnswersGiven'[c] = AnswersGiven[c]
              \/ AnswersGiven[c] = "none" /\ AnswersGiven'[c] = "already-recorded"
      BY <2>1 DEF AnswersGiven, Answered
    <2>7. Decision!Tell
      <3>1. first \in SUBSET Callers
        OBVIOUS
      <3>2. "already-recorded" \in Decision!Answers(DecisionTaken')
        BY <2>2 DEF Decision!Answers
      <3> HIDE DEF first
      <3> QED
        BY <2>2, <2>3, <2>4, <2>5, <2>6, <3>1, <3>2 DEF Decision!Tell
    <2> QED
      BY <2>2, <2>7 DEF Decision!Next
  <1>6. CASE stream[i].type = "command-cancelled" /\ AppendFails(i)
    <2>1. /\ state = "persisting-cancellation" /\ state' = "running"
          /\ caller' = Answered("rejected", "rejected") /\ SettlersReject
      BY <1>1, <1>6, OnlyCancellation DEF AppendFails
    <2>2. DecisionTaken = "open" /\ DecisionTaken' = "open"
      BY <2>1 DEF DecisionTaken
    <2>3. \/ effective' = effective
          \/ effective = NoStatus /\ effective' = "rejected"
      BY <2>1 DEF SettlersReject, IInv, ReportMatchesPhase, TypeOK
    <2>4. Decision!Decide /\ Decision!Report
      BY <2>2, <2>3 DEF Decision!Decide, Decision!Report, Decision!Reports, NoStatus
    <2>5. AnswersGiven' \in [Callers -> {"none", "accepted", "already-recorded",
                                         "already-settled", "rejected"}]
      BY <1>3, <2>1 DEF AnswersGiven, Answered, CallerStates
    <2>6. \A c \in Callers :
              \/ AnswersGiven'[c] = AnswersGiven[c]
              \/ AnswersGiven[c] = "none" /\ AnswersGiven'[c] = "rejected"
      BY <2>1 DEF AnswersGiven, Answered
    <2>7. Decision!Tell
      <3>1. {} \in SUBSET Callers /\ "rejected" \in Decision!Answers(DecisionTaken')
        BY <2>2 DEF Decision!Answers
      <3> QED
        BY <2>5, <2>6, <3>1 DEF Decision!Tell
    <2> QED
      BY <2>4, <2>7 DEF Decision!Next
  <1> QED
    BY <1>4, <1>5, <1>6

\* One execution of a run decides once between recording a cancellation and closing,
\* and what it tells its cancellers and reports agrees with that decision.
THEOREM DecisionImplemented == Spec => ImplementsDecision
  <1>1. IInv /\ [Next]_vars => [Decision!Next]_(Decision!vars)
    <2> SUFFICES ASSUME IInv, [Next]_vars PROVE [Decision!Next]_(Decision!vars)
      OBVIOUS
    <2>1. CASE Engine \/ EmitBackgroundEvent
      <3>1. state' = state /\ caller' = caller /\ effective' = effective
        BY <2>1 DEF Engine, EnterEngine, EmitStepEvent, EngineReturns, EmitBackgroundEvent
      <3> QED
        BY <3>1, EngineStepRefines DEF Decision!Report
    <2>2. CASE FileSystem
      BY <2>2, AppendRefines DEF FileSystem
    <2>3. CASE RunTracked
      BY <2>3, RunTrackedRefines
    <2>4. CASE \E c \in Callers : FindActive(c) \/ Cancel(c)
      BY <2>4, CancelRefines
    <2>5. CASE UNCHANGED vars
      BY <2>5 DEF vars, Decision!vars, DecisionTaken, AnswersGiven
    <2> QED
      BY <2>1, <2>2, <2>3, <2>4, <2>5 DEF Next
  <1> QED
    BY <1>1, RefinesInit, Inductive, PTL DEF Spec, ImplementsDecision, Decision!Spec

=============================================================================
