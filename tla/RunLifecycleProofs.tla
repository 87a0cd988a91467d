-------------------------- MODULE RunLifecycleProofs ---------------------------
(***************************************************************************)
(* Executions of a run are serial, its end stands, and a question takes    *)
(* one answer, for any commands, processes, questions and deaths.          *)
(*                                                                         *)
(* ExecutionsAreSerial needs the lease: an executor's is on disk, because  *)
(* it is removed under the marker, by its owner or from a dead process     *)
(* (Holders, Targets, Markers).  The action properties need what the log   *)
(* and a command's copy of it say together (Consistent), how far an        *)
(* execution can be from them (Executions), and that who judged a run free *)
(* judged before the execution that is going on now began (Judged): acting *)
(* on a log that is still the one it read, it meets no execution.          *)
(***************************************************************************)
EXTENDS RunLifecycle, TLAPS

\* Where an agent holds the lease, and where it holds the marker.
Executing == Engine \cup {"tracking", "settling"}

Marked(a) ==
    \/ pc[a] \in {"checking", "removing", "unmarking"}
    \/ pc[a] = "recording" /\ target[a] # NoLease

Own(a) == [ex |-> ex[a], proc |-> ProcOf[a]]

-----------------------------------------------------------------------------
(* One execution at a time.                                                 *)

\* A command runs exactly as long as its process, an execution as it is controlled.
Alive ==
    \A a \in Agents :
        /\ pc[a] = "dead" <=> ProcOf[a] \notin alive
        /\ ctl[a] # "none" <=> pc[a] \in Executing

\* Execution ids are given out once.
Ids ==
    /\ lease # NoLease => lease.ex <= execs
    /\ log.by <= execs
    /\ \A a \in Agents : ex[a] <= execs /\ seen[a].by <= execs
    /\ \A a \in Agents : pc[a] \in Executing => ex[a] # 0
    /\ \A a, b \in Agents : ex[a] = ex[b] /\ ex[a] # 0 => a = b

Holders == \A a \in Agents : pc[a] \in Executing => lease = Own(a)

\* What is retired is the agent's own lease or a dead process's.
Targets ==
    \A a \in Agents :
        /\ pc[a] \notin Retiring \cup {"cancelling"} => target[a] = NoLease
        /\ pc[a] \in Retiring \ {"recording"} => target[a] # NoLease
        /\ pc[a] = "recording" => ex[a] = 0
        /\ pc[a] \in Retiring /\ target[a] # NoLease =>
               target[a] = Own(a) \/ (ex[a] = 0 /\ target[a].proc \notin alive)

\* A living agent's marker stays, and with it the lease it found to be its target.
Markers ==
    \A a \in Agents :
        /\ Marked(a) => marker = a
        /\ Marked(a) /\ pc[a] \in {"recording", "removing"} => lease = target[a]

LastBy == \A a \in Agents : pc[a] \in Engine => log.by = ex[a] \/ (log.by = 0 /\ deleted)

Serial == TypeOK /\ Alive /\ Ids /\ Holders /\ Targets /\ Markers /\ LastBy

-----------------------------------------------------------------------------
(* What the log says, until a command acts on a stale one.                  *)

\* A question is open while its step is blocked, and before the run is recorded nothing is.
Consistent(l) ==
    /\ l.run => l.by # 0
    /\ l.open => l.run /\ l.step = "blocked" /\ l.last # "completed"
    /\ ~l.run => l.asks = 0 /\ l.step \in {"todo", "cancelled"} /\ l.last # "completed"

\* The events a command may run the run again on.
Rerunnable(l) == l.run /\ ~l.open /\ l.last # "completed"

\* A command's way into the engine.
Admitted(a) ==
    /\ pc[a] \in {"acquiring", "tracking", "beginning"} => cmd[a] \in {"run", "resume", "answer"}
    /\ pc[a] \in {"acquiring", "tracking"} /\ cmd[a] = "resume" => Rerunnable(seen[a])
    /\ pc[a] \in {"acquiring", "tracking", "beginning"} /\ cmd[a] = "run" =>
           /\ ~log.run /\ ~deleted
           /\ \A b \in Agents \ {a} : pc[b] \in {"idle", "dead", "listing", "cancelling"}

\* An execution finds the log as it left it, or cancelled, and is then refused.
Executions(a) ==
    /\ pc[a] = "beginning" /\ cmd[a] = "resume" => Rerunnable(log)
    /\ pc[a] \in {"entering", "working", "done"} =>
           /\ Rerunnable(log)
           /\ ctl[a] = "running" /\ cmd[a] # "resume" => log.step # "cancelled"
    /\ pc[a] = "delivering" => seen[a].open

\* Who found the run free read the log before any execution that is going on now.
Judged(a) ==
    /\ pc[a] \in {"deleting", "coldCancelling"} =>
           seen[a].run /\ \A b \in Agents : pc[b] \in Executing => seen[a].by # ex[b]
    /\ pc[a] = "judging" => seen[a].run
    /\ pc[a] = "coldCancelling" => Status(seen[a]) = "blocked"
    /\ pc[a] = "recording" => Status(seen[a]) = "in_progress"

Unstarted == ~deleted /\ ~log.run => log.step = "todo" /\ \A a \in Agents : ~seen[a].run

\* In a deleted run at most an answer begins, to be refused.
Deleted ==
    deleted =>
        /\ ~log.run
        /\ \A a \in Agents : pc[a] \in Engine => pc[a] = "beginning" /\ cmd[a] = "answer"

Coherent ==
    /\ Consistent(log) /\ Unstarted /\ Deleted
    /\ \A a \in Agents : Consistent(seen[a]) /\ Admitted(a) /\ Executions(a) /\ Judged(a)

IInv == Serial /\ (~blind => Coherent)

-----------------------------------------------------------------------------
(* The log's operators.                                                     *)

Hows == {"completed", "crashed", "cancelled"}

LEMMA EmptyLog == Empty \in Logs /\ Consistent(Empty) /\ ~Empty.run /\ Empty.by = 0 /\ Empty.step = "todo"
<1> QED BY LifecycleAssumption DEF Empty, Logs, StepStates, Consistent

\* A terminal event keeps whose run it is, and closes the question.
LEMMA EndedFacts ==
    ASSUME NEW l \in Logs, NEW how \in Hows
    PROVE  /\ Ended(l, how) \in Logs /\ EndedAt(l, how) \in Logs
           /\ \A m \in {Ended(l, how), EndedAt(l, how)} :
                 /\ m.run = l.run /\ m.by = l.by /\ m.asks = l.asks /\ m.done = l.done
                 /\ m.last = how /\ ~m.open
           /\ Ended(l, how).step = IF l.step \in {"in_progress", "blocked"} THEN how ELSE l.step
           /\ EndedAt(l, how).step = how
<1>1. /\ Ended(l, how) \in Logs
      /\ Ended(l, how).run = l.run /\ Ended(l, how).by = l.by /\ Ended(l, how).asks = l.asks
      /\ Ended(l, how).done = l.done /\ Ended(l, how).last = how /\ ~Ended(l, how).open
      /\ Ended(l, how).step = IF l.step \in {"in_progress", "blocked"} THEN how ELSE l.step
    BY DEF Ended, Logs, StepStates, Hows
<1> DEFINE m == Ended(l, how)
<1>2. EndedAt(l, how) = [m EXCEPT !.step = how]
    BY DEF EndedAt
<1> HIDE DEF m
<1>3. m \in Logs
    BY <1>1 DEF m
<1>4. /\ EndedAt(l, how) \in Logs /\ EndedAt(l, how).step = how
      /\ EndedAt(l, how).run = m.run /\ EndedAt(l, how).by = m.by /\ EndedAt(l, how).asks = m.asks
      /\ EndedAt(l, how).done = m.done /\ EndedAt(l, how).last = m.last /\ EndedAt(l, how).open = m.open
    BY <1>2, <1>3 DEF Logs, StepStates, Hows
<1> QED BY <1>1, <1>4 DEF m

\* What a command learns from a status.
LEMMA StatusFacts ==
    ASSUME NEW l \in Logs
    PROVE  /\ Status(l) = "blocked" => l.run /\ l.step = "blocked"
           /\ Status(l) = "in_progress" => l.run
           /\ Status(l) = "completed" => l.run /\ l.last = "completed" /\ l.step \notin {"in_progress", "blocked"}
           /\ Consistent(l) /\ Reruns(Status(l)) => Rerunnable(l)
           /\ l.run /\ l.last # "none" /\ l.step \notin {"in_progress", "blocked"} => Status(l) = l.last
<1> QED BY DEF Status, Logs, StepStates, Consistent, Reruns, Rerunnable

\* Moving on, an agent keeps what it read, or forgets it.
LEMMA GotoFacts ==
    ASSUME NEW a \in Agents, NEW place \in Places, TypeOK, Goto(a, place)
    PROVE  /\ pc' \in [Agents -> Places] /\ seen' \in [Agents -> Logs]
           /\ pc'[a] = place /\ \A b \in Agents \ {a} : pc'[b] = pc[b] /\ seen'[b] = seen[b]
           /\ seen'[a] \in {seen[a], Empty} /\ (place \in Informed => seen'[a] = seen[a])
<1>1. pc' = [pc EXCEPT ![a] = place] /\ seen' \in {seen, [seen EXCEPT ![a] = Empty]}
      /\ (place \in Informed => seen' = seen)
    BY DEF Goto
<1> QED BY <1>1, EmptyLog DEF TypeOK

LEMMA ReadsLogFacts ==
    ASSUME NEW a \in Agents, NEW place \in Places, TypeOK, ReadsLog(a, place)
    PROVE  /\ pc' \in [Agents -> Places] /\ seen' \in [Agents -> Logs]
           /\ pc'[a] = place /\ \A b \in Agents \ {a} : pc'[b] = pc[b] /\ seen'[b] = seen[b]
           /\ seen'[a] \in {log, Empty} /\ (place \in Informed => seen'[a] = log)
<1>1. pc' = [pc EXCEPT ![a] = place] /\ \E l \in {log, Empty} : seen' = [seen EXCEPT ![a] = l]
      /\ (place \in Informed => l = log)
    BY DEF ReadsLog
<1> QED BY <1>1, EmptyLog DEF TypeOK

LEMMA OneExecutes ==
    ASSUME Serial, NEW a \in Agents, NEW b \in Agents, pc[a] \in Executing, pc[b] \in Executing
    PROVE  a = b
<1>1. lease.ex = ex[a] /\ lease.ex = ex[b] /\ ex[a] # 0
    BY DEF Serial, Holders, Own, Ids
<1> QED BY <1>1 DEF Serial, Ids

-----------------------------------------------------------------------------
(* Executions are serial.                                                   *)

\* One agent goes on; what it read and wrote is well formed and given out.
Moves(a, place) ==
    /\ pc' \in [Agents -> Places]
    /\ pc'[a] = place /\ \A b \in Agents \ {a} : pc'[b] = pc[b]
    /\ seen' \in [Agents -> Logs] /\ \A b \in Agents : seen'[b].by <= execs

LEMMA GotoMoves ==
    ASSUME Serial, NEW a \in Agents, NEW place \in Places, Goto(a, place) \/ ReadsLog(a, place)
    PROVE  Moves(a, place)
<1>1. TypeOK /\ Ids /\ execs \in Nat
    BY DEF Serial, TypeOK
<1>2. CASE Goto(a, place)
    BY <1>1, <1>2, GotoFacts, EmptyLog DEF Moves, Ids
<1>3. CASE ReadsLog(a, place)
    BY <1>1, <1>3, ReadsLogFacts, EmptyLog DEF Moves, Ids
<1> QED BY <1>2, <1>3

\* What an action leaves of the types when the lease is not its business.
Written ==
    /\ log' \in Logs
    /\ cmd' \in [Agents -> {"run", "resume", "answer", "cancel", "delete"}]
    /\ ctl' \in [Agents -> {"none", "running", "cancelled"}]
    /\ shown' \in [Agents -> 0..MaxAsks]
    /\ commands' \in 0..MaxCommands
    /\ blind' \in BOOLEAN /\ deleted' \in BOOLEAN
    /\ \A b \in Agents : ctl'[b] = "none" <=> ctl[b] = "none"
    /\ deleted => deleted'
    /\ log'.by = log.by \/ (log'.by = 0 /\ deleted')

\* The moves that leave the lease alone.
LEMMA SerialKept ==
    ASSUME Serial, NEW a \in Agents, NEW place \in Places, Moves(a, place), Written,
           UNCHANGED <<alive, lease, marker, ex, target, execs>>,
           pc[a] # "dead", place # "dead",
           pc[a] \notin Retiring \cup {"cancelling"}, place \notin Retiring \cup {"cancelling"},
           place \in Executing <=> pc[a] \in Executing,
           place \in Engine => pc[a] \in Engine
    PROVE  Serial'
<1>1. TypeOK'
    <2>1. ex[a] # 0 => place \in Engine \cup Retiring \cup {"tracking", "settling"}
        BY DEF Serial, TypeOK, Executing
    <2> QED BY <2>1 DEF Serial, TypeOK, Moves, Written
<1>2. Alive'
    BY DEF Serial, Alive, Moves, Written
<1>3. Ids'
    <2>1. log'.by <= execs
        BY DEF Serial, TypeOK, Ids, Written
    <2>2. \A b \in Agents : pc'[b] \in Executing => ex[b] # 0
        BY DEF Serial, Ids, Moves
    <2> QED BY <2>1, <2>2 DEF Serial, Ids, Moves
<1>4. Holders'
    BY DEF Serial, Holders, Own, Moves
<1>5. Targets'
    BY DEF Serial, Targets, Own, Moves, Retiring
<1>6. Markers'
    <2>1. ~Marked(a) /\ ~Marked(a)'
        BY DEF Marked, Moves, Retiring
    <2>2. \A b \in Agents \ {a} : Marked(b)' <=> Marked(b)
        BY DEF Marked, Moves
    <2> QED BY <2>1, <2>2 DEF Serial, Markers, Moves, Retiring
<1>7. LastBy'
    BY DEF Serial, LastBy, Moves, Written
<1> QED BY <1>1, <1>2, <1>3, <1>4, <1>5, <1>6, <1>7 DEF Serial

\* What the engine appends keeps the run and its execution.
LEMMA Appends ==
    ASSUME Serial
    PROVE  /\ log \in Logs
           /\ [log EXCEPT !.run = TRUE] \in Logs /\ [log EXCEPT !.run = TRUE].by = log.by
           /\ [log EXCEPT !.step = "in_progress"] \in Logs
           /\ [log EXCEPT !.step = "in_progress"].by = log.by
           /\ [log EXCEPT !.step = "in_progress", !.open = FALSE] \in Logs
           /\ [log EXCEPT !.step = "in_progress", !.open = FALSE].by = log.by
           /\ [log EXCEPT !.step = "completed", !.done = TRUE, !.open = FALSE] \in Logs
           /\ [log EXCEPT !.step = "completed", !.done = TRUE, !.open = FALSE].by = log.by
           /\ log.asks < MaxAsks =>
                  /\ [log EXCEPT !.step = "blocked", !.asks = @ + 1, !.open = TRUE] \in Logs
                  /\ [log EXCEPT !.step = "blocked", !.asks = @ + 1, !.open = TRUE].by = log.by
                  /\ log.asks + 1 \in 0..MaxAsks
<1>1. log \in Logs /\ log.asks \in 0..MaxAsks /\ MaxAsks \in Nat
    BY LifecycleAssumption DEF Serial, TypeOK, Logs
<1>2. log.asks < MaxAsks => log.asks + 1 \in 0..MaxAsks
    BY <1>1
<1> DEFINE n == log.asks + 1
<1>3. log.asks < MaxAsks =>
          /\ [log EXCEPT !.step = "blocked", !.asks = n, !.open = TRUE] \in Logs
          /\ [log EXCEPT !.step = "blocked", !.asks = n, !.open = TRUE].by = log.by
    <2> HIDE DEF n
    <2> QED BY <1>1, <1>2 DEF n, Logs, StepStates
<1> QED BY <1>1, <1>2, <1>3 DEF Logs, StepStates

LEMMA SerialExecution ==
    ASSUME Serial, NEW a \in Agents,
           \/ Begin(a) \/ Drift(a) \/ Reload(a) \/ Deliver(a) \/ StartStep(a) \/ EndStep(a)
           \/ Complete(a) \/ Stop(a)
    PROVE  Serial'
<1>0. TypeOK /\ log \in Logs /\ MaxAsks \in Nat /\ commands \in 0..MaxCommands
      /\ shown \in [Agents -> 0..MaxAsks] /\ blind \in BOOLEAN /\ seen[a] \in Logs
    BY LifecycleAssumption DEF Serial, TypeOK
<1>e. \A how \in Hows : /\ Ended(log, how) \in Logs /\ Ended(log, how).by = log.by
                        /\ EndedAt(log, how) \in Logs /\ EndedAt(log, how).by = log.by
    BY <1>0, EndedFacts
<1>z. [shown EXCEPT ![a] = 0] \in [Agents -> 0..MaxAsks]
    BY <1>0
<1> DEFINE Kept(place) == /\ Goto(a, place) \/ ReadsLog(a, place)
                          /\ place \in Engine \cup {"settling"}
                          /\ Written /\ UNCHANGED <<alive, lease, marker, ex, target, execs>>
<1>1. ASSUME NEW l \in Logs, l.by = log.by, Writes(a, l, FALSE) \/ Writes(a, l, TRUE),
             shown' \in [Agents -> 0..MaxAsks],
             UNCHANGED <<cmd, ctl, commands, deleted>>
      PROVE  Written
    BY <1>0, <1>1 DEF TypeOK, Written, Writes
<1>2. pc[a] \in Engine
    BY DEF Begin, Drift, Reload, Deliver, StartStep, EndStep, Complete, Stop, Engine
<1>3. \E place \in Places : Kept(place)
    <2>1. CASE Begin(a)
        BY <2>1, <1>0, <1>1, Appends DEF Begin, EngineWrites, Engine, Places
    <2>2. CASE Drift(a)
        BY <2>2, <1>z, <1>1, <1>e DEF Drift, EngineWrites, Engine, Places, Hows
    <2>3. CASE Reload(a)
        BY <2>3, <1>0 DEF Reload, Written, TypeOK, files, history, Engine, Places
    <2>4. CASE Deliver(a)
        BY <2>4, <1>z, <1>1, Appends DEF Deliver, Engine, Places
    <2>5. CASE StartStep(a)
        BY <2>5, <1>0, <1>1, Appends DEF StartStep, EngineWrites, Engine, Places
    <2>6. CASE EndStep(a)
        BY <2>6, <1>0, <1>1, <1>e, Appends DEF EndStep, EngineWrites, Engine, Places, Hows
    <2>7. CASE Complete(a)
        BY <2>7, <1>0, <1>1, <1>e DEF Complete, EngineWrites, Engine, Places, Hows
    <2>8. CASE Stop(a)
        BY <2>8, <1>0 DEF Stop, Written, TypeOK, files, history, Engine, Places
    <2> QED BY <2>1, <2>2, <2>3, <2>4, <2>5, <2>6, <2>7, <2>8
<1>4. PICK place \in Places : Kept(place)
    BY <1>3
<1>5. Moves(a, place)
    BY <1>4, GotoMoves
<1> QED BY <1>2, <1>4, <1>5, SerialKept DEF Engine, Executing, Retiring

LEMMA SerialCommand ==
    ASSUME Serial, NEW a \in Agents,
           \/ Issue(a) \/ Reconcile(a) \/ Judge(a) \/ Respond(a) \/ ColdCancel(a) \/ Delete(a)
           \/ (Resolve(a) \/ Load(a)) /\ pc'[a] # "cancelling"
           \/ Inspect(a) /\ pc'[a] \notin Retiring
           \/ Acquire(a) /\ lease # NoLease
    PROVE  Serial'
<1>0. TypeOK /\ log \in Logs /\ MaxAsks \in Nat /\ commands \in 0..MaxCommands
      /\ MaxCommands \in Nat /\ shown \in [Agents -> 0..MaxAsks] /\ blind \in BOOLEAN
      /\ seen[a] \in Logs /\ seen[a].asks \in 0..MaxAsks
    BY LifecycleAssumption DEF Serial, TypeOK, Logs
<1>z. \A n \in 0..MaxAsks : [shown EXCEPT ![a] = n] \in [Agents -> 0..MaxAsks]
    BY <1>0
<1>e. Ended(log, "cancelled") \in Logs /\ Ended(log, "cancelled").by = log.by
    BY <1>0, EndedFacts DEF Hows
<1> DEFINE Kept(place) == /\ Goto(a, place) \/ ReadsLog(a, place)
                          /\ place \notin Executing \cup Retiring \cup {"dead", "cancelling"}
                          /\ Written /\ UNCHANGED <<alive, lease, marker, ex, target, execs>>
           Aside == {"idle", "listing", "reading", "inspecting", "loading", "judging",
                     "asking", "acquiring", "coldCancelling", "deleting"}
<1>p. Aside \subseteq Places \ (Executing \cup Retiring \cup {"dead", "cancelling"})
    BY DEF Places, Executing, Engine, Retiring
<1>1. CASE pc[a] \in Aside /\ \E place \in Aside : Kept(place)
    <2>1. PICK place \in Aside : Kept(place)
        BY <1>1
    <2>2. Moves(a, place)
        BY <2>1, <1>p, GotoMoves
    <2>3. place \in Places /\ pc[a] \notin Executing \cup Retiring \cup {"dead", "cancelling"}
        BY <1>1, <1>p
    <2>4. Engine \subseteq Executing
        BY DEF Executing
    <2> HIDE DEF Aside
    <2> QED BY <2>1, <2>2, <2>3, <2>4, SerialKept
<1>2. CASE Issue(a)
    BY <1>0, <1>1, <1>2, <1>p DEF Issue, Written, TypeOK, files, history
<1>3. CASE Reconcile(a)
    BY <1>0, <1>1, <1>3, <1>p DEF Reconcile, Written, TypeOK, files, history
<1>4. CASE Judge(a)
    BY <1>0, <1>z, <1>1, <1>4, <1>p DEF Judge, Written, TypeOK, files, history
<1>5. CASE Respond(a)
    BY <1>0, <1>z, <1>1, <1>5, <1>p DEF Respond, Written, TypeOK, files, history
<1>6. CASE ColdCancel(a)
    BY <1>0, <1>e, <1>1, <1>6, <1>p DEF ColdCancel, Writes, Written, TypeOK
<1>7. CASE Delete(a)
    BY <1>0, <1>1, <1>7, <1>p, EmptyLog DEF Delete, Writes, Written, TypeOK
<1>8. CASE (Resolve(a) \/ Load(a)) /\ pc'[a] # "cancelling"
    <2>1. ~CancelsActive(a)
        BY <1>8, <1>0 DEF CancelsActive, ReadsLog, TypeOK
    <2> QED BY <2>1, <1>0, <1>1, <1>8, <1>p DEF Resolve, Load, Written, TypeOK, files, history
<1>10. CASE Inspect(a) /\ pc'[a] \notin Retiring
    <2>1. ~Goto(a, "marking") /\ ~Goto(a, "recording")
        BY <1>10, <1>0 DEF Goto, TypeOK, Retiring
    <2> QED BY <2>1, <1>0, <1>1, <1>10, <1>p DEF Inspect, Written, TypeOK, files, history
<1>9. CASE Acquire(a) /\ lease # NoLease
    BY <1>0, <1>z, <1>1, <1>9, <1>p DEF Acquire, Written, TypeOK, history
<1> QED BY <1>2, <1>3, <1>4, <1>5, <1>6, <1>7, <1>8, <1>9, <1>10

\* The lease changes hands: nobody executes without one.
LEMMA SerialAcquire ==
    ASSUME Serial, NEW a \in Agents, Acquire(a), lease = NoLease
    PROVE  Serial'
<1> DEFINE id == execs + 1
<1>1. /\ pc[a] = "acquiring" /\ id \in Nat \ {0} /\ id > execs /\ execs' = id
      /\ lease' = [ex |-> id, proc |-> ProcOf[a]] /\ ex' = [ex EXCEPT ![a] = id]
      /\ ctl' = [ctl EXCEPT ![a] = "running"] /\ Goto(a, "tracking")
      /\ UNCHANGED <<shown, alive, log, marker, cmd, target, commands, blind, deleted>>
    BY DEF Acquire, history, Serial, TypeOK
<1>2. Moves(a, "tracking") /\ ProcOf[a] \in Procs
    BY <1>1, GotoMoves, LifecycleAssumption DEF Places
<1>3. \A b \in Agents : pc[b] \notin Executing
    BY DEF Serial, Holders, Own, NoLease, Ids
<1>4. "tracking" \in Executing /\ "tracking" \notin Engine \cup Retiring \cup {"dead", "cancelling"}
    BY DEF Executing, Engine, Retiring
<1>n. execs \in Nat /\ id \in Nat
    BY DEF Serial, TypeOK
<1> HIDE DEF id
<1>5. TypeOK'
    BY <1>1, <1>2 DEF Serial, TypeOK, Moves
<1>6. Alive'
    BY <1>1, <1>2, <1>4 DEF Serial, TypeOK, Alive, Moves
<1>7. Ids'
    <2>1. \A b \in Agents : ex[b] \in Nat /\ ex[b] <= execs /\ ex'[b] = IF b = a THEN id ELSE ex[b]
        BY <1>1 DEF Serial, TypeOK, Ids
    <2>2. \A b \in Agents : seen'[b].by \in Nat /\ seen'[b].by <= execs
        BY <1>2 DEF Moves, Logs
    <2>3. log.by \in Nat /\ log.by <= execs
        BY DEF Serial, TypeOK, Ids, Logs
    <2>4. \A n \in Nat : n <= execs => n <= execs' /\ n # id
        BY <1>1, <1>n
    <2>5. lease'.ex <= execs' /\ log'.by <= execs'
        BY <2>3, <2>4, <1>1, <1>n
    <2>6. \A b \in Agents : ex'[b] <= execs' /\ seen'[b].by <= execs'
        BY <2>1, <2>2, <2>4, <1>1, <1>n
    <2>7. \A b \in Agents : pc'[b] \in Executing => ex'[b] # 0
        BY <2>1, <1>1, <1>2, <1>3 DEF Moves
    <2>8. \A b, c \in Agents : ex'[b] = ex'[c] /\ ex'[b] # 0 => b = c
        BY <2>1, <2>4 DEF Serial, Ids
    <2> QED BY <2>5, <2>6, <2>7, <2>8 DEF Ids
<1>8. Holders'
    BY <1>1, <1>2, <1>3 DEF Holders, Own, Moves, Serial, TypeOK
<1>9. Targets'
    BY <1>1, <1>2, <1>4 DEF Serial, TypeOK, Targets, Own, Moves, Retiring
<1>10. Markers'
    BY <1>1, <1>2 DEF Serial, Markers, Targets, Retiring, Marked, Moves
<1>11. LastBy'
    BY <1>1, <1>2, <1>3, <1>4 DEF LastBy, Moves, Executing
<1> QED BY <1>5, <1>6, <1>7, <1>8, <1>9, <1>10, <1>11 DEF Serial

LEMMA SerialTrack ==
    ASSUME Serial, NEW a \in Agents, Track(a)
    PROVE  Serial'
<1>1. /\ pc[a] = "tracking" /\ log' = [log EXCEPT !.by = ex[a]] /\ blind' \in BOOLEAN
      /\ Goto(a, "beginning")
      /\ UNCHANGED <<alive, lease, marker, cmd, ctl, ex, target, shown, commands, execs, deleted>>
    BY DEF Track, Writes, Serial, TypeOK
<1>2. Moves(a, "beginning")
    BY <1>1, GotoMoves DEF Places, Engine
<1>3. log \in Logs /\ ex[a] \in Nat
    BY DEF Serial, TypeOK
<1>4. log' \in Logs /\ log'.by = ex[a]
    BY <1>1, <1>3 DEF Logs
<1>5. "beginning" \in Engine \cap Executing /\ pc[a] \in Executing
    BY <1>1 DEF Executing, Engine
<1>6. TypeOK'
    BY <1>1, <1>2, <1>4, <1>5 DEF Serial, TypeOK, Moves
<1>7. Alive'
    BY <1>1, <1>2, <1>5 DEF Serial, Alive, Moves
<1>8. Ids'
    BY <1>1, <1>2, <1>4, <1>5 DEF Serial, Ids, Moves
<1>9. Holders'
    BY <1>1, <1>2, <1>5 DEF Serial, Holders, Own, Moves
<1>10. Targets'
    BY <1>1, <1>2 DEF Serial, Targets, Own, Moves, Retiring
<1>11. Markers'
    BY <1>1, <1>2 DEF Serial, Markers, Marked, Moves
<1>12. LastBy'
    BY <1>1, <1>2, <1>4, <1>5, OneExecutes DEF LastBy, Moves, Executing
<1> QED BY <1>6, <1>7, <1>8, <1>9, <1>10, <1>11, <1>12 DEF Serial

\* A release begins with the agent's own lease for its target.
LEMMA SerialSettle ==
    ASSUME Serial, NEW a \in Agents, Settle(a)
    PROVE  Serial'
<1>1. /\ pc[a] = "settling" /\ ctl' = [ctl EXCEPT ![a] = "none"]
      /\ target' = [target EXCEPT ![a] = Own(a)] /\ Goto(a, "marking")
      /\ UNCHANGED <<alive, log, lease, marker, cmd, ex, commands, execs, blind, deleted>>
    BY DEF Settle, files, history, Own
<1>2. Moves(a, "marking")
    BY <1>1, GotoMoves DEF Places, Retiring
<1>3. shown' \in [Agents -> 0..MaxAsks]
    <2>1. MaxAsks \in Nat /\ shown \in [Agents -> 0..MaxAsks]
        BY LifecycleAssumption DEF Serial, TypeOK
    <2> QED BY <2>1 DEF Settle
<1>4. ex[a] # 0 /\ ex[a] \in Nat /\ ProcOf[a] \in Procs
    BY <1>1, LifecycleAssumption DEF Serial, Ids, TypeOK, Executing
<1>5. "marking" \in Retiring /\ "marking" \notin Engine \cup Executing
    BY DEF Retiring, Engine, Executing
<1>6. TypeOK'
    BY <1>1, <1>2, <1>3, <1>4, <1>5 DEF Serial, TypeOK, Moves, Own
<1>7. Alive'
    BY <1>1, <1>2, <1>5 DEF Serial, TypeOK, Alive, Moves
<1>8. Ids'
    BY <1>1, <1>2, <1>5 DEF Serial, Ids, Moves
<1>9. Holders'
    BY <1>1, <1>2, <1>5 DEF Serial, Holders, Own, Moves
<1>10. Targets'
    BY <1>1, <1>2, <1>4 DEF Serial, TypeOK, Targets, Own, Moves, Retiring, NoLease
<1>11. Markers'
    BY <1>1, <1>2 DEF Serial, TypeOK, Markers, Marked, Moves
<1>12. LastBy'
    BY <1>1, <1>2, <1>5 DEF Serial, LastBy, Moves
<1> QED BY <1>6, <1>7, <1>8, <1>9, <1>10, <1>11, <1>12 DEF Serial

\* The end of a retirement, with the marker or without.
LEMMA SerialReturned ==
    ASSUME Serial, NEW a \in Agents, Returned(a),
           UNCHANGED <<alive, log, lease, cmd, ctl, shown, commands, execs, blind, deleted>>,
           \/ pc[a] = "marking" /\ marker' = marker
           \/ pc[a] = "unmarking" /\ marker' = Nobody
    PROVE  Serial'
<1> DEFINE place == IF ex[a] = 0 THEN "loading" ELSE IF shown[a] # 0 THEN "asking" ELSE "idle"
<1>1. /\ Goto(a, place) /\ ex' = [ex EXCEPT ![a] = 0] /\ target' = [target EXCEPT ![a] = NoLease]
      /\ place \in Places
      /\ place \notin Executing \cup Retiring \cup {"dead", "cancelling"}
    BY DEF Returned, Places, Executing, Engine, Retiring
<1> HIDE DEF place
<1>2. Moves(a, place)
    BY <1>1, GotoMoves
<1>3. pc[a] \in Retiring /\ pc[a] \notin Executing
    BY DEF Retiring, Executing, Engine
<1>4. Engine \subseteq Executing
    BY DEF Executing
<1>5. TypeOK'
    BY <1>1, <1>2 DEF Serial, TypeOK, Moves, NoLease
<1>6. Alive'
    BY <1>1, <1>2, <1>3 DEF Serial, Alive, Moves, Retiring
<1>7. Ids'
    <2>1. \A b \in Agents : ex'[b] = IF b = a THEN 0 ELSE ex[b]
        BY <1>1 DEF Serial, TypeOK
    <2>2. \A b \in Agents : ex'[b] <= execs
        BY <2>1 DEF Serial, TypeOK, Ids
    <2> QED BY <1>1, <1>2, <1>3, <2>1, <2>2 DEF Serial, Ids, Moves
<1>8. Holders'
    BY <1>1, <1>2, <1>3 DEF Serial, TypeOK, Holders, Own, Moves
<1>9. Targets'
    BY <1>1, <1>2 DEF Serial, TypeOK, Targets, Own, Moves
<1>10. Markers'
    <2>1. ~Marked(a)'
        BY <1>1, <1>2 DEF Marked, Moves, Retiring
    <2>2. \A b \in Agents \ {a} : Marked(b)' => Marked(b) /\ marker # a
        BY <1>1, <1>2 DEF Serial, TypeOK, Marked, Moves, Markers
    <2>3. pc[a] = "unmarking" => marker = a
        BY DEF Serial, Markers, Marked
    <2> QED BY <1>1, <1>2, <2>1, <2>2, <2>3 DEF Serial, TypeOK, Markers, Moves
<1>11. LastBy'
    BY <1>1, <1>2, <1>4 DEF Serial, TypeOK, LastBy, Moves
<1> QED BY <1>5, <1>6, <1>7, <1>8, <1>9, <1>10, <1>11 DEF Serial

\* Nobody takes the marker from a living agent.
LEMMA SerialMark ==
    ASSUME Serial, NEW a \in Agents, Mark(a)
    PROVE  Serial'
<1>1. CASE MarkerHeld
    BY <1>1, SerialReturned DEF Mark, history
<1>2. CASE ~MarkerHeld
    <2>1. /\ pc[a] = "marking" /\ marker' = a /\ Goto(a, "checking")
          /\ UNCHANGED <<ex, target, alive, log, lease, cmd, ctl, shown, commands, execs, blind, deleted>>
        BY <1>2 DEF Mark, history
    <2>2. Moves(a, "checking")
        BY <2>1, GotoMoves DEF Places, Retiring
    <2>3. \A b \in Agents : ~Marked(b)
        <3>1. \A b \in Agents : Marked(b) => marker = b /\ ProcOf[b] \in alive
            BY DEF Serial, Markers, Marked, Alive
        <3> QED BY <3>1, <1>2 DEF MarkerHeld
    <2>4. "checking" \in Retiring /\ "checking" \notin Executing \cup Engine /\ pc[a] \notin Executing
        BY <2>1 DEF Retiring, Executing, Engine
    <2>5. TypeOK'
        BY <2>1, <2>2, <2>4 DEF Serial, TypeOK, Moves
    <2>6. Alive'
        BY <2>1, <2>2, <2>4 DEF Serial, Alive, Moves
    <2>7. Ids'
        BY <2>1, <2>2, <2>4 DEF Serial, Ids, Moves
    <2>8. Holders'
        BY <2>1, <2>2, <2>4 DEF Serial, Holders, Own, Moves
    <2>9. Targets'
        BY <2>1, <2>2 DEF Serial, Targets, Own, Moves, Retiring
    <2>10. Markers'
        BY <2>1, <2>2, <2>3 DEF Markers, Marked, Moves
    <2>11. LastBy'
        BY <2>1, <2>2, <2>4 DEF Serial, LastBy, Moves
    <2> QED BY <2>5, <2>6, <2>7, <2>8, <2>9, <2>10, <2>11 DEF Serial
<1> QED BY <1>1, <1>2

\* What keeps the marker keeps the lease that was found to be its target.
LEMMA SerialCheck ==
    ASSUME Serial, NEW a \in Agents, Check(a)
    PROVE  Serial'
<1>1. PICK place \in {"unmarking", "recording", "removing"} :
          /\ Goto(a, place)
          /\ place # "unmarking" => lease = target[a]
          /\ place = "recording" => ex[a] = 0
    BY DEF Check
<1>2. /\ pc[a] = "checking"
      /\ UNCHANGED <<alive, log, lease, marker, cmd, ctl, ex, target, shown, commands, execs, blind, deleted>>
    BY DEF Check, files, history
<1>3. place \in Retiring /\ place \in Places /\ place \notin Executing \cup Engine
      /\ pc[a] \notin Executing
    BY <1>2 DEF Retiring, Places, Executing, Engine
<1>4. Moves(a, place)
    BY <1>1, <1>3, GotoMoves
<1>5. target[a] # NoLease /\ marker = a
    BY <1>2 DEF Serial, Targets, Markers, Marked, Retiring
<1>6. TypeOK'
    BY <1>2, <1>3, <1>4 DEF Serial, TypeOK, Moves
<1>7. Alive'
    BY <1>2, <1>3, <1>4 DEF Serial, Alive, Moves, Retiring
<1>8. Ids'
    BY <1>2, <1>3, <1>4 DEF Serial, Ids, Moves
<1>9. Holders'
    BY <1>2, <1>3, <1>4 DEF Serial, Holders, Own, Moves
<1>10. Targets'
    BY <1>1, <1>2, <1>3, <1>4, <1>5 DEF Serial, Targets, Own, Moves, Retiring
<1>11. Markers'
    BY <1>1, <1>2, <1>4, <1>5 DEF Serial, Markers, Marked, Moves
<1>12. LastBy'
    BY <1>2, <1>3, <1>4 DEF Serial, LastBy, Moves
<1> QED BY <1>6, <1>7, <1>8, <1>9, <1>10, <1>11, <1>12 DEF Serial

LEMMA SerialRecordCrash ==
    ASSUME Serial, NEW a \in Agents, RecordCrash(a)
    PROVE  Serial'
<1> DEFINE place == IF target[a] = NoLease THEN "loading" ELSE "removing"
<1>1. /\ pc[a] = "recording" /\ log' = Ended(log, "crashed") /\ blind' \in BOOLEAN
      /\ Goto(a, place) /\ place \in Places /\ place \notin Executing \cup Engine
      /\ place \notin {"dead", "cancelling"}
      /\ UNCHANGED <<alive, lease, marker, cmd, ctl, ex, target, shown, commands, execs, deleted>>
    BY DEF RecordCrash, Writes, Places, Retiring, Executing, Engine, Serial, TypeOK
<1>2. Moves(a, place)
    BY <1>1, GotoMoves
<1>3. log' \in Logs /\ log'.by = log.by
    BY <1>1, EndedFacts DEF Serial, TypeOK, Hows
<1>4. ex[a] = 0 /\ pc[a] \notin Executing
    BY <1>1 DEF Serial, Targets, Executing, Engine
<1>5. TypeOK'
    BY <1>1, <1>2, <1>3, <1>4 DEF Serial, TypeOK, Moves
<1>6. Alive'
    BY <1>1, <1>2, <1>4 DEF Serial, Alive, Moves
<1>7. Ids'
    BY <1>1, <1>2, <1>3 DEF Serial, Ids, Moves
<1>8. Holders'
    BY <1>1, <1>2 DEF Serial, Holders, Own, Moves
<1>9. Targets'
    BY <1>1, <1>2, <1>4 DEF Serial, Targets, Own, Moves, Retiring
<1>10. Markers'
    BY <1>1, <1>2 DEF Serial, Markers, Marked, Moves
<1>11. LastBy'
    BY <1>1, <1>2, <1>3 DEF Serial, LastBy, Moves
<1> QED BY <1>5, <1>6, <1>7, <1>8, <1>9, <1>10, <1>11 DEF Serial

\* What is removed is nobody's: the agent's own, or a dead process's.
LEMMA SerialRemoveLease ==
    ASSUME Serial, NEW a \in Agents, RemoveLease(a)
    PROVE  Serial'
<1>1. /\ pc[a] = "removing" /\ lease' = NoLease /\ Goto(a, "unmarking")
      /\ UNCHANGED <<alive, log, marker, cmd, ctl, ex, target, shown, commands, execs, blind, deleted>>
    BY DEF RemoveLease, history
<1>2. Moves(a, "unmarking")
    BY <1>1, GotoMoves DEF Places, Retiring
<1>3. "unmarking" \in Retiring /\ "unmarking" \notin Executing \cup Engine
      /\ pc[a] \in Retiring /\ pc[a] \notin Executing
    BY <1>1 DEF Retiring, Executing, Engine
<1>4. lease = target[a] /\ marker = a /\ target[a] # NoLease
    BY <1>1 DEF Serial, Markers, Marked, Targets, Retiring
<1>5. ASSUME NEW b \in Agents, pc[b] \in Executing
      PROVE  FALSE
    <2>1. lease = Own(b) /\ ProcOf[b] \in alive /\ ex[b] # 0
        BY <1>5 DEF Serial, Holders, Alive, Executing, Engine, Ids
    <2>2. target[a] # Own(a)
        BY <2>1, <1>3, <1>4, <1>5 DEF Own, Serial, Ids
    <2>3. target[a].proc \notin alive
        BY <2>2, <1>3, <1>4 DEF Serial, Targets
    <2> QED BY <2>1, <2>3, <1>4 DEF Own
<1>6. TypeOK'
    BY <1>1, <1>2, <1>3 DEF Serial, TypeOK, Moves
<1>7. Alive'
    BY <1>1, <1>2, <1>3 DEF Serial, Alive, Moves
<1>8. Ids'
    BY <1>1, <1>2, <1>3, <1>5 DEF Serial, Ids, Moves, NoLease
<1>9. Holders'
    BY <1>1, <1>2, <1>3, <1>5 DEF Holders, Moves
<1>10. Targets'
    BY <1>1, <1>2, <1>3 DEF Serial, Targets, Own, Moves
<1>11. Markers'
    BY <1>1, <1>2, <1>4 DEF Serial, Markers, Marked, Moves
<1>12. LastBy'
    BY <1>1, <1>2, <1>3 DEF Serial, LastBy, Moves
<1> QED BY <1>6, <1>7, <1>8, <1>9, <1>10, <1>11, <1>12 DEF Serial

LEMMA SerialUnmark ==
    ASSUME Serial, NEW a \in Agents, Unmark(a)
    PROVE  Serial'
<1> QED BY SerialReturned DEF Unmark, history

\* A reclamation begins with a dead process's lease, or none, for its target.
LEMMA SerialReclaims ==
    ASSUME Serial, NEW a \in Agents, Inspect(a), pc'[a] \in Retiring
    PROVE  Serial'
<1>1. /\ pc[a] = "inspecting"
      /\ UNCHANGED <<alive, log, lease, marker, cmd, ctl, ex, shown, commands, execs, blind, deleted>>
    BY DEF Inspect, files, history
<1>2. ~Goto(a, "loading")
    BY DEF Goto, Serial, TypeOK, Retiring
<1>3. PICK place \in {"marking", "recording"} :
          /\ Goto(a, place)
          /\ \/ Dead(a, lease) /\ target' = [target EXCEPT ![a] = lease] /\ place = "marking"
             \/ place = "recording" /\ target' = target
    BY <1>2 DEF Inspect
<1>4. place \in Retiring /\ place \in Places /\ place \notin Executing \cup Engine
      /\ pc[a] \notin Executing
    BY <1>1 DEF Retiring, Places, Executing, Engine
<1>5. Moves(a, place)
    BY <1>3, <1>4, GotoMoves
<1>6. ex[a] = 0 /\ target[a] = NoLease
    BY <1>1 DEF Serial, TypeOK, Targets, Engine, Retiring
<1>7. TypeOK'
    <2>1. target' \in [Agents -> [ex : Nat \ {0}, proc : Procs] \union {NoLease}]
        BY <1>3 DEF Serial, TypeOK
    <2>2. ex'[a] = 0 /\ \A b \in Agents \ {a} : pc'[b] = pc[b]
        BY <1>1, <1>5, <1>6 DEF Moves
    <2> QED BY <1>1, <1>5, <2>1, <2>2 DEF Serial, TypeOK, Moves
<1>8. Alive'
    BY <1>1, <1>4, <1>5 DEF Serial, Alive, Moves, Retiring
<1>9. Ids'
    BY <1>1, <1>4, <1>5 DEF Serial, Ids, Moves
<1>10. Holders'
    BY <1>1, <1>4, <1>5 DEF Serial, Holders, Own, Moves
<1>11. Targets'
    <2>1. \A b \in Agents \ {a} : pc'[b] = pc[b] /\ ex'[b] = ex[b] /\ target'[b] = target[b]
        BY <1>1, <1>3, <1>5 DEF Serial, TypeOK, Moves
    <2>2. pc'[a] = place /\ ex'[a] = 0
        BY <1>1, <1>5, <1>6 DEF Moves
    <2>3. CASE Dead(a, lease) /\ target' = [target EXCEPT ![a] = lease] /\ place = "marking"
        <3>1. target'[a] = lease /\ lease # NoLease /\ lease.proc \notin alive'
            BY <1>1, <2>3 DEF Serial, TypeOK, Dead
        <3> QED BY <1>1, <2>1, <2>2, <2>3, <3>1 DEF Serial, Targets, Own, Retiring
    <2>4. CASE place = "recording" /\ target' = target
        BY <1>1, <1>6, <2>1, <2>2, <2>4 DEF Serial, Targets, Own, Retiring
    <2> QED BY <1>3, <2>3, <2>4
<1>12. Markers'
    BY <1>1, <1>3, <1>5, <1>6 DEF Serial, TypeOK, Markers, Marked, Moves
<1>13. LastBy'
    BY <1>1, <1>4, <1>5 DEF Serial, LastBy, Moves
<1> QED BY <1>7, <1>8, <1>9, <1>10, <1>11, <1>12, <1>13 DEF Serial

\* cancel keeps the execution it found.
LEMMA SerialFinds ==
    ASSUME Serial, NEW a \in Agents, Resolve(a) \/ Load(a), CancelsActive(a)
    PROVE  Serial'
<1>1. /\ pc[a] \in {"listing", "loading"}
      /\ UNCHANGED <<alive, log, lease, marker, cmd, ctl, ex, shown, commands, execs, blind, deleted>>
    BY DEF Resolve, Load, files, history
<1>2. PICK b \in Active(a) :
          target' = [target EXCEPT ![a] = Own(b)] /\ ReadsLog(a, "cancelling")
    BY DEF CancelsActive, Own
<1>3. Moves(a, "cancelling")
    BY <1>2, GotoMoves DEF Places
<1>4. Own(b) \in [ex : Nat \ {0}, proc : Procs]
    BY LifecycleAssumption DEF Serial, TypeOK, Active, Alive, Ids, Own
<1>5. "cancelling" \notin Executing \cup Retiring \cup Engine
      /\ pc[a] \notin Executing \cup Retiring
    BY <1>1 DEF Executing, Engine, Retiring
<1>6. TypeOK'
    BY <1>1, <1>2, <1>3, <1>4, <1>5 DEF Serial, TypeOK, Moves, Executing
<1>7. Alive'
    BY <1>1, <1>3, <1>5 DEF Serial, Alive, Moves
<1>8. Ids'
    BY <1>1, <1>3, <1>5 DEF Serial, Ids, Moves
<1>9. Holders'
    BY <1>1, <1>3, <1>5 DEF Serial, Holders, Own, Moves
<1>10. Targets'
    BY <1>1, <1>2, <1>3, <1>5 DEF Serial, TypeOK, Targets, Own, Moves, Retiring
<1>11. Markers'
    BY <1>1, <1>2, <1>3 DEF Serial, TypeOK, Markers, Marked, Moves
<1>12. LastBy'
    BY <1>1, <1>3, <1>5 DEF Serial, LastBy, Moves
<1> QED BY <1>6, <1>7, <1>8, <1>9, <1>10, <1>11, <1>12 DEF Serial

\* A cancelled execution is still one, until it has settled.
LEMMA SerialCancelActive ==
    ASSUME Serial, NEW a \in Agents, CancelActive(a)
    PROVE  Serial'
<1>1. /\ pc[a] = "cancelling" /\ target' = [target EXCEPT ![a] = NoLease] /\ Goto(a, "idle")
      /\ UNCHANGED <<alive, lease, marker, cmd, ex, shown, commands, execs, deleted>>
    BY DEF CancelActive
<1>2. Moves(a, "idle")
    BY <1>1, GotoMoves DEF Places
<1>3. /\ ctl' \in [Agents -> {"none", "running", "cancelled"}] /\ blind' \in BOOLEAN
      /\ \A b \in Agents : ctl'[b] = "none" <=> ctl[b] = "none"
    BY DEF CancelActive, Writes, Serial, TypeOK
<1>4. log' \in Logs /\ log'.by = log.by
    BY EndedFacts DEF CancelActive, Writes, Serial, TypeOK, Hows
<1>5. "idle" \notin Executing \cup Retiring \cup Engine /\ pc[a] \notin Executing \cup Retiring
    BY <1>1 DEF Executing, Engine, Retiring
<1>6. TypeOK'
    BY <1>1, <1>2, <1>3, <1>4, <1>5 DEF Serial, TypeOK, Moves, NoLease, Executing
<1>7. Alive'
    BY <1>1, <1>2, <1>3, <1>5 DEF Serial, Alive, Moves
<1>8. Ids'
    BY <1>1, <1>2, <1>4, <1>5 DEF Serial, Ids, Moves
<1>9. Holders'
    BY <1>1, <1>2, <1>5 DEF Serial, Holders, Own, Moves
<1>10. Targets'
    BY <1>1, <1>2, <1>5 DEF Serial, TypeOK, Targets, Own, Moves
<1>11. Markers'
    BY <1>1, <1>2 DEF Serial, TypeOK, Markers, Marked, Moves
<1>12. LastBy'
    BY <1>1, <1>2, <1>4, <1>5 DEF Serial, LastBy, Moves
<1> QED BY <1>6, <1>7, <1>8, <1>9, <1>10, <1>11, <1>12 DEF Serial

\* A death leaves the other processes' commands as they were.
Dies(p) ==
    /\ p \in alive /\ alive' = alive \ {p}
    /\ UNCHANGED <<log, lease, marker, commands, execs, blind, deleted>>
    /\ \A a \in Agents : ProcOf[a] = p =>
           /\ pc'[a] = "dead" /\ cmd'[a] = "run" /\ ctl'[a] = "none" /\ ex'[a] = 0
           /\ seen'[a] = Empty /\ target'[a] = NoLease
    /\ \A a \in Agents : ProcOf[a] # p =>
           /\ pc'[a] = pc[a] /\ cmd'[a] = cmd[a] /\ ctl'[a] = ctl[a] /\ ex'[a] = ex[a]
           /\ seen'[a] = seen[a] /\ target'[a] = target[a]

LEMMA Deaths == ASSUME NEW p \in Procs, Crash(p) PROVE Dies(p)
<1> QED BY DEF Crash, Dies, files, history

LEMMA SerialCrash ==
    ASSUME Serial, NEW p \in Procs, Crash(p)
    PROVE  Serial'
<1>1. Dies(p)
    BY Deaths
<1>2. "dead" \in Places /\ "dead" \notin Executing \cup Engine \cup Retiring \cup {"cancelling"}
    BY DEF Places, Executing, Engine, Retiring
<1>3. TypeOK'
    <2>1. /\ pc' \in [Agents -> Places] /\ seen' \in [Agents -> Logs] /\ ex' \in [Agents -> Nat]
          /\ cmd' \in [Agents -> {"run", "resume", "answer", "cancel", "delete"}]
          /\ ctl' \in [Agents -> {"none", "running", "cancelled"}]
        BY <1>2, EmptyLog DEF Serial, TypeOK, Crash
    <2>2. target' \in [Agents -> [ex : Nat \ {0}, proc : Procs] \union {NoLease}]
        BY DEF Serial, TypeOK, Crash
    <2>3. shown' \in [Agents -> 0..MaxAsks]
        <3>1. 0 \in 0..MaxAsks
            BY LifecycleAssumption
        <3> QED BY <3>1 DEF Serial, TypeOK, Crash
    <2> QED BY <2>1, <2>2, <2>3, <1>1 DEF Dies, Serial, TypeOK
<1>4. Alive'
    BY <1>1, <1>2, LifecycleAssumption DEF Dies, Serial, Alive
<1>5. Ids'
    BY <1>1, <1>2, EmptyLog DEF Dies, Serial, TypeOK, Ids
<1>6. Holders'
    BY <1>1, <1>2 DEF Dies, Serial, Holders, Own
<1>7. Targets'
    BY <1>1, <1>2 DEF Dies, Serial, Targets, Own, Retiring
<1>8. Markers'
    BY <1>1, <1>2 DEF Dies, Serial, Markers, Marked
<1>9. LastBy'
    BY <1>1, <1>2 DEF Dies, Serial, LastBy
<1> QED BY <1>3, <1>4, <1>5, <1>6, <1>7, <1>8, <1>9 DEF Serial

LEMMA InitInv == Init => IInv
<1> SUFFICES ASSUME Init PROVE IInv
    OBVIOUS
<1>1. "acquiring" \in Places /\ "idle" \in Places
      /\ "acquiring" \notin Executing \cup Engine \cup Retiring \cup {"cancelling", "dead"}
      /\ "idle" \notin Executing \cup Engine \cup Retiring \cup {"cancelling", "dead"}
    BY DEF Places, Executing, Engine, Retiring
<1>2. \A a \in Agents : pc[a] \in {"acquiring", "idle"}
    BY DEF Init
<1>3. TypeOK
    <2>1. 0 \in 0..MaxAsks /\ 0 \in 0..MaxCommands
        BY LifecycleAssumption
    <2> QED BY <2>1, <1>1, EmptyLog DEF Init, TypeOK, NoLease
<1>4. Alive /\ Ids /\ Holders /\ Targets /\ Markers /\ LastBy
    <2>1. Alive
        BY <1>1, <1>2, LifecycleAssumption DEF Init, Alive
    <2>2. Ids
        BY <1>1, <1>2, EmptyLog DEF Init, Ids
    <2>3. Holders /\ Targets /\ LastBy
        BY <1>1, <1>2 DEF Init, Holders, Targets, LastBy
    <2>4. Markers
        BY <1>2 DEF Markers, Marked
    <2> QED BY <2>1, <2>2, <2>3, <2>4
<1>5. Coherent
    <2>1. Consistent(log) /\ Unstarted /\ Deleted /\ \A a \in Agents : Consistent(seen[a])
        BY EmptyLog DEF Init, Unstarted, Deleted
    <2>2. \A a \in Agents : Admitted(a) /\ Executions(a) /\ Judged(a)
        BY EmptyLog DEF Init, Admitted, Executions, Judged
    <2> QED BY <2>1, <2>2 DEF Coherent
<1> QED BY <1>3, <1>4, <1>5 DEF IInv, Serial

LEMMA SerialNext == Serial /\ [Next]_vars => Serial'
<1> SUFFICES ASSUME Serial, [Next]_vars PROVE Serial'
    OBVIOUS
<1>1. ASSUME NEW a \in Agents, Execution(a)
      PROVE  Serial'
    <2>1. CASE \/ Begin(a) \/ Drift(a) \/ Reload(a) \/ Deliver(a) \/ StartStep(a) \/ EndStep(a)
               \/ Complete(a) \/ Stop(a)
        BY <2>1, SerialExecution
    <2>2. CASE Acquire(a)
        BY <2>2, SerialAcquire, SerialCommand
    <2>3. CASE Track(a) \/ Settle(a)
        BY <2>3, SerialTrack, SerialSettle
    <2>4. CASE Mark(a) \/ Check(a) \/ RecordCrash(a) \/ RemoveLease(a) \/ Unmark(a)
        BY <2>4, SerialMark, SerialCheck, SerialRecordCrash, SerialRemoveLease, SerialUnmark
    <2> QED BY <1>1, <2>1, <2>2, <2>3, <2>4 DEF Execution
<1>2. ASSUME NEW a \in Agents, Handler(a) \/ Issue(a) \/ Respond(a)
      PROVE  Serial'
    <2>1. CASE Reconcile(a) \/ Judge(a) \/ ColdCancel(a) \/ Delete(a) \/ Issue(a) \/ Respond(a)
        BY <2>1, SerialCommand
    <2>2. CASE Resolve(a) \/ Load(a)
        <3>1. pc'[a] = "cancelling" => CancelsActive(a)
            BY <2>2 DEF Resolve, Load, Goto, ReadsLog, Serial, TypeOK
        <3> QED BY <2>2, <3>1, SerialFinds, SerialCommand
    <2>3. CASE Inspect(a)
        BY <2>3, SerialReclaims, SerialCommand
    <2>4. CASE CancelActive(a)
        BY <2>4, SerialCancelActive
    <2> QED BY <1>2, <2>1, <2>2, <2>3, <2>4 DEF Handler
<1>3. CASE UNCHANGED vars
    BY <1>3 DEF vars, files, agent, history, Serial, TypeOK, Alive, Ids, Holders, Targets, Markers,
                LastBy, Marked, Own
<1> QED BY <1>1, <1>2, <1>3, SerialCrash DEF Next

\* Whatever the commands and whoever dies, every agent is in one of its places.
THEOREM TypeCorrect == Spec => []TypeOK
<1>1. Init => Serial
    BY InitInv DEF IInv
<1>2. Serial => TypeOK
    BY DEF Serial
<1> QED BY <1>1, <1>2, SerialNext, PTL DEF Spec

\* Executions of a run are serial over all processes: who executes is the last one recorded
\* in the log (runTracked, reconcileAbandonedRun, the lease).
THEOREM SerialExecutions == Spec => []ExecutionsAreSerial
<1>1. Init => Serial
    BY InitInv DEF IInv
<1>2. Serial => ExecutionsAreSerial
    BY DEF Serial, LastBy, ExecutionsAreSerial
<1> QED BY <1>1, <1>2, SerialNext, PTL DEF Spec

-----------------------------------------------------------------------------
(* What the log says.                                                       *)

\* The places where a command has not seen the run, or only its execution.
Quiet == {"idle", "dead", "listing", "cancelling"}

\* An agent moves on, and the others with it are where they were.
Alone(a, place) ==
    /\ pc'[a] = place
    /\ \A b \in Agents \ {a} :
           pc'[b] = pc[b] /\ cmd'[b] = cmd[b] /\ seen'[b] = seen[b] /\ ex'[b] = ex[b]
    /\ seen'[a] \in {seen[a], log, Empty}
    /\ place \in Executing => ex'[a] > execs \/ (pc[a] \in Executing /\ ex'[a] = ex[a])
    /\ pc[a] \in Quiet => log.run \/ (place \in Quiet /\ log'.run = log.run /\ deleted' = deleted)

\* What the log becomes, for the executions of others.
Respects(a) ==
    /\ Consistent(log')
    /\ ~deleted' /\ ~log'.run => ~deleted /\ ~log.run /\ log'.step = log.step
    /\ deleted' => ~log'.run
    /\ deleted' /\ ~deleted => \A b \in Agents \ {a} : pc[b] \notin Engine
    /\ \A b \in Agents \ {a} : pc[b] \in Engine =>
           /\ Rerunnable(log) => Rerunnable(log')
           /\ ctl'[b] = "running" => ctl[b] = "running"
                                     /\ (log'.step = "cancelled" => log.step = "cancelled")

LEMMA CoherentKept ==
    ASSUME Serial, Serial', Coherent, NEW a \in Agents, NEW place, Alone(a, place), Respects(a),
           deleted' /\ place \in Engine => place = "beginning" /\ cmd'[a] = "answer",
           Admitted(a)', Executions(a)', Judged(a)'
    PROVE  Coherent'
<1>1. Unstarted'
    <2>1. ~deleted' /\ ~log'.run => ~seen'[a].run
        BY EmptyLog DEF Coherent, Unstarted, Alone, Respects
    <2> QED BY <2>1 DEF Coherent, Unstarted, Alone, Respects
<1>2. Deleted'
    BY DEF Coherent, Deleted, Alone, Respects
<1>3. Consistent(seen'[a])
    BY EmptyLog DEF Coherent, Alone
<1>4. ASSUME NEW b \in Agents \ {a}
      PROVE  Consistent(seen'[b]) /\ Admitted(b)' /\ Executions(b)' /\ Judged(b)'
    <2>1. Consistent(seen[b]) /\ Admitted(b) /\ Executions(b) /\ Judged(b)
        BY DEF Coherent
    <2>2. pc'[b] = pc[b] /\ cmd'[b] = cmd[b] /\ seen'[b] = seen[b] /\ ex'[b] = ex[b]
        BY DEF Alone
    <2>3. Admitted(b)'
        <3>1. CASE pc[b] \in {"acquiring", "tracking", "beginning"} /\ cmd[b] = "run"
            <4>1. ~log.run /\ ~deleted /\ pc[a] \in Quiet
                BY <2>1, <3>1 DEF Admitted, Quiet
            <4>2. place \in Quiet /\ ~log'.run /\ ~deleted'
                BY <4>1 DEF Alone
            <4> QED BY <2>1, <2>2, <3>1, <4>2 DEF Admitted, Quiet, Alone
        <3> QED BY <2>1, <2>2, <3>1 DEF Admitted
    <2>4. Executions(b)'
        BY <2>1, <2>2 DEF Executions, Respects, Engine
    <2>5. Judged(b)'
        <3>1. ASSUME NEW c \in Agents, pc'[c] \in Executing, pc[b] \in {"deleting", "coldCancelling"}
              PROVE  seen[b].by # ex'[c]
            <4>1. seen[b].by <= execs /\ seen[b].by \in Nat /\ execs \in Nat /\ ex'[c] \in Nat
                BY DEF Serial, TypeOK, Ids, Logs
            <4>2. CASE c = a /\ ex'[a] > execs
                BY <4>1, <4>2
            <4>3. CASE ~(c = a /\ ex'[a] > execs)
                BY <2>1, <3>1, <4>3 DEF Judged, Alone
            <4> QED BY <4>2, <4>3
        <3> QED BY <2>1, <2>2, <3>1 DEF Judged
    <2> QED BY <2>1, <2>2, <2>3, <2>4, <2>5
<1> QED BY <1>1, <1>2, <1>3, <1>4 DEF Coherent, Respects

\* A step that writes nothing respects every execution.
LEMMA LogStays ==
    ASSUME Coherent, NEW a \in Agents, UNCHANGED <<log, deleted>>,
           \A b \in Agents \ {a} : ctl'[b] = ctl[b]
    PROVE  Respects(a)
<1> QED BY DEF Coherent, Respects, Deleted

LEMMA GotoAlone ==
    ASSUME Serial, NEW a \in Agents, NEW place \in Places, Goto(a, place) \/ ReadsLog(a, place),
           \A b \in Agents \ {a} : cmd'[b] = cmd[b] /\ ex'[b] = ex[b],
           place \in Executing => ex'[a] > execs \/ (pc[a] \in Executing /\ ex'[a] = ex[a]),
           pc[a] \in Quiet =>
               log.run \/ (place \in Quiet /\ log'.run = log.run /\ deleted' = deleted)
    PROVE  Alone(a, place)
<1>1. TypeOK
    BY DEF Serial
<1>2. /\ pc'[a] = place /\ seen'[a] \in {seen[a], log, Empty}
      /\ \A b \in Agents \ {a} : pc'[b] = pc[b] /\ seen'[b] = seen[b]
    BY <1>1, GotoFacts, ReadsLogFacts
<1> QED BY <1>2 DEF Alone

\* Where an agent has nothing to show for how it came there.
Free == Places \ {"acquiring", "tracking", "beginning", "entering", "working", "done", "delivering",
                  "deleting", "coldCancelling", "recording", "judging"}

LEMMA CoherentFree ==
    ASSUME Serial, Serial', Coherent, NEW a \in Agents, NEW place \in Free, Alone(a, place), Respects(a)
    PROVE  Coherent'
<1>1. Admitted(a)' /\ Executions(a)' /\ Judged(a)'
    BY DEF Alone, Free, Admitted, Executions, Judged
<1>2. place \notin Engine
    BY DEF Free, Engine
<1> QED BY <1>1, <1>2, CoherentKept

\* The steps that neither write nor admit anyone.
LEMMA CoherentStill ==
    ASSUME Serial, Serial', Coherent, NEW a \in Agents,
           \/ Stop(a) \/ Settle(a) \/ Mark(a) \/ RemoveLease(a) \/ Unmark(a) \/ Issue(a)
           \/ Resolve(a) \/ Reconcile(a) \/ (Acquire(a) /\ lease # NoLease)
    PROVE  Coherent'
<1> DEFINE To(place) == /\ place \in Free /\ (place \in Executing => place = "settling" /\ pc[a] \in Executing)
                        /\ Goto(a, place) \/ ReadsLog(a, place)
                        /\ \A b \in Agents \ {a} : cmd'[b] = cmd[b] /\ ex'[b] = ex[b] /\ ctl'[b] = ctl[b]
                        /\ ex'[a] = ex[a] \/ place # "settling"
                        /\ UNCHANGED <<log, deleted>>
                        /\ pc[a] \in Quiet => log.run \/ place \in Quiet
<1>0. TypeOK
    BY DEF Serial
<1>p. /\ {"idle", "settling", "marking", "checking", "loading", "asking", "unmarking", "listing",
          "reading", "inspecting", "cancelling"} \subseteq Free
      /\ {"idle", "marking", "checking", "loading", "asking", "unmarking", "listing", "reading",
          "inspecting", "cancelling"} \cap Executing = {}
    BY DEF Free, Places, Engine, Retiring, Executing
<1>1. ASSUME \E place \in Free : To(place)
      PROVE  Coherent'
    <2>1. PICK place \in Free : To(place)
        BY <1>1
    <2>2. place \in Places
        BY DEF Free
    <2>3. Alone(a, place)
        BY <2>1, <2>2, GotoAlone
    <2>4. Respects(a)
        BY <2>1, LogStays
    <2> QED BY <2>1, <2>3, <2>4, CoherentFree
<1>2. CASE Stop(a)
    BY <1>0, <1>1, <1>2, <1>p DEF Stop, files, history, Quiet, Engine, Executing
<1>3. CASE Settle(a)
    BY <1>0, <1>1, <1>3, <1>p DEF Settle, files, history, Quiet, TypeOK
<1>4. CASE Mark(a)
    BY <1>0, <1>1, <1>4, <1>p DEF Mark, Returned, history, Quiet, TypeOK
<1>5. CASE RemoveLease(a)
    BY <1>0, <1>1, <1>5, <1>p DEF RemoveLease, history, Quiet
<1>6. CASE Unmark(a)
    BY <1>0, <1>1, <1>6, <1>p DEF Unmark, Returned, history, Quiet, TypeOK
<1>7. CASE Issue(a)
    BY <1>0, <1>1, <1>7, <1>p DEF Issue, files, history, Quiet, TypeOK
<1>8. CASE Resolve(a)
    BY <1>0, <1>1, <1>8, <1>p DEF Resolve, CancelsActive, files, history, Quiet
<1>9. CASE Reconcile(a)
    BY <1>0, <1>1, <1>9, <1>p DEF Reconcile, files, history, Quiet
<1>10. CASE Acquire(a) /\ lease # NoLease
    BY <1>0, <1>1, <1>10, <1>p DEF Acquire, history, Quiet
<1> QED BY <1>2, <1>3, <1>4, <1>5, <1>6, <1>7, <1>8, <1>9, <1>10

\* A command goes on with what it read: it may record a crash, delete or cancel a run that
\* nobody executes, or run it again.
LEMMA CoherentDecides ==
    ASSUME Serial, Serial', Coherent, NEW a \in Agents,
           Check(a) \/ Inspect(a) \/ Load(a) \/ Judge(a) \/ Respond(a)
    PROVE  Coherent'
<1>0. TypeOK /\ log \in Logs /\ seen[a] \in Logs /\ Consistent(log) /\ Consistent(seen[a]) /\ Judged(a)
    BY DEF Serial, TypeOK, Coherent
<1>w. /\ UNCHANGED <<log, deleted, ctl, ex, lease>>
      /\ \A b \in Agents \ {a} : cmd'[b] = cmd[b]
      /\ pc[a] \notin Quiet
    BY <1>0 DEF Check, Inspect, Load, Judge, Respond, files, history, Quiet, TypeOK
<1> DEFINE Asides == {"idle", "unmarking", "removing", "marking", "loading", "cancelling", "asking",
                      "recording", "judging", "coldCancelling", "deleting", "acquiring"}
<1>p. Asides \subseteq Places \ Executing
      /\ {"recording", "judging", "coldCancelling", "deleting", "acquiring"} \subseteq Informed
    BY DEF Free, Places, Engine, Retiring, Executing, Informed
<1>1. ASSUME NEW place \in Asides, Goto(a, place) \/ ReadsLog(a, place),
             place \in Free \/ (Admitted(a)' /\ Executions(a)' /\ Judged(a)')
      PROVE  Coherent'
    <2>1. place \in Places /\ place \notin Executing /\ place \notin Engine
        BY <1>p DEF Executing
    <2>2. Alone(a, place)
        BY <1>1, <1>w, <2>1, GotoAlone
    <2>3. Respects(a)
        BY <1>w, LogStays
    <2> HIDE DEF Asides
    <2> QED BY <1>1, <2>1, <2>2, <2>3, CoherentFree, CoherentKept
<1>f. ASSUME NEW place \in {"idle", "unmarking", "removing", "marking", "loading", "cancelling", "asking"},
             Goto(a, place) \/ ReadsLog(a, place)
      PROVE  Coherent'
    <2>1. place \in Free /\ place \in Asides
        BY DEF Free, Places, Engine, Retiring
    <2> HIDE DEF Asides
    <2>2. Goto(a, place) \/ ReadsLog(a, place)
        BY <1>f
    <2>3. place \in Free \/ (Admitted(a)' /\ Executions(a)' /\ Judged(a)')
        BY <2>1
    <2> QED BY <2>1, <2>2, <2>3, <1>1
<1>g. ASSUME NEW place \in Asides, Goto(a, place), place \in Informed
      PROVE  pc'[a] = place /\ seen'[a] = seen[a]
    BY <1>0, <1>g, <1>p, GotoFacts
<1>r. ASSUME Goto(a, "recording"), Status(seen[a]) = "in_progress"
      PROVE  Coherent'
    <2>1. pc'[a] = "recording" /\ seen'[a] = seen[a]
        BY <1>r, <1>g, <1>p
    <2>2. Admitted(a)' /\ Executions(a)' /\ Judged(a)'
        BY <1>r, <2>1 DEF Admitted, Executions, Judged
    <2> QED BY <1>r, <1>1, <2>2
<1>2. CASE Check(a)
    BY <1>2, <1>f, <1>r DEF Check
<1>3. CASE Inspect(a)
    BY <1>3, <1>f, <1>r DEF Inspect
<1>4. CASE Load(a)
    <2>1. ASSUME ReadsLog(a, "judging"), log.run
          PROVE  Coherent'
        <3>1. pc'[a] = "judging" /\ seen'[a] = log
            BY <1>0, <1>p, <2>1, ReadsLogFacts
        <3>2. Admitted(a)' /\ Executions(a)' /\ Judged(a)'
            BY <2>1, <3>1 DEF Admitted, Executions, Judged
        <3> QED BY <2>1, <1>1, <3>2
    <2> QED BY <1>4, <1>f, <2>1 DEF Load, CancelsActive
<1>5. CASE Judge(a)
    <2>1. seen[a].run /\ cmd' = cmd
        BY <1>0, <1>5 DEF Judge, Judged
    <2>2. CASE Goto(a, "idle") \/ Goto(a, "asking")
        BY <1>f, <2>2
    <2>3. ASSUME Goto(a, "acquiring"), cmd[a] = "resume", Reruns(Status(seen[a]))
          PROVE  Coherent'
        <3>1. pc'[a] = "acquiring" /\ seen'[a] = seen[a]
            BY <2>3, <1>g, <1>p
        <3>2. Rerunnable(seen[a])
            BY <1>0, <2>3, StatusFacts
        <3>3. Admitted(a)' /\ Executions(a)' /\ Judged(a)'
            BY <2>1, <2>3, <3>1, <3>2 DEF Admitted, Executions, Judged
        <3> QED BY <2>3, <1>1, <3>3
    <2>4. ASSUME NEW place \in {"coldCancelling", "deleting"}, Goto(a, place), lease = NoLease,
                 place = "coldCancelling" => Status(seen[a]) = "blocked"
          PROVE  Coherent'
        <3>1. pc'[a] = place /\ seen'[a] = seen[a]
            BY <2>4, <1>g, <1>p
        <3>2. \A b \in Agents : pc'[b] \notin Executing
            BY <2>4, <1>w DEF Serial, Holders, Own, Ids, NoLease
        <3>3. Admitted(a)' /\ Executions(a)' /\ Judged(a)'
            BY <2>1, <2>4, <3>1, <3>2 DEF Admitted, Executions, Judged
        <3> QED BY <2>4, <1>1, <3>3
    <2> QED BY <1>5, <2>2, <2>3, <2>4 DEF Judge
<1>6. CASE Respond(a)
    <2>1. ASSUME Goto(a, "acquiring"), cmd' = [cmd EXCEPT ![a] = "answer"]
          PROVE  Coherent'
        <3>1. pc'[a] = "acquiring" /\ cmd'[a] = "answer"
            BY <2>1, <1>0, <1>g, <1>p DEF TypeOK
        <3>2. Admitted(a)' /\ Executions(a)' /\ Judged(a)'
            BY <3>1 DEF Admitted, Executions, Judged
        <3> QED BY <2>1, <1>1, <3>2
    <2> QED BY <1>6, <1>f, <2>1 DEF Respond
<1> QED BY <1>2, <1>3, <1>4, <1>5, <1>6

\* The commands that were admitted begin to execute.
LEMMA CoherentAcquire ==
    ASSUME Serial, Serial', Coherent, NEW a \in Agents, Acquire(a), lease = NoLease
    PROVE  Coherent'
<1>1. /\ pc[a] = "acquiring" /\ Goto(a, "tracking") /\ ex' = [ex EXCEPT ![a] = execs + 1]
      /\ ctl' = [ctl EXCEPT ![a] = "running"] /\ UNCHANGED <<log, cmd, deleted>>
    BY DEF Acquire, history
<1>2. TypeOK /\ "tracking" \in Places /\ "tracking" \in Informed /\ "tracking" \notin Engine
    BY DEF Serial, Places, Informed, Engine
<1>3. /\ ex'[a] > execs /\ \A b \in Agents \ {a} : ex'[b] = ex[b] /\ ctl'[b] = ctl[b]
    BY <1>1, <1>2 DEF TypeOK
<1>4. pc'[a] = "tracking" /\ seen'[a] = seen[a] /\ \A b \in Agents \ {a} : pc'[b] = pc[b]
    BY <1>1, <1>2, GotoFacts
<1>5. Alone(a, "tracking")
    BY <1>1, <1>2, <1>3, GotoAlone DEF Quiet
<1>6. Respects(a)
    BY <1>1, <1>3, LogStays
<1>7. Admitted(a)' /\ Executions(a)' /\ Judged(a)'
    BY <1>1, <1>4 DEF Coherent, Admitted, Executions, Judged
<1> QED BY <1>2, <1>5, <1>6, <1>7, CoherentKept

\* Who executes meets no other execution.
LEMMA ExecutorRespects ==
    ASSUME Serial, NEW a \in Agents, pc[a] \in Executing, Consistent(log'), deleted' = deleted,
           ~deleted /\ ~log'.run => ~log.run /\ log'.step = log.step,
           deleted => ~log'.run
    PROVE  Respects(a)
<1>1. \A b \in Agents \ {a} : pc[b] \notin Engine
    BY OneExecutes DEF Executing
<1> QED BY <1>1 DEF Respects

\* A command that runs the run again still finds in the log what it read.
LEMMA CoherentTrack ==
    ASSUME Serial, Serial', Coherent, ~blind', NEW a \in Agents, Track(a)
    PROVE  Coherent'
<1>1. /\ pc[a] = "tracking" /\ log' = [log EXCEPT !.by = ex[a]] /\ Goto(a, "beginning")
      /\ cmd[a] = "resume" => seen[a] = log
      /\ UNCHANGED <<cmd, ctl, ex, deleted>>
    BY DEF Track, Writes
<1>2. TypeOK /\ log \in Logs /\ ex[a] # 0 /\ pc[a] \in Executing
    BY <1>1 DEF Serial, TypeOK, Ids, Executing
<1>3. /\ "beginning" \in Places /\ "beginning" \in Informed /\ "beginning" \in Executing
      /\ pc[a] \notin Quiet
    BY <1>1 DEF Places, Informed, Engine, Executing, Quiet
<1>4. pc'[a] = "beginning" /\ \A b \in Agents \ {a} : pc'[b] = pc[b]
    BY <1>1, <1>2, <1>3, GotoFacts
<1>5. /\ log'.run = log.run /\ log'.open = log.open /\ log'.step = log.step
      /\ log'.last = log.last /\ log'.asks = log.asks /\ log'.by # 0
    BY <1>1, <1>2 DEF Logs
<1>6. Consistent(log')
    BY <1>5 DEF Coherent, Consistent
<1>7. Respects(a)
    BY <1>1, <1>2, <1>5, <1>6, ExecutorRespects DEF Coherent, Deleted
<1>8. Alone(a, "beginning")
    BY <1>1, <1>2, <1>3, GotoAlone
<1>9. Admitted(a) /\ (cmd[a] = "resume" => Rerunnable(log))
    BY <1>1 DEF Coherent, Admitted
<1>10. deleted' => cmd'[a] = "answer"
    BY <1>1, <1>9 DEF Coherent, Deleted, Admitted, Rerunnable
<1>11. Admitted(a)' /\ Executions(a)' /\ Judged(a)'
    BY <1>1, <1>4, <1>5, <1>9 DEF Admitted, Executions, Judged, Rerunnable
<1> QED BY <1>7, <1>8, <1>10, <1>11, CoherentKept

\* The engine's events, as its executions are.
LEMMA CoherentExecution ==
    ASSUME Serial, Serial', Coherent, ~blind', NEW a \in Agents,
           \/ Begin(a) \/ Drift(a) \/ Reload(a) \/ Deliver(a) \/ StartStep(a) \/ EndStep(a)
           \/ Complete(a)
    PROVE  Coherent'
<1>0. TypeOK /\ log \in Logs /\ Consistent(log) /\ Admitted(a) /\ Executions(a) /\ Deleted /\ Unstarted
    BY DEF Serial, TypeOK, Coherent
<1>1. pc[a] \in Engine /\ pc[a] \in Executing /\ pc[a] \notin Quiet
    BY DEF Begin, Drift, Reload, Deliver, StartStep, EndStep, Complete, Engine, Executing, Quiet
<1>2. UNCHANGED <<cmd, ex, ctl, deleted>>
    BY DEF Begin, Drift, Reload, Deliver, StartStep, EndStep, Complete, EngineWrites, history
<1>3. deleted => pc[a] = "beginning" /\ cmd[a] = "answer" /\ ~log.run
    BY <1>0, <1>1 DEF Deleted
<1>4. ~deleted => log.by # 0
    BY <1>1 DEF Serial, LastBy, Ids
<1>5. ASSUME NEW place \in Engine \cup {"settling"}, Goto(a, place) \/ ReadsLog(a, place),
             Consistent(log'), log.run => log'.run, deleted => log' = log,
             ~log'.run => log' = log,
             deleted => place = "settling",
             place # "settling" => Admitted(a)' /\ Executions(a)' /\ Judged(a)'
      PROVE  Coherent'
    <2>1. place \in Places /\ place \in Executing
        BY DEF Places, Executing
    <2>2. Alone(a, place)
        BY <1>1, <1>2, <1>5, <2>1, GotoAlone
    <2>3. Respects(a)
        BY <1>1, <1>2, <1>3, <1>5, ExecutorRespects
    <2>4. CASE place = "settling"
        BY <2>2, <2>3, <2>4, CoherentFree DEF Free, Places, Engine
    <2>5. CASE place # "settling"
        <3>1. ~deleted' /\ Admitted(a)' /\ Executions(a)' /\ Judged(a)'
            BY <1>2, <1>5, <2>5
        <3> QED BY <2>2, <2>3, <3>1, CoherentKept
    <2> QED BY <2>4, <2>5
<1>6. ASSUME NEW place \in {"entering", "working", "done"}, Goto(a, place), ~deleted,
             Consistent(log'), Rerunnable(log'), cmd[a] # "resume" => log'.step # "cancelled"
      PROVE  Coherent'
    <2>1. place \in Places /\ place \in Engine
        BY DEF Places, Engine
    <2>2. pc'[a] = place
        BY <1>0, <1>6, <2>1, GotoFacts
    <2>3. Admitted(a)' /\ Executions(a)' /\ Judged(a)'
        BY <1>2, <1>6, <2>2 DEF Admitted, Executions, Judged, Rerunnable
    <2> QED BY <1>5, <1>6, <2>1, <2>3 DEF Rerunnable
<1>7. ASSUME Goto(a, "settling"), Consistent(log'), log'.run = log.run, ~log.run => log' = log
      PROVE  Coherent'
    BY <1>3, <1>5, <1>7
<1>8. ASSUME NEW how \in {"completed", "crashed"}, log.run,
             log' \in {Ended(log, how), EndedAt(log, how)}, Goto(a, "settling")
      PROVE  Coherent'
    <2>0. \A m \in {Ended(log, how), EndedAt(log, how)} : m.run = log.run /\ m.by = log.by /\ ~m.open
        BY <1>0, EndedFacts DEF Hows
    <2>1. log'.run = log.run /\ log'.by = log.by /\ ~log'.open
        BY <1>8, <2>0
    <2>2. Consistent(log')
        BY <1>0, <1>8, <2>1 DEF Consistent
    <2> QED BY <1>7, <1>8, <2>1, <2>2
<1>9. pc[a] \in {"entering", "working", "done"} => Rerunnable(log) /\ log.run /\ ~deleted
    BY <1>0, <1>3 DEF Executions, Rerunnable
<1>10. CASE Begin(a)
    <2>1. CASE cmd[a] = "run"
        <3>1. /\ log' = [log EXCEPT !.run = TRUE] /\ Goto(a, "entering") /\ pc[a] = "beginning"
            BY <1>10, <2>1 DEF Begin, EngineWrites, Writes
        <3>2. ~log.run /\ ~deleted /\ log.step = "todo"
            BY <1>0, <2>1, <3>1 DEF Admitted, Unstarted
        <3>3. /\ log'.run /\ log'.by = log.by /\ log'.step = log.step /\ log'.open = log.open
              /\ log'.last = log.last
            BY <1>0, <3>1 DEF Logs
        <3>4. Consistent(log') /\ Rerunnable(log')
            BY <1>0, <1>4, <3>2, <3>3 DEF Consistent, Rerunnable
        <3> QED BY <1>6, <3>1, <3>2, <3>3, <3>4
    <2>2. CASE cmd[a] = "resume"
        <3>1. PICK place \in {"done", "entering"} : Goto(a, place)
            BY <1>10, <2>2 DEF Begin
        <3>2. log' = log /\ Rerunnable(log) /\ ~deleted
            BY <1>0, <1>3, <1>10, <2>2 DEF Begin, EngineWrites, Writes, Executions
        <3> QED BY <1>0, <1>6, <2>2, <3>1, <3>2
    <2> QED BY <1>10, <2>1, <2>2 DEF Begin
<1>11. CASE Drift(a)
    <2>1. log.run
        BY <1>0, <1>11 DEF Drift, Executions, Rerunnable
    <2> QED BY <1>8, <1>11, <2>1 DEF Drift, EngineWrites, Writes
<1>12. CASE Reload(a)
    <2>1. log' = log
        BY <1>12 DEF Reload, files
    <2>2. ASSUME ReadsLog(a, "delivering"), ~AnswerRefused(log)
          PROVE  Coherent'
        <3>1. log.run /\ log.open
            BY <2>2 DEF AnswerRefused
        <3>2. pc'[a] = "delivering" /\ seen'[a] = log
            BY <1>0, <2>2, ReadsLogFacts DEF Places, Engine, Informed
        <3>3. Admitted(a)' /\ Executions(a)' /\ Judged(a)'
            BY <3>1, <3>2 DEF Admitted, Executions, Judged
        <3> QED BY <1>0, <1>3, <1>5, <2>1, <2>2, <3>1, <3>3 DEF Engine
    <2> QED BY <1>0, <1>7, <1>12, <2>1, <2>2 DEF Reload
<1>13. CASE Deliver(a)
    <2>1. /\ pc[a] = "delivering" /\ log' = [log EXCEPT !.step = "in_progress", !.open = FALSE]
          /\ Goto(a, "working") /\ seen[a] = log
        BY <1>13 DEF Deliver, Writes
    <2>2. log.open /\ log.run /\ log.last # "completed" /\ ~deleted
        BY <1>0, <1>3, <2>1 DEF Executions, Consistent
    <2>3. /\ log'.run = log.run /\ log'.by = log.by /\ log'.step = "in_progress" /\ ~log'.open
          /\ log'.last = log.last
        BY <1>0, <2>1 DEF Logs
    <2> QED BY <1>0, <1>6, <2>1, <2>2, <2>3 DEF Consistent, Rerunnable
<1>14. CASE StartStep(a)
    <2>1. /\ pc[a] = "entering" /\ log' = [log EXCEPT !.step = "in_progress"] /\ Goto(a, "working")
        BY <1>14 DEF StartStep, EngineWrites, Writes
    <2>2. /\ log'.run = log.run /\ log'.by = log.by /\ log'.step = "in_progress"
          /\ log'.open = log.open /\ log'.last = log.last
        BY <1>0, <2>1 DEF Logs
    <2> QED BY <1>0, <1>6, <1>9, <2>1, <2>2 DEF Consistent, Rerunnable
<1>15. CASE EndStep(a)
    <2>1. Rerunnable(log) /\ log.run /\ ~deleted
        BY <1>9, <1>15 DEF EndStep
    <2>2. ASSUME log' = [log EXCEPT !.step = "blocked", !.asks = log.asks + 1, !.open = TRUE],
                 Goto(a, "settling")
          PROVE  Coherent'
        <3>1. log'.run = log.run /\ log'.by = log.by /\ log'.step = "blocked" /\ log'.last = log.last
            BY <1>0, <2>2 DEF Logs
        <3> QED BY <1>0, <1>7, <2>1, <2>2, <3>1 DEF Consistent, Rerunnable
    <2>3. ASSUME log' = [log EXCEPT !.step = "completed", !.done = TRUE, !.open = FALSE], Goto(a, "done")
          PROVE  Coherent'
        <3>1. /\ log'.run = log.run /\ log'.by = log.by /\ log'.step = "completed"
              /\ log'.last = log.last /\ ~log'.open
            BY <1>0, <2>3 DEF Logs
        <3> QED BY <1>0, <1>6, <2>1, <2>3, <3>1 DEF Consistent, Rerunnable
    <2> QED BY <1>8, <1>15, <2>1, <2>2, <2>3 DEF EndStep, EngineWrites, Writes
<1>16. CASE Complete(a)
    BY <1>8, <1>9, <1>16 DEF Complete, EngineWrites, Writes
<1> QED BY <1>10, <1>11, <1>12, <1>13, <1>14, <1>15, <1>16

\* Who judged the run free, and finds in the log what it read, meets no execution.
LEMMA JudgedFree ==
    ASSUME Serial, Coherent, NEW a \in Agents, pc[a] \in {"deleting", "coldCancelling"}, seen[a] = log
    PROVE  log.run /\ ~deleted /\ \A b \in Agents : pc[b] \notin Engine
<1>1. log.run /\ \A b \in Agents : pc[b] \in Executing => log.by # ex[b]
    BY DEF Coherent, Judged
<1>2. log.by # 0 /\ ~deleted
    BY <1>1 DEF Coherent, Consistent, Deleted
<1> QED BY <1>1, <1>2 DEF Serial, LastBy, Executing

\* A crash is recorded only where the run is in progress, and a question is closed by it.
LEMMA CoherentRecordCrash ==
    ASSUME Serial, Serial', Coherent, ~blind', NEW a \in Agents, RecordCrash(a)
    PROVE  Coherent'
<1>1. /\ pc[a] = "recording" /\ log' = Ended(log, "crashed") /\ seen[a] = log
      /\ UNCHANGED <<cmd, ctl, ex, deleted>>
      /\ \E place \in {"loading", "removing"} : Goto(a, place)
    BY DEF RecordCrash, Writes
<1>2. PICK place \in {"loading", "removing"} : Goto(a, place)
    BY <1>1
<1>3. /\ place \in Free /\ place \in Places /\ place \notin Executing /\ pc[a] \notin Quiet
    BY <1>1 DEF Free, Places, Executing, Engine, Retiring, Quiet
<1>4. TypeOK /\ log \in Logs /\ Consistent(log) /\ Status(log) = "in_progress"
    BY <1>1 DEF Serial, TypeOK, Coherent, Judged
<1>5. log.run /\ ~deleted
    BY <1>4, StatusFacts DEF Coherent, Deleted
<1>6. /\ log'.run = log.run /\ log'.by = log.by /\ log'.last = "crashed" /\ ~log'.open
      /\ log'.step = IF log.step \in {"in_progress", "blocked"} THEN "crashed" ELSE log.step
    BY <1>1, <1>4, EndedFacts DEF Hows
<1>7. Consistent(log') /\ Rerunnable(log')
    BY <1>4, <1>5, <1>6 DEF Consistent, Rerunnable
<1>8. Respects(a)
    BY <1>1, <1>5, <1>6, <1>7 DEF Respects
<1>9. Alone(a, place)
    BY <1>1, <1>2, <1>3, GotoAlone
<1> QED BY <1>3, <1>8, <1>9, CoherentFree

LEMMA CoherentColdCancel ==
    ASSUME Serial, Serial', Coherent, ~blind', NEW a \in Agents, ColdCancel(a)
    PROVE  Coherent'
<1>1. /\ pc[a] = "coldCancelling" /\ log' = Ended(log, "cancelled") /\ seen[a] = log
      /\ Goto(a, "idle") /\ UNCHANGED <<cmd, ctl, ex, deleted>>
    BY DEF ColdCancel, Writes
<1>2. "idle" \in Free /\ "idle" \in Places /\ "idle" \notin Executing /\ pc[a] \notin Quiet
    BY <1>1 DEF Free, Places, Executing, Engine, Quiet
<1>3. log.run /\ ~deleted /\ \A b \in Agents : pc[b] \notin Engine
    BY <1>1, JudgedFree
<1>4. log \in Logs /\ Consistent(log)
    BY DEF Serial, TypeOK, Coherent
<1>5. log'.run = log.run /\ log'.by = log.by /\ ~log'.open
    BY <1>1, <1>4, EndedFacts DEF Hows
<1>6. Respects(a)
    BY <1>1, <1>3, <1>4, <1>5 DEF Respects, Consistent
<1>7. Alone(a, "idle")
    BY <1>1, <1>2, GotoAlone
<1> QED BY <1>2, <1>6, <1>7, CoherentFree

LEMMA CoherentDelete ==
    ASSUME Serial, Serial', Coherent, ~blind', NEW a \in Agents, Delete(a)
    PROVE  Coherent'
<1>1. /\ pc[a] = "deleting" /\ log' = Empty /\ seen[a] = log /\ deleted'
      /\ Goto(a, "idle") /\ UNCHANGED <<cmd, ctl, ex>>
    BY DEF Delete, Writes
<1>2. "idle" \in Free /\ "idle" \in Places /\ "idle" \notin Executing /\ pc[a] \notin Quiet
    BY <1>1 DEF Free, Places, Executing, Engine, Quiet
<1>3. \A b \in Agents : pc[b] \notin Engine
    BY <1>1, JudgedFree
<1>4. Respects(a)
    BY <1>1, <1>3, EmptyLog DEF Respects
<1>5. Alone(a, "idle")
    BY <1>1, <1>2, GotoAlone
<1> QED BY <1>2, <1>4, <1>5, CoherentFree

\* The execution that is cancelled is the one there is; before its run is recorded nobody has
\* read a current step.
LEMMA CoherentCancelActive ==
    ASSUME Serial, Serial', Coherent, ~blind', NEW a \in Agents, CancelActive(a)
    PROVE  Coherent'
<1> DEFINE running == {b \in Agents : ctl[b] = "running" /\ ex[b] = target[a].ex}
<1>1. /\ pc[a] = "cancelling" /\ Goto(a, "idle") /\ UNCHANGED <<cmd, ex, deleted>>
    BY DEF CancelActive
<1>2. /\ "idle" \in Free /\ "idle" \in Places /\ "idle" \notin Executing /\ "idle" \in Quiet
      /\ pc[a] \notin Executing
    BY <1>1 DEF Free, Places, Executing, Engine, Quiet
<1>3. log \in Logs /\ seen[a] \in Logs /\ Consistent(log) /\ Deleted /\ Unstarted
    BY DEF Serial, TypeOK, Coherent
<1>4. log'.run = log.run /\ Respects(a)
    <2>1. CASE running = {}
        <3>1. UNCHANGED <<log, deleted, ctl>>
            BY <2>1, <1>1 DEF CancelActive
        <3> QED BY <3>1, LogStays
    <2>2. CASE running # {}
        <3>1. /\ ctl' = [b \in Agents |-> IF b \in running THEN "cancelled" ELSE ctl[b]]
              /\ log' = IF currentStep(seen[a]) THEN EndedAt(log, "cancelled") ELSE Ended(log, "cancelled")
            BY <2>2 DEF CancelActive, Writes
        <3>2. /\ log'.run = log.run /\ log'.by = log.by /\ log'.asks = log.asks
              /\ log'.last = "cancelled" /\ ~log'.open
            <4>1. \A m \in {Ended(log, "cancelled"), EndedAt(log, "cancelled")} :
                      /\ m.run = log.run /\ m.by = log.by /\ m.asks = log.asks
                      /\ m.last = "cancelled" /\ ~m.open
                BY <1>3, EndedFacts DEF Hows
            <4>2. log' \in {Ended(log, "cancelled"), EndedAt(log, "cancelled")}
                BY <3>1
            <4> QED BY <4>1, <4>2
        <3>3. ~log.run => log'.step \in {log.step, "cancelled"}
            BY <1>3, <3>1, EndedFacts DEF Hows, Consistent
        <3>4. ~deleted /\ ~log.run => log'.step = log.step
            <4>1. ~deleted /\ ~log.run => ~currentStep(seen[a]) /\ log.step = "todo"
                BY <1>3 DEF Unstarted, currentStep
            <4> QED BY <1>3, <3>1, <4>1, EndedFacts DEF Hows
        <3>5. Consistent(log')
            BY <1>3, <3>2, <3>3 DEF Consistent
        <3>6. ASSUME NEW b \in Agents \ {a}, pc[b] \in Engine
              PROVE  ctl'[b] # "running"
            <4>1. PICK c \in Agents : ctl[c] = "running" /\ c \in running
                BY <2>2
            <4>2. pc[c] \in Executing /\ pc[b] \in Executing
                BY <4>1, <3>6 DEF Serial, Alive, Executing
            <4>3. b = c
                BY <4>2, OneExecutes
            <4> QED BY <3>1, <4>1, <4>3
        <3> QED BY <1>1, <1>3, <3>2, <3>4, <3>5, <3>6 DEF Respects, Rerunnable, Deleted
    <2> QED BY <2>1, <2>2
<1>5. Alone(a, "idle")
    BY <1>1, <1>2, <1>4, GotoAlone
<1> QED BY <1>2, <1>4, <1>5, CoherentFree

LEMMA CoherentCrash ==
    ASSUME Serial, Serial', Coherent, NEW p \in Procs, Crash(p)
    PROVE  Coherent'
<1>1. Dies(p)
    BY Deaths
<1>2. "dead" \in Free /\ "dead" \in Quiet /\ "dead" \notin Executing \cup Engine
    BY DEF Free, Places, Quiet, Executing, Engine
<1>3. Consistent(log') /\ Unstarted' /\ Deleted'
    BY <1>1, <1>2, EmptyLog DEF Dies, Coherent, Unstarted, Deleted
<1>4. ASSUME NEW a \in Agents
      PROVE  Consistent(seen'[a]) /\ Admitted(a)' /\ Executions(a)' /\ Judged(a)'
    <2>1. CASE ProcOf[a] = p
        BY <1>1, <1>2, <2>1, EmptyLog DEF Dies, Admitted, Executions, Judged, Free
    <2>2. CASE ProcOf[a] # p
        BY <1>1, <1>2, <2>2 DEF Dies, Coherent, Admitted, Executions, Judged
    <2> QED BY <2>1, <2>2
<1> QED BY <1>3, <1>4 DEF Coherent

\* Once a command has acted on stale events, it has.
LEMMA StaysBlind ==
    ASSUME [Next]_vars
    PROVE  (blind => blind') /\ (deleted => deleted')
<1> DEFINE Stays == (blind => blind') /\ (deleted => deleted')
<1>1. ASSUME NEW a \in Agents, Execution(a)
      PROVE  Stays
    <2>1. CASE Track(a) \/ RecordCrash(a) \/ Deliver(a)
        <3>1. blind => blind'
            BY <2>1, Zenon DEF Track, RecordCrash, Deliver, Writes
        <3>2. deleted' = deleted
            BY <2>1 DEF Track, RecordCrash, Deliver
        <3> QED BY <3>1, <3>2
    <2>2. CASE Begin(a) \/ Drift(a) \/ StartStep(a) \/ EndStep(a) \/ Complete(a)
        <3>1. blind => blind'
            BY <2>2, Zenon DEF Begin, Drift, StartStep, EndStep, Complete, EngineWrites, Writes
        <3>2. deleted' = deleted
            BY <2>2 DEF Begin, Drift, StartStep, EndStep, Complete, EngineWrites
        <3> QED BY <3>1, <3>2
    <2>3. CASE Acquire(a) \/ Reload(a) \/ Stop(a) \/ Settle(a)
        BY <2>3 DEF Acquire, Reload, Stop, Settle, history
    <2>4. CASE Mark(a) \/ Check(a) \/ RemoveLease(a) \/ Unmark(a)
        BY <2>4 DEF Mark, Check, RemoveLease, Unmark, history
    <2> QED BY <1>1, <2>1, <2>2, <2>3, <2>4 DEF Execution
<1>2. ASSUME NEW a \in Agents, Handler(a) \/ Issue(a) \/ Respond(a)
      PROVE  Stays
    <2>1. CASE Resolve(a) \/ Reconcile(a) \/ Inspect(a)
        BY <2>1 DEF Resolve, Reconcile, Inspect, history
    <2>2. CASE Load(a) \/ Judge(a) \/ Issue(a) \/ Respond(a)
        BY <2>2 DEF Load, Judge, Issue, Respond, history
    <2>3. CASE ColdCancel(a) \/ Delete(a)
        <3>1. blind => blind'
            BY <2>3, Zenon DEF ColdCancel, Delete, Writes
        <3>2. deleted => deleted'
            BY <2>3 DEF ColdCancel, Delete
        <3> QED BY <3>1, <3>2
    <2>4. CASE CancelActive(a)
        <3>1. UNCHANGED blind \/ \E l \in {EndedAt(log, "cancelled"), Ended(log, "cancelled")} : Writes(a, l, FALSE)
            BY <2>4 DEF CancelActive
        <3>2. blind => blind'
            BY <3>1, Zenon DEF Writes
        <3>3. deleted' = deleted
            BY <2>4 DEF CancelActive
        <3> QED BY <3>2, <3>3
    <2> QED BY <1>2, <2>1, <2>2, <2>3, <2>4 DEF Handler
<1>3. ASSUME NEW p \in Procs, Crash(p)
      PROVE  Stays
    BY <1>3 DEF Crash, history
<1>4. CASE UNCHANGED vars
    BY <1>4 DEF vars, history
<1> QED BY <1>1, <1>2, <1>3, <1>4 DEF Next

LEMMA CoherentNext == IInv /\ [Next]_vars /\ ~blind' => Coherent'
<1> SUFFICES ASSUME IInv, [Next]_vars, ~blind'
             PROVE  Coherent'
    OBVIOUS
<1>0. Serial /\ Serial' /\ Coherent
    BY SerialNext, StaysBlind DEF IInv
<1>1. ASSUME NEW a \in Agents, Execution(a)
      PROVE  Coherent'
    <2>1. CASE \/ Begin(a) \/ Drift(a) \/ Reload(a) \/ Deliver(a) \/ StartStep(a) \/ EndStep(a)
               \/ Complete(a)
        BY <1>0, <2>1, CoherentExecution
    <2>2. CASE Acquire(a) \/ Track(a)
        BY <1>0, <2>2, CoherentAcquire, CoherentTrack, CoherentStill
    <2>3. CASE Stop(a) \/ Settle(a) \/ Mark(a) \/ RemoveLease(a) \/ Unmark(a)
        BY <1>0, <2>3, CoherentStill
    <2>4. CASE Check(a) \/ RecordCrash(a)
        BY <1>0, <2>4, CoherentDecides, CoherentRecordCrash
    <2> QED BY <1>1, <2>1, <2>2, <2>3, <2>4 DEF Execution
<1>2. ASSUME NEW a \in Agents, Handler(a) \/ Issue(a) \/ Respond(a)
      PROVE  Coherent'
    <2>1. CASE Issue(a) \/ Resolve(a) \/ Reconcile(a)
        BY <1>0, <2>1, CoherentStill
    <2>2. CASE Inspect(a) \/ Load(a) \/ Judge(a) \/ Respond(a)
        BY <1>0, <2>2, CoherentDecides
    <2>3. CASE ColdCancel(a) \/ Delete(a) \/ CancelActive(a)
        BY <1>0, <2>3, CoherentColdCancel, CoherentDelete, CoherentCancelActive
    <2> QED BY <1>2, <2>1, <2>2, <2>3 DEF Handler
<1>3. CASE UNCHANGED vars
    BY <1>0, <1>3 DEF vars, files, agent, history, Coherent, Unstarted, Deleted, Admitted, Executions,
                      Judged
<1> QED BY <1>0, <1>1, <1>2, <1>3, CoherentCrash DEF Next

LEMMA NextInv == IInv /\ [Next]_vars => IInv'
<1> QED BY SerialNext, CoherentNext DEF IInv

LEMMA Invariant == Spec => []IInv
<1> QED BY InitInv, NextInv, PTL DEF Spec

-----------------------------------------------------------------------------
(* What a step may do to the log.                                           *)

\* The end of a run as a single write leaves it.
Stands ==
    /\ Status(log) = "completed" =>
        \/ Status(log') = "completed" \/ deleted'
        \/ Status(log') = "cancelled" /\ \E a \in Agents : ctl[a] = "running"
    /\ log.step = "cancelled" =>
        \/ log'.step = "cancelled" \/ deleted'
        \/ \E a \in Agents : cmd[a] = "resume" /\ pc[a] \in Engine

LEMMA ExecutionStands ==
    ASSUME Serial, Coherent, ~blind', NEW a \in Agents, Execution(a)
    PROVE  Stands
<1>0. TypeOK /\ log \in Logs /\ Consistent(log) /\ Executions(a) /\ Admitted(a) /\ Judged(a)
    BY DEF Serial, TypeOK, Coherent
<1>s. Status(log) = "completed" => log.run /\ log.last = "completed"
    BY <1>0, StatusFacts
<1>1. CASE log' = log
    BY <1>1 DEF Stands
<1>2. CASE Track(a)
    <2>1. log' = [log EXCEPT !.by = ex[a]]
        BY <1>2 DEF Track, Writes
    <2>2. log'.run = log.run /\ log'.step = log.step /\ log'.last = log.last
        BY <1>0, <2>1 DEF Logs
    <2> QED BY <2>2 DEF Stands, Status
<1>3. CASE Begin(a)
    <2>1. CASE cmd[a] = "run"
        <3>1. log' = [log EXCEPT !.run = TRUE] /\ ~log.run
            BY <1>0, <1>3, <2>1 DEF Begin, EngineWrites, Writes, Admitted
        <3>2. log'.step = log.step
            BY <1>0, <3>1 DEF Logs
        <3> QED BY <1>s, <3>1, <3>2 DEF Stands
    <2> QED BY <1>1, <1>3, <2>1 DEF Begin, EngineWrites, Writes
<1>4. CASE Drift(a)
    BY <1>0, <1>s, <1>4 DEF Drift, Executions, Rerunnable, Stands, Engine
<1>5. CASE Deliver(a)
    BY <1>0, <1>s, <1>5 DEF Deliver, Writes, Executions, Consistent, Stands
<1>6. CASE StartStep(a) \/ EndStep(a) \/ Complete(a)
    <2>1. pc[a] \in {"entering", "working", "done"} /\ ctl[a] = "running"
        BY <1>6 DEF StartStep, EndStep, Complete, EngineWrites
    <2>2. Rerunnable(log) /\ (cmd[a] # "resume" => log.step # "cancelled")
        BY <1>0, <2>1 DEF Executions
    <2>3. cmd[a] = "resume" => cmd[a] = "resume" /\ pc[a] \in Engine
        BY <2>1 DEF Engine
    <2> QED BY <1>s, <2>2, <2>3 DEF Stands, Rerunnable
<1>7. CASE RecordCrash(a)
    <2>1. pc[a] = "recording" /\ log' = Ended(log, "crashed") /\ seen[a] = log
        BY <1>7 DEF RecordCrash, Writes
    <2>2. Status(log) = "in_progress"
        BY <1>0, <2>1 DEF Judged
    <2>3. log.step = "cancelled" => log'.step = "cancelled"
        BY <1>0, <2>1, EndedFacts DEF Hows
    <2> QED BY <2>2, <2>3 DEF Stands
<1>8. CASE \/ Acquire(a) \/ Reload(a) \/ Stop(a) \/ Settle(a) \/ Mark(a) \/ Check(a)
           \/ RemoveLease(a) \/ Unmark(a)
    BY <1>1, <1>8 DEF Acquire, Reload, Stop, Settle, Mark, Check, RemoveLease, Unmark, files
<1> QED BY <1>2, <1>3, <1>4, <1>5, <1>6, <1>7, <1>8 DEF Execution

LEMMA HandlerStands ==
    ASSUME Serial, Coherent, ~blind', NEW a \in Agents, Handler(a)
    PROVE  Stands
<1>0. TypeOK /\ log \in Logs /\ Consistent(log) /\ Judged(a)
    BY DEF Serial, TypeOK, Coherent
<1>1. CASE log' = log
    BY <1>1 DEF Stands
<1>2. CASE ColdCancel(a)
    <2>1. pc[a] = "coldCancelling" /\ log' = Ended(log, "cancelled") /\ seen[a] = log
        BY <1>2 DEF ColdCancel, Writes
    <2>2. Status(log) = "blocked"
        BY <1>0, <2>1 DEF Judged
    <2>3. log.step = "cancelled" => log'.step = "cancelled"
        BY <1>0, <2>1, EndedFacts DEF Hows
    <2> QED BY <2>2, <2>3 DEF Stands
<1>3. CASE Delete(a)
    BY <1>3 DEF Delete, Stands
<1>4. CASE CancelActive(a) /\ log' # log
    <2>1. PICK b \in Agents : ctl[b] = "running"
        BY <1>4 DEF CancelActive
    <2>2. log' \in {Ended(log, "cancelled"), EndedAt(log, "cancelled")}
        BY <1>4 DEF CancelActive, Writes
    <2>3. \A m \in {Ended(log, "cancelled"), EndedAt(log, "cancelled")} :
              /\ m \in Logs /\ m.run = log.run /\ m.last = "cancelled"
              /\ log.step = "cancelled" => m.step = "cancelled"
              /\ log.step \notin {"in_progress", "blocked"} => m.step \notin {"in_progress", "blocked"}
        BY <1>0, EndedFacts DEF Hows
    <2>4. Status(log) = "completed" => Status(log') = "cancelled"
        <3>1. Status(log) = "completed" => log.run /\ log.step \notin {"in_progress", "blocked"}
            BY <1>0, StatusFacts
        <3> QED BY <2>2, <2>3, <3>1, StatusFacts
    <2> QED BY <2>1, <2>2, <2>3, <2>4 DEF Stands
<1>5. CASE Resolve(a) \/ Reconcile(a) \/ Inspect(a) \/ Load(a) \/ Judge(a)
    BY <1>1, <1>5 DEF Resolve, Reconcile, Inspect, Load, Judge, files
<1> QED BY <1>1, <1>2, <1>3, <1>4, <1>5 DEF Handler

\* A completed run stays completed, a deleted one is not executed, and a cancelled step is
\* entered again only by a resume, as long as no command acted on stale events (settledAfter,
\* resumeAction, isLiveRun).
THEOREM EndIsFinal == Spec => EndStands
<1> DEFINE Step == ~blind' =>
               /\ Status(log) = "completed" =>
                   \/ Status(log') = "completed" \/ deleted'
                   \/ Status(log') = "cancelled" /\ \E a \in Agents : ctl[a] = "running"
               /\ deleted => ~log'.run /\ log'.asks = 0 /\ log'.step \in {"todo", "cancelled"}
               /\ log.step = "cancelled" =>
                   \/ log'.step = "cancelled" \/ deleted'
                   \/ \E a \in Agents : cmd[a] = "resume" /\ pc[a] \in Engine
<1>1. ASSUME IInv, [Next]_vars
      PROVE  [Step]_vars
    <2> SUFFICES ASSUME ~blind', ~UNCHANGED vars
                 PROVE  Step
        OBVIOUS
    <2>1. Serial /\ Coherent /\ Coherent' /\ (deleted => deleted')
        BY <1>1, StaysBlind, CoherentNext DEF IInv
    <2>2. Stands
        <3>1. CASE log' = log
            BY <3>1 DEF Stands
        <3>2. CASE \E a \in Agents : Execution(a) \/ Handler(a)
            BY <2>1, <3>2, ExecutionStands, HandlerStands
        <3>3. CASE (\E a \in Agents : Issue(a) \/ Respond(a)) \/ \E p \in Procs : Crash(p)
            BY <3>1, <3>3 DEF Issue, Respond, Crash, files
        <3> QED BY <1>1, <3>2, <3>3 DEF Next
    <2>3. deleted => ~log'.run /\ log'.asks = 0 /\ log'.step \in {"todo", "cancelled"}
        BY <2>1 DEF Coherent, Deleted, Consistent
    <2> QED BY <2>2, <2>3 DEF Stands
<1>2. []IInv /\ [][Next]_vars => [][Step]_vars
    BY <1>1, PTL
<1> QED BY <1>2, Invariant, PTL DEF Spec, EndStands

\* A step of a command moves that command.
LEMMA OthersStay ==
    ASSUME TypeOK, NEW a \in Agents, Execution(a) \/ Handler(a) \/ Issue(a) \/ Respond(a)
    PROVE  \A b \in Agents \ {a} : pc'[b] = pc[b]
<1>1. \E place : Goto(a, place) \/ ReadsLog(a, place)
    <2>1. CASE \/ Acquire(a) \/ Track(a) \/ Begin(a) \/ Drift(a) \/ Reload(a) \/ Deliver(a)
               \/ StartStep(a) \/ EndStep(a) \/ Complete(a) \/ Stop(a) \/ Settle(a)
        BY <2>1 DEF Acquire, Track, Begin, Drift, Reload, Deliver, StartStep, EndStep, Complete,
                    Stop, Settle
    <2>2. CASE Mark(a) \/ Check(a) \/ RecordCrash(a) \/ RemoveLease(a) \/ Unmark(a)
        BY <2>2 DEF Mark, Check, RecordCrash, RemoveLease, Unmark, Returned
    <2>3. CASE \/ Resolve(a) \/ Reconcile(a) \/ Inspect(a) \/ Load(a) \/ Judge(a)
               \/ Issue(a) \/ Respond(a)
        BY <2>3 DEF Resolve, Reconcile, Inspect, Load, Judge, Issue, Respond, CancelsActive
    <2>4. CASE CancelActive(a) \/ ColdCancel(a) \/ Delete(a)
        BY <2>4 DEF CancelActive, ColdCancel, Delete
    <2> QED BY <2>1, <2>2, <2>3, <2>4 DEF Execution, Handler
<1> QED BY <1>1 DEF Goto, ReadsLog, TypeOK

\* An answer that is taken finds its question open, and with it the step blocked, as long as
\* no command acted on stale events (the attended loop, resumeWithAnswer).
THEOREM AnsweredOnce == Spec => OneAnswerPerQuestion
<1> DEFINE Step == \A a \in Agents :
                       pc[a] = "delivering" /\ pc'[a] = "working" /\ ~blind' => log.step = "blocked"
<1>1. ASSUME IInv, [Next]_vars
      PROVE  [Step]_vars
    <2> SUFFICES ASSUME NEW a \in Agents, pc[a] = "delivering", pc'[a] = "working", ~blind'
                 PROVE  log.step = "blocked"
        OBVIOUS
    <2>1. Serial /\ TypeOK /\ Coherent
        BY <1>1, StaysBlind DEF IInv, Serial
    <2>2. CASE Deliver(a)
        <3>1. seen[a] = log
            BY <2>2 DEF Deliver, Writes
        <3> QED BY <2>1, <3>1 DEF Coherent, Executions, Consistent
    <2>3. ~Stop(a)
        BY <2>1 DEF Stop, Goto, TypeOK
    <2>4. ASSUME Execution(a) \/ Handler(a) \/ Issue(a) \/ Respond(a)
          PROVE  Deliver(a)
        BY <2>3, <2>4 DEF Execution, Handler, Issue, Respond, Acquire, Track, Begin, Drift, Reload,
                    StartStep, EndStep, Complete, Settle, Mark, Check, RecordCrash, RemoveLease,
                    Unmark, Resolve, Reconcile, Inspect, Load, Judge, CancelActive, ColdCancel, Delete
    <2>5. ~\E b \in Agents \ {a} : Execution(b) \/ Handler(b) \/ Issue(b) \/ Respond(b)
        BY <2>1, OthersStay
    <2>6. ~(\E p \in Procs : Crash(p)) /\ ~UNCHANGED vars
        BY Deaths DEF Dies, vars, agent
    <2> QED BY <1>1, <2>2, <2>4, <2>5, <2>6 DEF Next
<1>2. []IInv /\ [][Next]_vars => [][Step]_vars
    BY <1>1, PTL
<1> QED BY <1>2, Invariant, PTL DEF Spec, OneAnswerPerQuestion

================================================================================
