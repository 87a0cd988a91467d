------------------------------- MODULE NodeWalk --------------------------------
(***************************************************************************)
(* A run of a whole workflow: the node walker (src/engine/execute.ts and   *)
(* the sequential .foreach of concurrent-nodes.ts) over the tree of        *)
(* WorkflowTree, and the ways into it: runWorkflow, resumeWorkflow and     *)
(* resumeWithAnswer (run-workflow.ts, resume-workflow.ts).                 *)
(*                                                                         *)
(* The walker is one call of the engine at a time.  Its call stack is      *)
(* `stack`: a SEQUENCE frame for every runNodeSequence in progress, and a  *)
(* GROUP frame for a branch or foreach between them, which holds the parts *)
(* (taken arms, items) still to run and the outputs of the others.  A call *)
(* ends with a report; it is cut short by a cancellation or when its       *)
(* process dies, and everything but the log is lost with it.  The author   *)
(* may edit the workflow between two calls.                                *)
(*                                                                         *)
(* A step is one action to start and one to end; what it does in between   *)
(* is StepRunner.  The events a construct opens with, and an event and the *)
(* assignments that follow its append, are one action.  One question at a  *)
(* time is open here; several are FanOut's subject.                        *)
(***************************************************************************)
EXTENDS RunLog

CONSTANTS
    Workflows,      \* the workflows to consider: each a set of definitions, its versions
    Input,          \* the input of the run
    MaxCalls,       \* bound: engine calls
    MaxEdits        \* bound: edits of the workflow

ASSUME NodeWalkAssumption ==
    /\ \A versions \in Workflows : \A version \in versions : Committed(version)
    /\ {MaxCalls, MaxEdits} \subseteq Nat

VARIABLES
    def,            \* the definition the next call loads
    log,            \* the event log, as its readers have it
    sent,           \* the events of the last step, for who observes the run
    \* Volatile: one engine call.
    pc,             \* "idle", "walk" between two nodes, "step" inside one, "replied"
                    \* inside a form or interaction that has its reply
    stack,          \* the walker's call stack, outermost frame first
    memory,         \* state.stepOutputs
    reentry,        \* the path to the step that asked that is still to be descended
    reply,          \* what this call brings it: "none", "answers" or a "response"
    report,         \* what the last call returned; "none" while it runs or when it was cut short
    \* History: where the call that asked the open question stood.
    interrupted,
    \* Bounds.
    calls, edits

walker == <<pc, stack, memory, reentry, reply>>
bounds == <<calls, edits>>
vars == <<def, log, sent, walker, report, interrupted, bounds>>

Nowhere == [stack |-> <<>>, memory |-> <<>>]

Emit(events) == sent' = events /\ log' = FoldLeft(Record, log, events)

(***************************************************************************)
(* Frames.                                                                 *)
(***************************************************************************)
Top == Last(stack)
Nodes == def[ScopeOf(Top.path)]
InGroup == pc = "walk" /\ Top.kind = "group"
AtNode(kind) == pc = "walk" /\ Top.kind # "group" /\ Top.at \in DOMAIN Nodes /\ Nodes[Top.at].kind = kind
AtEnd(kind) == pc = "walk" /\ Top.kind = kind /\ Top.at = Len(Nodes) + 1
Node == Nodes[Top.at]
Here == Child(Top.path, Node.name)

\* The construct whose part the innermost frame is.
Owner == LET f == stack[Len(stack) - 1] IN def[ScopeOf(f.path)][f.at]

\* Bug: the sequence starts with its own input wherever it starts.
SequenceAnew(kind, path, input, mem, way) ==
    LET nodes == def[ScopeOf(path)]
    IN  [kind |-> kind, path |-> path, input |-> input, value |-> input,
         at |-> IF way = <<>> THEN 1 ELSE Position(nodes, way[1][1]), todo |-> <<>>, parts |-> <<>>]
\* runNodeSequence over the nodes of a scope, from its start or from the node a
\* re-entry leads to, with the output recorded for the node before that one.
Sequence(kind, path, input, mem, way) ==
    LET nodes == def[ScopeOf(path)]
        at == IF way = <<>> THEN 1 ELSE Position(nodes, way[1][1])
    IN  [kind |-> kind, path |-> path, input |-> input, at |-> at,
         value |-> IF at > 1 THEN Get(mem, StaticKey(Child(path, nodes[at - 1].name))) ELSE input,
         todo |-> <<>>, parts |-> <<>>]

\* A branch or foreach under way: the segments of its parts that are still to run,
\* and the outputs of those that did.
Group(todo, parts, input) ==
    [kind |-> "group", path |-> Top.path, input |-> input, at |-> Top.at, value |-> Undef,
     todo |-> todo, parts |-> parts]

Call(frame) == stack' = Append(stack, frame)
Replace(frame) == stack' = Append(Front(stack), frame)

(***************************************************************************)
(* How a call goes on and ends.                                            *)
(***************************************************************************)
\* A node of the innermost of these frames is done with output v.
Return(frames, v) ==
    LET f == Last(frames)
        name == def[ScopeOf(f.path)][f.at].name
    IN  /\ stack' = Append(Front(frames), [f EXCEPT !.value = v, !.at = @ + 1])
        /\ memory' = Put(memory, StaticKey(Child(f.path, name)), v)
        /\ pc' = "walk" /\ reentry' = <<>>

Ends(outcome) ==
    /\ pc' = "idle" /\ stack' = <<>> /\ memory' = <<>> /\ reentry' = <<>> /\ reply' = "none"
    /\ report' = outcome

Crashes(path) == Emit(<<Event("run-crashed", path)>>) /\ Ends("crashed") /\ UNCHANGED interrupted

\* An error thrown inside the walker is no outcome: the call rejects, and the log
\* has no end.
Throws == Emit(<<>>) /\ Ends("threw") /\ UNCHANGED interrupted

Unchanged == UNCHANGED <<def, bounds>>
WalksOn == UNCHANGED <<reply, report, interrupted, def, bounds>>

(***************************************************************************)
(* Steps.                                                                  *)
(***************************************************************************)
\* By mode, a step computes ("function", "agent": only an agent may ask) or does nothing but
\* ask: a "form" for answers, an "interactive" one, which first builds its request, for a
\* response.
Computes == Node.mode \in {"function", "agent"}

\* Which steps go on with a reply; an answered step that is a function or interactive by now
\* starts afresh.
GoesOn == IF reply = "answers" THEN {"agent", "form"} ELSE {"interactive"}

\* An input schema that rejects what is handed over crashes the run, also when the
\* step is optional.
StartStep ==
    /\ AtNode("step")
    /\ reentry = <<>> \/ (reply = "answers" /\ Node.mode \notin GoesOn)
    /\ IF Node.needsInput /\ Node.mode # "form" /\ Top.value = Undef
       THEN Crashes(Here) /\ Unchanged
       ELSE /\ Emit(<<Event("step-started", Here)>>)
            /\ pc' = "step" /\ reentry' = <<>>
            /\ UNCHANGED <<stack, memory>> /\ WalksOn

\* The step goes on where it asked: its start is in the log already.  A response to a step
\* that is not interactive any more crashes the run.
ReenterStep ==
    /\ AtNode("step") /\ reentry # <<>>
    /\ \/ /\ Node.mode \in GoesOn
          /\ Emit(<<>>)
          /\ pc' = (IF Computes THEN "step" ELSE "replied") /\ reentry' = <<>>
          /\ UNCHANGED <<stack, memory>> /\ WalksOn
       \/ reply = "response" /\ Node.mode \notin GoesOn /\ Crashes(Here) /\ Unchanged

AtWork == pc \in {"step", "replied"}

StepCompletes ==
    /\ AtWork /\ (Computes \/ pc = "replied")
    /\ \E s \in Node.outcomes \ {"asks", "fails"} :
        /\ Emit(<<WithOutput("step-completed", Here, Scalar(s))>>)
        /\ Return(stack, Scalar(s))
    /\ WalksOn

\* An interactive step whose request cannot be built crashes the run, optional or not.
StepFails ==
    /\ pc = "step" /\ Node.mode # "form" /\ "fails" \in Node.outcomes
    /\ IF Node.optional /\ Computes
       THEN /\ Emit(<<Event("step-failed", Here)>>)
            /\ Return(stack, Undef) /\ WalksOn
       ELSE Crashes(Here) /\ Unchanged

\* A form or an interaction asks at once, and again when the reply is not valid.
StepAsks ==
    /\ AtWork
    /\ "asks" \in Node.outcomes \/ (pc = "step" /\ ~Computes)
    /\ Emit(<<Event(IF Node.mode = "interactive" THEN "interaction-requested" ELSE "questionnaire-asked", Here)>>)
    /\ Ends("blocked")
    /\ interrupted' = [stack |-> stack, memory |-> memory]
    /\ Unchanged

(***************************************************************************)
(* Branch and foreach: groups of parts.                                    *)
(***************************************************************************)
\* All conditions are evaluated up front, on re-entry again.
EnterBranch ==
    /\ AtNode("branch")
    /\ LET taken(a) == Holds(def, memory, Top.path, a.test)
           arms == SelectSeq(Node.arms, taken)
           opening == [i \in DOMAIN Node.arms |->
                        ArmEvent(Child(Top.path, Node.arms[i].name), taken(Node.arms[i]))]
       IN  /\ Emit(IF reentry = <<>> THEN <<Event("node-started", Here)>> \o opening ELSE <<>>)
           /\ Call(Group([i \in DOMAIN arms |-> Plain(arms[i].name)], <<>>, Top.value))
    /\ UNCHANGED <<pc, memory, reentry>> /\ WalksOn

\* The first item without a recorded output.
FirstMissing(known) ==
    CHOOSE i \in 0..Node.items :
        /\ i = Node.items \/ Item(Node.name, i) \notin DOMAIN known
        /\ \A j \in 0..(i - 1) : Item(Node.name, j) \in DOMAIN known

\* Bug: the item that asked is taken for done.
FirstItemAfter(known) == IF reentry # <<>> THEN reentry[1][3] + 1 ELSE FirstMissing(known)
\* The first item without a recorded output, or the item a re-entry leads to.
FirstItem(known) ==
    IF reentry # <<>> THEN reentry[1][3]
    ELSE FirstMissing(known)

EnterForeach ==
    /\ AtNode("foreach")
    /\ IF reentry # <<>> /\ ~IsItem(reentry[1]) THEN Throws /\ Unchanged
       ELSE LET known == IF Here \in DOMAIN log.items THEN log.items[Here] ELSE <<>>
                segment(i) == Item(Node.name, i)
                first == FirstItem(known)
                parts == [k \in {segment(i) : i \in 0..(first - 1)} |-> Get(known, k)]
                \* Feedback: the last recovered output that is defined.
                fed == {i \in 0..(first - 1) : parts[segment(i)] # Undef}
                input == IF fed = {} THEN Top.value
                         ELSE parts[segment(CHOOSE i \in fed : \A j \in fed : j <= i)]
            IN  /\ Emit(IF reentry = <<>> THEN <<CountEvent(Here, Node.items)>> ELSE <<>>)
                /\ Call(Group([i \in 1..(Node.items - first) |-> segment(first + i - 1)], parts, input))
                /\ UNCHANGED <<pc, memory, reentry>> /\ WalksOn

PartInput(group) ==
    IF Node.kind = "foreach" /\ ~Node.feedback THEN Scalar("item") ELSE group.input

\* The next part runs, from its start or, when it is the one a re-entry leads to,
\* from inside.  An arm before that one ran before the block: its output is recovered.
NextPart ==
    /\ InGroup /\ Top.todo # <<>>
    /\ LET seg == Head(Top.todo)
           path == Append(Top.path, seg)
           kind == IF Node.kind = "branch" THEN "arm" ELSE "item"
           rest == [Top EXCEPT !.todo = Tail(@)]
           Enter(way) == stack' = Front(stack) \o <<rest, Sequence(kind, path, PartInput(Top), memory, way)>>
       IN  IF reentry = <<>>
           THEN /\ Emit(IF kind = "item" THEN <<Event("foreach-item-started", path)>> ELSE <<>>)
                /\ Enter(<<>>)
                /\ UNCHANGED <<pc, memory, reentry>> /\ WalksOn
           ELSE IF reentry[1][1] # seg[1]
           THEN /\ Emit(<<>>)
                /\ Replace([rest EXCEPT !.parts = Put(@, seg, Get(memory, StaticKey(path)))])
                /\ UNCHANGED <<pc, memory, reentry>> /\ WalksOn
           ELSE IF Len(reentry) = 1 THEN Throws /\ Unchanged
           ELSE /\ Emit(<<>>)
                /\ Enter(Tail(reentry)) /\ reentry' = Tail(reentry)
                /\ UNCHANGED <<pc, memory>> /\ WalksOn

ClosePart ==
    /\ AtEnd("arm") \/ AtEnd("item")
    /\ LET group == stack[Len(stack) - 1]
           closing == IF Top.kind = "arm" THEN "node-completed" ELSE "foreach-item-completed"
       IN  /\ Emit(<<WithOutput(closing, Top.path, Top.value)>>)
           /\ stack' = Append(SubSeq(stack, 1, Len(stack) - 2),
                              [group EXCEPT !.parts = Put(@, Last(Top.path), Top.value),
                                            !.input = IF Top.kind = "item" /\ Top.value # Undef
                                                      THEN Top.value ELSE @])
    /\ UNCHANGED <<pc, memory, reentry>> /\ WalksOn

CloseGroup ==
    /\ InGroup /\ Top.todo = <<>>
    /\ Emit(<<WithOutput("node-completed", Here, Object(Top.parts))>>)
    /\ Return(Front(stack), Object(Top.parts))
    /\ WalksOn

(***************************************************************************)
(* Loops.  A round that produces nothing hands on what it received.        *)
(***************************************************************************)
IterationPath(i) == Append(Top.path, Iteration(Node.name, i))

EnterLoop ==
    /\ AtNode("loop") /\ reentry = <<>>
    /\ Emit(<<Event("node-started", Here), Event("loop-iteration", IterationPath(1))>>)
    /\ Call(Sequence("iteration", IterationPath(1), Top.value, memory, <<>>))
    /\ UNCHANGED <<pc, memory, reentry>> /\ WalksOn

\* Re-entry goes to the blocked iteration, with what the body's last node recorded.
ReenterLoop ==
    /\ AtNode("loop") /\ reentry # <<>>
    /\ IF ~IsIteration(reentry[1]) \/ Len(reentry) = 1 THEN Throws /\ Unchanged
       ELSE IF reentry[1][3] > Node.max THEN Crashes(Here) /\ Unchanged
       ELSE LET i == reentry[1][3]
                body == def[ScopeOf(Here)]
                recorded == Get(memory, StaticKey(Child(Here, Last(body).name)))
                input == IF i > 1 /\ recorded # Undef THEN recorded ELSE Top.value
            IN  /\ Emit(<<>>)
                /\ Call(Sequence("iteration", IterationPath(i), input, memory, Tail(reentry)))
                /\ reentry' = Tail(reentry)
                /\ UNCHANGED <<pc, memory>> /\ WalksOn

CloseIteration ==
    /\ AtEnd("iteration")
    /\ LET loop == Owner
           i == Last(Top.path)[3]
           path == Front(Top.path)
           output == IF Top.value # Undef THEN Top.value ELSE Top.input
           next == Append(path, Iteration(loop.name, i + 1))
       IN  IF Holds(def, memory, Top.path, loop.until)
           THEN /\ Emit(<<WithOutput("node-completed", Child(path, loop.name), output)>>)
                /\ Return(Front(stack), output) /\ WalksOn
           ELSE IF i = loop.max
           THEN Crashes(Child(path, loop.name)) /\ Unchanged
           ELSE /\ Emit(<<Event("loop-iteration", next)>>)
                /\ Replace(Sequence("iteration", next, output, memory, <<>>))
                /\ UNCHANGED <<pc, memory, reentry>> /\ WalksOn

(***************************************************************************)
(* Nested workflows, and the root.                                         *)
(***************************************************************************)
EnterNested ==
    /\ AtNode("workflow")
    /\ IF Len(reentry) = 1 THEN Throws /\ Unchanged
       ELSE LET way == IF reentry = <<>> THEN <<>> ELSE Tail(reentry)
            IN  /\ Emit(IF reentry = <<>> THEN <<Event("node-started", Here)>> ELSE <<>>)
                /\ Call(Sequence("nested", Here, Top.value, memory, way))
                /\ reentry' = way
                /\ UNCHANGED <<pc, memory>> /\ WalksOn

CloseNested ==
    /\ AtEnd("nested")
    /\ Emit(<<WithOutput("node-completed", Top.path, Top.value)>>)
    /\ Return(Front(stack), Top.value)
    /\ WalksOn

CloseRoot ==
    /\ AtEnd("root")
    /\ Emit(<<Event("run-completed", <<>>)>>)
    /\ Ends("completed")
    /\ UNCHANGED interrupted /\ Unchanged

\* The re-entry leads to a node the edited workflow does not have.
LosesPosition ==
    /\ pc = "walk" /\ Top.at = 0
    /\ Crashes(<<>>) /\ Unchanged

(***************************************************************************)
(* The calls.                                                              *)
(***************************************************************************)
NewCall == pc = "idle" /\ calls < MaxCalls /\ calls' = calls + 1 /\ UNCHANGED <<def, edits>>

Starts(frame, mem, way, given) ==
    /\ pc' = "walk" /\ stack' = <<frame>> /\ memory' = mem /\ reentry' = way /\ reply' = given
    /\ report' = "none" /\ UNCHANGED interrupted

Run ==
    /\ NewCall /\ ~log.started
    /\ Emit(<<Event("run-started", <<>>)>>)
    /\ Starts(Sequence("root", <<>>, Input, <<>>, <<>>), <<>>, <<>>, "none")

\* A step that completed must still be there; the earliest that is not is reported.
RefuseDrift ==
    \E k \in Drifted(def, log) : Crashes(k)

\* Bug: the node the run stopped in is skipped with those before it.
PrefixWithStopped ==
    LET n == Len(def[<<>>])
        missing == {i \in 1..n : <<Plain(def[<<>>][i].name)>> \notin DOMAIN log.outputs}
    IN  IF missing = {} THEN n ELSE CHOOSE p \in missing : \A i \in missing : p <= i
\* The nodes of the root that are recorded complete, up to the first that is not,
\* and what was recorded under them.
Prefix ==
    LET n == Len(def[<<>>])
        missing == {i \in 1..n : <<Plain(def[<<>>][i].name)>> \notin DOMAIN log.outputs}
    IN  IF missing = {} THEN n ELSE (CHOOSE p \in missing : \A i \in missing : p <= i) - 1

PrefixOutputs ==
    LET names == {def[<<>>][i].name : i \in 1..Prefix}
    IN  [k \in {key \in DOMAIN log.outputs : key[1][1] \in names} |-> log.outputs[k]]

resumeWorkflow ==
    /\ NewCall /\ log.started /\ deriveRunStatus(log) \in {"crashed", "cancelled"}
    /\ IF Drifted(def, log) # {} THEN RefuseDrift
       ELSE LET root == Sequence("root", <<>>, Input, <<>>, <<>>)
                value == IF Prefix = 0 THEN Input
                         ELSE Get(PrefixOutputs, <<Plain(def[<<>>][Prefix].name)>>)
            IN  /\ Emit(<<Event("run-resumed", <<>>)>>)
                /\ Starts([root EXCEPT !.at = Prefix + 1, !.value = value], PrefixOutputs, <<>>, "none")

\* The user replies to the earliest open question: resumeWithAnswer and resumeWithInteraction.
Reply(asking, provided, given) ==
    /\ NewCall /\ pendingHumanInputs(log) # <<>> /\ Head(pendingHumanInputs(log)).type = asking
    /\ IF Drifted(def, log) # {} THEN RefuseDrift
       ELSE LET way == Head(pendingHumanInputs(log)).path
            IN  /\ Emit(<<Event(provided, way)>>)
                /\ Starts(Sequence("root", <<>>, Input, log.outputs, way), log.outputs, way, given)

resumeWithAnswer == Reply("questionnaire-asked", "answers-provided", "answers")
resumeWithInteraction == Reply("interaction-requested", "interaction-provided", "response")

\* The user cancels the run, executing or blocked (handleCancel).  What the engine
\* would still emit is refused from here on: see ActiveRun.
Cancel ==
    /\ log.started /\ (pc # "idle" \/ deriveRunStatus(log) = "blocked")
    /\ Emit(<<Event("run-cancelled", <<>>)>>)
    /\ Ends("cancelled")
    /\ UNCHANGED interrupted /\ Unchanged

\* The process dies.
Crash ==
    /\ pc # "idle"
    /\ Emit(<<>>)
    /\ Ends("none")
    /\ UNCHANGED interrupted /\ Unchanged

\* A command finds a run in progress that nobody executes (reconcileAbandonedRun).
Reconcile ==
    /\ pc = "idle" /\ log.started /\ deriveRunStatus(log) = "in_progress"
    /\ Crashes(<<>>) /\ Unchanged

\* The author edits the workflow between two calls.
Edit ==
    /\ pc = "idle" /\ log.started /\ edits < MaxEdits
    /\ \E versions \in Workflows : def \in versions /\ def' \in versions \ {def}
    /\ edits' = edits + 1
    /\ Emit(<<>>)
    /\ UNCHANGED <<walker, report, interrupted, calls>>

(***************************************************************************)
(* Specification.                                                          *)
(***************************************************************************)
Init ==
    /\ def \in UNION Workflows
    /\ log = EmptyLog /\ sent = <<>>
    /\ pc = "idle" /\ stack = <<>> /\ memory = <<>> /\ reentry = <<>> /\ reply = "none"
    /\ report = "none" /\ interrupted = Nowhere
    /\ calls = 0 /\ edits = 0

\* The engine goes on by itself once it is called; a step ends (StepRunner).
Engine ==
    \/ StartStep \/ ReenterStep \/ StepCompletes \/ StepFails \/ StepAsks
    \/ EnterBranch \/ EnterForeach \/ NextPart \/ ClosePart \/ CloseGroup
    \/ EnterLoop \/ ReenterLoop \/ CloseIteration
    \/ EnterNested \/ CloseNested \/ CloseRoot \/ LosesPosition

Commands == Run \/ resumeWorkflow \/ resumeWithAnswer \/ resumeWithInteraction \/ Cancel \/ Reconcile

Next == Engine \/ Commands \/ Crash \/ Edit

Spec == Init /\ [][Next]_vars

(***************************************************************************)
(* Properties.                                                             *)
(***************************************************************************)
\* A step inside a branch arm that was taken, still open in the log.
OpenInArm == \E k \in DOMAIN log.states :
    /\ log.states[k] \in Live
    /\ \E i \in 1..(Len(k) - 1) : SubSeq(k, 1, i) \in log.arms

\* What execute returns is what the log derives to (execute.ts:123-162 against
\* run-status.ts): every later command decides by the log alone.
ReportMatchesStatus == report \notin {"none", "threw"} => deriveRunStatus(log) = report

\* A key of a foreach's item that an edit dropped.
DroppedItem(k) == \E i \in DOMAIN k :
    LET scope == ScopeOf(SubSeq(k, 1, i - 1))
    IN  /\ IsItem(k[i]) /\ scope \in DOMAIN def
        /\ \E n \in DOMAIN def[scope] :
            def[scope][n].kind = "foreach" /\ def[scope][n].name = k[i][1] /\ k[i][3] >= def[scope][n].items

\* What an edit leaves in progress for good: an arm it removed before its turn came
\* (step-state.ts:81), a step under way in an item it dropped after a crash.
LeftBehind == \E k \in DOMAIN log.states : log.states[k] = "in_progress" /\ (k \in log.arms \/ DroppedItem(k))

\* It does, whatever the constructs and over all calls, restarts and edits, except when a step
\* inside a branch arm is left open, or an edit left something behind.
ReportMatchesStatusOtherwise == ReportMatchesStatus \/ OpenInArm \/ LeftBehind

\* Outside of branch arms' own keys, what was rebuilt from the log reads as it did
\* when the question was asked.
ReadsAsAsked == \A k \in DOMAIN memory \cup DOMAIN interrupted.memory :
    k \in log.arms \/ Get(memory, k) = Get(interrupted.memory, k)

\* An answer continues the step that asked at its exact position, however deep
\* (resume-workflow.ts:86-90, execute.ts:188-206): the same frames with the same inputs,
\* recovered parts and parts still to run, as long as the log reads as memory did.
RestoresPosition ==
    [][ReenterStep /\ ReadsAsAsked /\ edits = 0 => stack = interrupted.stack]_vars

\* Once given, an answer reaches a step, unless the call ends: no construct on the way runs or
\* completes without it (resume-workflow.ts:97-177, execute.ts:188-206).  The code breaks it
\* when a discarded attempt's outputs turn a condition, or when the workflow was edited.
AnswerReachesStepOtherwise ==
    [][reentry # <<>> /\ reentry' = <<>> /\ pc' # "idle" =>
        ReenterStep \/ ~ReadsAsAsked \/ edits > 0]_vars

\* Rebuilding the outputs from the log (resume-workflow.ts:254-268) loses and changes
\* nothing: a name that had a value when the question was asked has that value again.
ReadsAreRecovered ==
    [][ReenterStep => \A k \in DOMAIN interrupted.memory :
        interrupted.memory[k] # Undef => Get(memory, k) = interrupted.memory[k]]_vars

\* The top-level nodes that are recorded complete are a prefix, but for optional steps
\* that failed: where a restart begins (resume-workflow.ts:43-48, 516-528) is where the
\* run stopped, and only behind a failed optional step does it repeat completed nodes.
CompletedNodesFormPrefix ==
    LET recorded(i) == <<Plain(def[<<>>][i].name)>> \in DOMAIN log.outputs IN
    edits = 0 => \A j \in DOMAIN def[<<>>] : \A i \in 1..(j - 1) :
        recorded(j) /\ ~recorded(i) => def[<<>>][i].kind = "step" /\ def[<<>>][i].optional
=============================================================================
