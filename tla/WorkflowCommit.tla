---------------------------- MODULE WorkflowCommit -----------------------------
(***************************************************************************)
(* What .commit() promises the engine about fan-out (src/flow/             *)
(* create-workflow.ts, isolation.ts): the checks it makes on a definition  *)
(* by its SHAPE, and the isolation it tags agent steps with.  An agent     *)
(* step talks in the parent's session unless it is isolated or runs in the *)
(* background, so that two that run at once must not both be in it or ask  *)
(* in it.  Nor may both continue one conversation, which is one file; of   *)
(* that commit() can see to a part only.                                   *)
(*                                                                         *)
(* Definitions are WorkflowTree's.  The arms of a parallel are the steps   *)
(* of the scope under its name.  An agent step says whether it asks, runs  *)
(* in the background, has an output schema, and by what the conversation   *)
(* it continues is known: by nothing, by the step's own name (true), by a  *)
(* static string, with the key, or by a function of the execution.         *)
(* Schemas are compared, never looked into: "none", "any" or a schema.     *)
(***************************************************************************)
EXTENDS WorkflowTree

StepKinds == {"function", "agent", "questionnaire", "interactive"}

Agent(node) == node.kind = "step" /\ node.runs = "agent"

(***************************************************************************)
(* The checks, node by node.                                               *)
(***************************************************************************)
WellFormed(node) == node.kind = "step" => node.runs \in StepKinds

WithinCeiling(node, ceiling) == node.kind = "foreach" => node.concurrency <= ceiling

FeedbackIsSequential(node) == node.kind = "foreach" /\ node.feedback => node.concurrency = 1

NoBackgroundAsks(node) == Agent(node) /\ node.asks => ~node.background /\ node.output # "none"

\* The last step's output is the next iteration's input; only two declared schemas can differ.
LoopFeedbackSchemas(def, scope, node) ==
    node.kind = "loop" =>
        LET body == def[Append(scope, node.name)] IN
        (Head(body).kind = "step" /\ Last(body).kind = "step") =>
            \/ Head(body).input \in {"none", "any"} \/ Last(body).output = "none"
            \/ Head(body).input = Last(body).output

(***************************************************************************)
(* Isolation: overlap implies isolation, for a whole subtree.              *)
(***************************************************************************)
Overlapping(node) ==
    \/ node.kind = "parallel"
    \/ node.kind = "foreach" /\ node.concurrency > 1

\* A walk down the tree that never turns the flag off again.
Isolated(def, scope) == \E d \in 1..Len(scope) :
    LET around == def[SubSeq(scope, 1, d - 1)] IN
    \E i \in DOMAIN around : around[i].name = scope[d] /\ Overlapping(around[i])

\* An agent step where it is isolated: it is tagged, and may neither ask nor hold a static key.
\* Its own name and a function are let through.
MayOverlap(node) == Agent(node) => ~node.asks /\ node.resumable.by # "string"

resolveIsolation(def) == \A scope \in DOMAIN def :
    Isolated(def, scope) => \A i \in DOMAIN def[scope] : MayOverlap(def[scope][i])

commit(def, ceiling) ==
    /\ Committed(def)
    /\ \A scope \in DOMAIN def : \A i \in DOMAIN def[scope] :
        LET node == def[scope][i] IN
        /\ WellFormed(node)
        /\ WithinCeiling(node, ceiling)
        /\ FeedbackIsSequential(node)
        /\ NoBackgroundAsks(node)
        /\ LoopFeedbackSchemas(def, scope, node)
    /\ resolveIsolation(def)

(***************************************************************************)
(* What the engine makes of a definition: executions of its steps, by      *)
(* their node paths.                                                       *)
(***************************************************************************)
\* The scope that the first n segments of a path lead to.
ScopeAfter(path, n) == SubSeq(ScopeOf(path), 1, n)

\* The node the n-th segment of a path names.
IsNodeAt(def, path, n, node) ==
    node.name = path[n][1] /\ \E i \in DOMAIN def[ScopeAfter(path, n - 1)] : def[ScopeAfter(path, n - 1)][i] = node

\* A step's own segment has neither an iteration nor an item.
IsExecution(def, path, step) ==
    /\ path # <<>>
    /\ ScopeAfter(path, Len(path) - 1) \in DOMAIN def
    /\ step.kind = "step" /\ IsNodeAt(def, path, Len(path), step)
    /\ path[Len(path)] = Plain(step.name)

NodesOf(def) == UNION {Range(def[scope]) : scope \in DOMAIN def}

\* Two paths are one up to their n-th segments, where they part.
Part(p, q, n) ==
    /\ n \in 1..Len(p) /\ n <= Len(q)
    /\ p[n] # q[n] /\ SubSeq(p, 1, n - 1) = SubSeq(q, 1, n - 1)

ItemsAtOnce(def, p, q) == \E n \in 1..Len(p), node \in NodesOf(def) :
    /\ Part(p, q, n) /\ IsItem(p[n]) /\ IsItem(q[n]) /\ p[n][1] = q[n][1]
    /\ IsNodeAt(def, p, n, node) /\ node.kind = "foreach" /\ node.concurrency > 1

\* Arms are bare steps, so that the paths of two arms end in them.
ArmsAtOnce(def, p, q) == \E node \in NodesOf(def) :
    /\ Part(p, q, Len(p)) /\ Len(q) = Len(p) /\ Len(p) > 1
    /\ IsNodeAt(def, p, Len(p) - 1, node) /\ node.kind = "parallel"

\* Two executions can be under way at once.
AtOnce(def, p, q) == ItemsAtOnce(def, p, q) \/ ArmsAtOnce(def, p, q)

(***************************************************************************)
(* The file an execution's conversation continues in is the run's workflow *)
(* and this key, wherever in the tree the step is.  What the author's      *)
(* functions come to is in `returned`, by node path.                       *)
(***************************************************************************)
Continues(step) == Agent(step) /\ step.resumable.by \in {"name", "string", "function"}

resolveResumeKey(step, path, returned) ==
    CASE step.resumable.by = "function" -> returned[path]
      [] step.resumable.by = "string" -> step.resumable.key
      [] OTHER -> step.name

OneFile(step, p, other, q, returned) ==
    /\ Continues(step) /\ Continues(other)
    /\ resolveResumeKey(step, p, returned) = resolveResumeKey(other, q, returned)

\* An agent step that can be under way together with another execution, its own of another item
\* included, is isolated, does not ask and holds no static key (isolation.ts, resolveStep).
OverlapIsIsolated(def, p, q, step) ==
    IsExecution(def, p, step) /\ Agent(step) /\ AtOnce(def, p, q) =>
        /\ Isolated(def, ScopeAfter(p, Len(p) - 1))
        /\ ~step.asks /\ step.resumable.by # "string"

\* What commit() leaves to the claim a process makes on the file when it runs: two executions that
\* can be under way at once come to one file only by a function of the author's, or as steps of one
\* name, each known by it, for two items of a concurrent foreach (isolation.ts, resolveStep;
\* step-runner.ts, resolveResumeKey; pi-agent.ts, claimResumeFile).
LeftToTheClaim(def, p, step, q, other, returned) ==
    /\ IsExecution(def, p, step) /\ IsExecution(def, q, other)
    /\ AtOnce(def, p, q) /\ OneFile(step, p, other, q, returned)
    => \/ "function" \in {step.resumable.by, other.resumable.by}
       \/ /\ step.resumable.by = "name" /\ other.resumable.by = "name"
          /\ step.name = other.name /\ ItemsAtOnce(def, p, q)
=============================================================================
