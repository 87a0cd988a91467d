--------------------------- MODULE MCWorkflowCommit ----------------------------
(* Every definition of two constructs, one in the other, around one agent step. *)
EXTENDS WorkflowCommit

LOCAL At(path, nodes) == [p \in {path} |-> nodes]

LOCAL AgentStep(asks, background, resumable) ==
    [kind |-> "step", name |-> "work", runs |-> "agent", asks |-> asks, background |-> background,
     resumable |-> resumable, input |-> "none", output |-> "answer"]
LOCAL Keys == [by : {"nothing", "name", "function"}] \cup {[by |-> "string", key |-> "desk"]}
LOCAL Fresh == [by |-> "nothing"]
LOCAL Work == {AgentStep(a, b, r) : a, b \in BOOLEAN, r \in Keys}
LOCAL Form == [AgentStep(TRUE, FALSE, Fresh) EXCEPT !.name = "form", !.runs = "questionnaire"]
LOCAL Review == [AgentStep(FALSE, FALSE, [by |-> "name"]) EXCEPT !.name = "review"]

LOCAL Construct(name) ==
         [kind : {"loop", "workflow"}, name : {name}]
    \cup [kind : {"foreach"}, name : {name}, concurrency : 1..3, feedback : BOOLEAN]
    \cup [kind : {"branch"}, name : {"route"}, arms : {<<[name |-> name]>>}]

\* The arms of a parallel are steps, so that it only comes innermost.
LOCAL Definitions ==
    {At(<<>>, <<a>>) @@ At(<<"a">>, <<b>>) @@ At(<<"a", "b">>, <<w, s>>) :
        a \in Construct("a"), b \in Construct("b") \cup [kind : {"parallel"}, name : {"b"}],
        w \in Work, s \in {Form, Review}}

LOCAL Segments(node, name) ==
    CASE node.kind = "loop" -> {Iteration(name, i) : i \in 1..2}
      [] node.kind = "foreach" -> {Item(name, i) : i \in 0..1}
      [] OTHER -> {Plain(name)}

LOCAL Executions(def) ==
    {<<a, b, Plain(def[<<"a", "b">>][i].name)>> :
        a \in Segments(def[<<>>][1], "a"), b \in Segments(def[<<"a">>][1], "b"), i \in 1..2}

\* A definition whose steps have no other fault is refused exactly when one of its agent steps can
\* be under way together with another execution, and asks or holds a static key.
ASSUME IsolationIsExact == \A def \in Definitions :
    LET steps == def[<<"a", "b">>]
        clash == \E p, q \in Executions(def), i \in 1..2 :
            IsExecution(def, p, steps[i]) /\ AtOnce(def, p, q) /\ ~MayOverlap(steps[i])
        fault == \/ steps[1].asks /\ steps[1].background
                 \/ \E scope \in DOMAIN def, i \in {1} : def[scope][i].kind = "foreach"
                      /\ (def[scope][i].concurrency > 2 \/ (def[scope][i].feedback /\ def[scope][i].concurrency > 1))
    IN  commit(def, 2) <=> ~clash /\ ~fault

LOCAL Accepted == {def \in Definitions : commit(def, 2)}

\* What functions may return: one key for all, or one for each item.
LOCAL Returned(def) == {[p \in Executions(def) |-> "work"],
                        [p \in Executions(def) |-> IF \E n \in 1..2 : p[n] = Item(p[n][1], 0)
                                                   THEN "first" ELSE "later"]}

\* What it lets through is isolated where it overlaps, and comes to one file as LeftToTheClaim says.
ASSUME CommittedIsIsolated == \A def \in Accepted :
    LET steps == def[<<"a", "b">>] IN
    \A p, q \in Executions(def) : AtOnce(def, p, q) => \A i, j \in 1..2 :
        /\ OverlapIsIsolated(def, p, q, steps[i])
        /\ \A f \in Returned(def) : LeftToTheClaim(def, p, steps[i], q, steps[j], f)

\* It does let through a step known by its name whose items share one file.
ASSUME ItemsShareAName == \E def \in Accepted :
    LET work == def[<<"a", "b">>][1] IN
    \E p, q \in Executions(def), f \in Returned(def) :
        /\ IsExecution(def, p, work) /\ IsExecution(def, q, work) /\ AtOnce(def, p, q)
        /\ work.resumable.by = "name" /\ OneFile(work, p, work, q, f)
=============================================================================
