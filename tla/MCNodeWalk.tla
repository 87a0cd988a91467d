------------------------------ MODULE MCNodeWalk -------------------------------
(* Small workflows for NodeWalk: each puts the constructs together in another way. *)
EXTENDS NodeWalk

Step(name, outcomes) ==
    [kind |-> "step", name |-> name, outcomes |-> outcomes, optional |-> FALSE, needsInput |-> FALSE,
     mode |-> IF "asks" \in outcomes THEN "agent" ELSE "function"]
Form(step) == [step EXCEPT !.mode = "form"]
Interactive(step) == [step EXCEPT !.mode = "interactive"]
Optional(step) == [step EXCEPT !.optional = TRUE]
Needing(step) == [step EXCEPT !.needsInput = TRUE]
When(name, value) == [reads |-> name, equals |-> value]
Arm(name, test) == [name |-> name, test |-> test]
Branch(name, arms) == [kind |-> "branch", name |-> name, arms |-> arms]
Loop(name, max, until) == [kind |-> "loop", name |-> name, max |-> max, until |-> until]
Foreach(name, items, feedback) == [kind |-> "foreach", name |-> name, items |-> items, feedback |-> feedback]
Nested(name) == [kind |-> "workflow", name |-> name]
Scope(path, nodes) == [p \in {path} |-> nodes]

\* A branch of three arms behind an optional step: two are taken together, the third
\* needs an input that step did not produce.
Routed ==
       Scope(<<>>, <<Optional(Step("plan", {"hi", "fails"})),
                     Branch("route", <<Arm("quick", When("plan", "hi")), Arm("deep", When("plan", "hi")),
                                       Arm("salvage", When("plan", "undefined"))>>),
                     Step("ship", {"hi", "fails"})>>)
    @@ Scope(<<"quick">>, <<Step("check", {"hi"})>>)
    @@ Scope(<<"deep">>, <<Step("dig", {"hi", "asks"})>>)
    @@ Scope(<<"salvage">>, <<Needing(Step("patch", {"hi"}))>>)

\* The same with two arms removed, a step renamed, one that is a function now and one that
\* asks for approval.
RoutedEdited ==
       Scope(<<>>, <<Optional(Step("plan", {"hi", "fails"})),
                     Branch("route", <<Arm("deep", When("plan", "hi"))>>),
                     Interactive(Step("release", {"hi", "fails"}))>>)
    @@ Scope(<<"deep">>, <<Step("dig", {"hi"})>>)

\* A loop with a branch inside, taken in the rounds whose draft failed, and an optional
\* tail.
Polished ==
       Scope(<<>>, <<Loop("polish", 2, When("score", "hi")), Interactive(Needing(Step("publish", {"hi", "asks"})))>>)
    @@ Scope(<<"polish">>, <<Optional(Step("draft", {"lo", "fails"})),
                             Branch("revise", <<Arm("rework", When("draft", "undefined"))>>),
                             Optional(Step("score", {"hi", "lo", "fails", "asks"}))>>)
    @@ Scope(<<"polish", "rework">>, <<Step("edit", {"hi", "asks"})>>)

\* A nested workflow inside a loop, with a foreach of two items.
Audited ==
       Scope(<<>>, <<Loop("until-clean", 2, When("audit", "hi"))>>)
    @@ Scope(<<"until-clean">>, <<Nested("audit")>>)
    @@ Scope(<<"until-clean", "audit">>, <<Foreach("each", 2, TRUE), Form(Step("verdict", {"lo", "hi"}))>>)
    @@ Scope(<<"until-clean", "audit", "each">>, <<Step("lint", {"hi"}), Optional(Step("fix", {"lo", "asks", "fails"}))>>)

\* Two arms, and the same without the one whose turn comes after the one that asks.
Wide ==
       Scope(<<>>, <<Step("plan", {"hi"}),
                     Branch("route", <<Arm("quick", When("plan", "hi")), Arm("deep", When("plan", "hi"))>>),
                     Step("ship", {"hi", "asks"})>>)
    @@ Scope(<<"quick">>, <<Step("check", {"hi", "asks"})>>)
    @@ Scope(<<"deep">>, <<Step("dig", {"hi"})>>)
Narrow ==
       Scope(<<>>, <<Step("plan", {"hi"}), Branch("route", <<Arm("quick", When("plan", "hi"))>>),
                     Step("ship", {"hi", "asks"})>>)
    @@ Scope(<<"quick">>, <<Step("check", {"hi", "asks"})>>)

\* A draft that fails in a second attempt turns the condition of the later arm.
Touched ==
       Scope(<<>>, <<Step("seed", {"hi"}), Loop("polish", 1, When("seed", "hi"))>>)
    @@ Scope(<<"polish">>, <<Optional(Step("draft", {"lo", "fails"})),
                             Branch("revise", <<Arm("rework", When("seed", "hi")), Arm("touch", When("draft", "lo"))>>)>>)
    @@ Scope(<<"polish", "rework">>, <<Step("edit", {"hi", "asks"})>>)
    @@ Scope(<<"polish", "touch">>, <<Step("tidy", {"hi"})>>)

\* Two items, and the same with one.
Batch(items) ==
       Scope(<<>>, <<Foreach("each", items, FALSE), Step("ship", {"hi", "asks"})>>)
    @@ Scope(<<"each">>, <<Optional(Step("lint", {"hi", "fails"})), Step("fix", {"hi", "asks"})>>)

MCWorkflows == {{Routed, RoutedEdited}, {Polished}, {Audited}, {Wide, Narrow}, {Touched}, {Batch(2), Batch(1)}}
MCInput == Scalar("lo")
=============================================================================
