------------------------------- MODULE Progress --------------------------------
(***************************************************************************)
(* The progress view of a run (src/progress): the outline of its workflow, *)
(* a row for every node, joined with a fold of its event log, and what of  *)
(* it the panel draws.  The state of a step or branch arm is the one the   *)
(* log's readers derive (RunLog); a construct's is rolled up from its      *)
(* rows.                                                                   *)
(*                                                                         *)
(* A clock is "none", "running" or "stopped": times, tokens, labels,       *)
(* counters and badges are left out, and so is how a row is drawn.         *)
(***************************************************************************)
EXTENDS RunLog, FiniteSetsExt

(***************************************************************************)
(* foldEvents: what the tree needs and the step states do not carry.       *)
(***************************************************************************)
EmptyFold == [
    clocks |-> <<>>,        \* the clock of every key an event ever named
    closed |-> {},          \* keys a node-completed or foreach-item-completed closed
    counts |-> <<>>,        \* the declared length of each foreach
    seen |-> <<>>,          \* the items of each foreach an event named
    settledOnce |-> {},     \* steps that settled at least once
    run |-> "none",         \* the run's own clock
    terminal |-> "none"]    \* how the run ended, until it is resumed

Clock(fold, key) == IF key \in DOMAIN fold.clocks THEN fold.clocks[key] ELSE "none"

SetClock(fold, key, c) == [fold EXCEPT !.clocks = Put(@, key, c)]
StartOnce(fold, key) == SetClock(fold, key, IF Clock(fold, key) = "none" THEN "running" ELSE Clock(fold, key))
\* Bug: a step that starts again keeps the clock of its last execution.
StartsAfresh(fold, key) == StartOnce(fold, key)
Start(fold, key) == SetClock(fold, key, "running")
Stop(fold, key) == SetClock(fold, key, IF Clock(fold, key) = "none" THEN "none" ELSE "stopped")

\* The end of a run stops every clock.
EndRun(fold, how) ==
    [fold EXCEPT !.clocks = [k \in DOMAIN @ |-> IF @[k] = "running" THEN "stopped" ELSE @[k]],
                 !.run = IF @ = "none" THEN "none" ELSE "stopped",
                 !.terminal = how]

Settle(fold, key) == [Stop(fold, key) EXCEPT !.settledOnce = @ \cup {key}]
Close(fold, key) == [Stop(fold, key) EXCEPT !.closed = @ \cup {key}]

\* The foreach an item belongs to, and the item's index.
ForeachKey(key) == Child(Front(key), Last(key)[1])
Index(key) == Last(key)[3]

Items(f, key) == IF key \in DOMAIN f THEN f[key] ELSE {}
See(fold, key) ==
    [fold EXCEPT !.seen = Put(@, ForeachKey(key), Items(@, ForeachKey(key)) \cup {Index(key)})]

Advance(fold, e) ==
    LET key == StaticKey(e.path) IN
    CASE e.type \in {"run-started", "run-resumed"} -> [fold EXCEPT !.run = "running", !.terminal = "none"]
      [] e.type \in {"step-started", "answers-provided", "interaction-provided", "node-started"} -> Start(fold, key)
      [] e.type \in {"step-completed", "step-failed"} -> Settle(fold, key)
      [] e.type \in Asking -> Stop(fold, key)
      [] e.type = "node-completed" -> Close(fold, key)
      [] e.type = "branch-arm" -> IF e.taken THEN StartOnce(fold, key) ELSE SetClock(fold, key, Clock(fold, key))
      [] e.type = "loop-iteration" -> StartOnce(fold, key)
      [] e.type = "foreach-started" -> [StartOnce(fold, key) EXCEPT !.counts = Put(@, key, e.count)]
      [] e.type = "foreach-item-started" -> Start(See(fold, key), key)
      [] e.type = "foreach-item-completed" -> Close(See(fold, key), key)
      [] e.type \in DOMAIN RunEnd -> EndRun(fold, RunEnd[e.type])

(***************************************************************************)
(* The outline: the rows of a scope whose nodes are addressed under at.    *)
(* Arms are drawn under their branch and addressed beside it; a foreach    *)
(* has a row for every item that was seen.                                 *)
(***************************************************************************)
Row(kind, name, node, scope, at) ==
    [kind |-> kind, path |-> Child(at, name), node |-> node, scope |-> scope, at |-> at]

OutlineNodes(def, scope, at) ==
    {Row(def[scope][i].kind, def[scope][i].name, def[scope][i], scope, at) : i \in DOMAIN def[scope]}

ArmRows(row) ==
    {Row("branch-arm", a, row.node, Append(row.scope, a), row.at) : a \in ArmNames(row.node)}

Children(def, fold, row) ==
    CASE row.kind = "step" -> {}
      [] row.kind = "branch" -> ArmRows(row)
      [] row.kind = "branch-arm" -> OutlineNodes(def, row.scope, row.path)
      [] row.kind = "foreach" ->
            {[Row("foreach-item", row.node.name, row.node, Append(row.scope, row.node.name), row.at)
                EXCEPT !.path = Append(row.at, Item(row.node.name, i))] : i \in Items(fold.seen, row.path)}
      [] row.kind = "foreach-item" -> OutlineNodes(def, row.scope, row.path)
      [] row.kind \in {"loop", "workflow"} -> OutlineNodes(def, Append(row.scope, row.node.name), row.path)

Roots(def) == OutlineNodes(def, <<>>, <<>>)

\* Every row, tier by tier; a scope adds at most two.
Rows(def, fold) ==
    LET depth == 2 * Cardinality(DOMAIN def)
        upTo[n \in 0..depth] ==
            IF n = 0 THEN Roots(def)
            ELSE UNION {{row} \cup Children(def, fold, row) : row \in upTo[n - 1]}
    IN  upTo[depth]

(***************************************************************************)
(* projectNode: the state of a row.                                        *)
(***************************************************************************)
\* Bug: the skip is not carried down.
SkippedItself(states, path) == path \in DOMAIN states /\ states[path] = "skipped"
\* Below an arm that was skipped everything is.
Skipped(states, path) ==
    \E i \in 1..Len(path) : SubSeq(path, 1, i) \in DOMAIN states /\ states[SubSeq(path, 1, i)] = "skipped"

\* Bug: what never began outranks what waits.
rollupEager(states) ==
    CASE states = {} \/ states = {"todo"} -> "untouched"
      [] states = {"blocked"} -> "blocked"
      [] states # {} /\ states \subseteq {"completed", "skipped"} -> "settled"
      [] OTHER -> "in_progress"
\* What the states of its rows say about a construct: "settled" is not "completed".
rollup(states) ==
    CASE states = {} -> "untouched"
      [] "in_progress" \in states -> "in_progress"
      [] "blocked" \in states /\ "in_progress" \notin states -> "blocked"
      [] "crashed" \in states /\ states \cap Live = {} -> "crashed"
      [] "cancelled" \in states /\ states \cap (Live \cup {"crashed"}) = {} -> "cancelled"
      [] states # {} /\ states \subseteq {"completed", "skipped"} -> "settled"
      [] states = {"todo"} -> "untouched"
      [] OTHER -> "in_progress"

\* Only its own closing event completes a construct.
constructState(fold, path, states) ==
    LET rolled == rollup(states)
        underWay == IF fold.terminal # "none" THEN fold.terminal ELSE "in_progress"
    IN  CASE path \in fold.closed -> "completed"
          [] path \notin fold.closed /\ rolled \notin {"settled", "untouched"} -> rolled
          [] path \notin fold.closed /\ rolled = "untouched" /\ path \notin DOMAIN fold.clocks -> "todo"
          [] OTHER -> underWay

\* The state of every row.
project(def, states, fold) ==
    LET state[row \in Rows(def, fold)] ==
            IF Skipped(states, row.path) THEN "skipped"
            ELSE IF row.kind \in {"step", "branch-arm"}
            THEN IF row.path \in DOMAIN states THEN states[row.path] ELSE "todo"
            ELSE constructState(fold, row.path, {state[child] : child \in Children(def, fold, row)})
    IN  state

(***************************************************************************)
(* tally: settled steps over all steps, the footer's bar.                  *)
(***************************************************************************)
SETTLED == {"completed", "skipped", "crashed", "cancelled"}

Leaves(view) == {row \in DOMAIN view : row.kind = "step"}

stepsSettled(view, fold) ==
    Cardinality({row \in Leaves(view) : view[row] \in SETTLED \/ row.path \in fold.settledOnce})

\* The steps of one item's body, whatever it contains.
templateLeafCount(def, scope) ==
    LET inside == {s \in DOMAIN def : IsPrefix(scope, s)}
        steps(s) == Cardinality({i \in DOMAIN def[s] : def[s][i].kind = "step"})
    IN  MapThenSumSet(steps, inside)

\* Declared items without a row are outstanding work, each of its body's steps.
Outstanding(def, fold, row) ==
    LET items == Cardinality(Items(fold.seen, row.path))
    IN  IF row.kind = "foreach" /\ row.path \in DOMAIN fold.counts /\ fold.counts[row.path] > items
        THEN (fold.counts[row.path] - items) * templateLeafCount(def, Append(row.scope, row.node.name))
        ELSE 0

stepsTotal(def, view, fold) ==
    LET outstanding(row) == Outstanding(def, fold, row)
    IN  Cardinality(Leaves(view)) + MapThenSumSet(outstanding, DOMAIN view)

(***************************************************************************)
(* collapse: the rows the panel draws.                                     *)
(***************************************************************************)
\* An item of a single step is that step's row.
isInlined(def, row) ==
    row.kind = "foreach-item" /\ Len(def[row.scope]) = 1 /\ def[row.scope][1].kind = "step"

isExpanded(def, view, row) ==
    row.kind # "step" /\ ~isInlined(def, row) /\ view[row] \notin {"completed", "todo", "skipped"}

\* The rows that are drawn, themselves or as the item they are inlined into.
Drawn(def, fold, view) ==
    LET depth == 2 * Cardinality(DOMAIN def)
        below(row) == IF isExpanded(def, view, row) \/ isInlined(def, row)
                      THEN Children(def, fold, row) ELSE {}
        upTo[n \in 0..depth] ==
            IF n = 0 THEN Roots(def)
            ELSE UNION {{row} \cup below(row) : row \in upTo[n - 1]}
    IN  upTo[depth]

hasWorkInFlight(view) == \E row \in DOMAIN view : view[row] = "in_progress"
=============================================================================
