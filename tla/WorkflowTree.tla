----------------------------- MODULE WorkflowTree ------------------------------
(***************************************************************************)
(* A committed workflow definition as data, and the three ways its nodes   *)
(* are addressed: the node path an event carries, the static key state and *)
(* outputs are kept under, and the bare name an author's callback reads    *)
(* (src/flow/create-workflow.ts, src/engine/node-path.ts, context.ts,      *)
(* resume-workflow.ts).                                                    *)
(*                                                                         *)
(* A definition is a function from SCOPES to the sequence of their nodes.  *)
(* A scope is the sequence of names that lead to it, <<>> for the root.    *)
(* The arms of a branch are PEERS of the branch: the scope of an arm does  *)
(* not hold the branch's name.  The body of a loop or foreach and a nested *)
(* workflow are scopes under their own name.  Fan-out with lanes           *)
(* (.parallel, a concurrent .foreach) is modelled in FanOut.               *)
(*                                                                         *)
(* A value is a record: a scalar, undefined, or a construct's outputs by   *)
(* part.  Schemas, prompts and transforms are left out: `outcomes` holds   *)
(* what a step may come to, and a condition is a read compared to a value. *)
(***************************************************************************)
EXTENDS Integers, Sequences, FiniteSets, SequencesExt

Scalar(s) == [is |-> s, parts |-> <<>>]
Object(f) == [is |-> "object", parts |-> f]
Undef == Scalar("undefined")

(* Maps that grow: Map.set, and Map.get, which is undefined for an absent key. *)
Put(f, k, v) == [x \in DOMAIN f \cup {k} |-> IF x = k THEN v ELSE f[x]]
Get(f, k) == IF k \in DOMAIN f THEN f[k] ELSE Undef

(***************************************************************************)
(* Node paths: a sequence of segments, <<name>>, <<name, "#", iteration>>  *)
(* or <<name, "@", item>>.                                                 *)
(***************************************************************************)
Plain(name) == <<name>>
Iteration(name, i) == <<name, "#", i>>
Item(name, i) == <<name, "@", i>>
IsIteration(seg) == Len(seg) = 3 /\ seg[2] = "#"
IsItem(seg) == Len(seg) = 3 /\ seg[2] = "@"

Child(path, name) == Append(path, Plain(name))

\* The static key: iterations overwrite each other, items do not.
StaticKey(path) == [i \in DOMAIN path |-> IF IsItem(path[i]) THEN path[i] ELSE Plain(path[i][1])]

\* The scope a path's children are declared in.
ScopeOf(path) == [i \in DOMAIN path |-> path[i][1]]

(***************************************************************************)
(* What .commit() accepts.                                                 *)
(***************************************************************************)
ArmNames(node) == IF node.kind = "branch" THEN {node.arms[i].name : i \in DOMAIN node.arms} ELSE {}

\* The names a node contributes to its scope.
DeclaredBy(node) == {node.name} \cup ArmNames(node)
Declared(def, scope) == UNION {DeclaredBy(def[scope][i]) : i \in DOMAIN def[scope]}

ChildScopes(scope, node) ==
    CASE node.kind = "step" -> {}
      [] node.kind = "branch" -> {Append(scope, a) : a \in ArmNames(node)}
      [] OTHER -> {Append(scope, node.name)}

Unambiguous(node) ==
    node.kind = "branch" => /\ node.name \notin ArmNames(node)
                            /\ Cardinality(ArmNames(node)) = Len(node.arms)

Committed(def) ==
    /\ <<>> \in DOMAIN def
    /\ \A scope \in DOMAIN def :
        LET nodes == def[scope] IN
        /\ nodes # <<>>
        /\ \A i \in DOMAIN nodes : Unambiguous(nodes[i])
        /\ \A i, j \in DOMAIN nodes : i # j => DeclaredBy(nodes[i]) \cap DeclaredBy(nodes[j]) = {}
    /\ DOMAIN def = {<<>>} \cup UNION {UNION {ChildScopes(scope, def[scope][i]) : i \in DOMAIN def[scope]}
                                        : scope \in DOMAIN def}

(***************************************************************************)
(* getStepResult: a bare name belongs to the nearest enclosing scope that  *)
(* declares it, and to that scope's value even when it is undefined.       *)
(***************************************************************************)
DeclaringDepths(def, scope, name) == {d \in 0..Len(scope) : name \in Declared(def, SubSeq(scope, 1, d))}

Resolved(def, path, name) ==
    LET depths == DeclaringDepths(def, ScopeOf(path), name)
        depth == CHOOSE d \in depths : \A e \in depths : e <= d
    IN  Child(SubSeq(StaticKey(path), 1, depth), name)

Read(def, memory, path, name) == Get(memory, Resolved(def, path, name))

\* A pure condition of a branch arm or a loop, seen from the scope at path.
Holds(def, memory, path, test) == Read(def, memory, path, test.reads).is = test.equals

(***************************************************************************)
(* Positions in the tree.                                                  *)
(***************************************************************************)
\* Where a re-entry goes on: the node of that name, or the branch with that arm; 0 if none.
Position(nodes, name) ==
    LET here == {i \in DOMAIN nodes : name \in DeclaredBy(nodes[i])}
    IN  IF here = {} THEN 0 ELSE CHOOSE i \in here : \A j \in here : i <= j

\* Whether a static key still addresses a step.
IsStepAt(def, key) ==
    LET scope == ScopeOf(Front(key))
    IN  scope \in DOMAIN def /\ \E i \in DOMAIN def[scope] :
            def[scope][i].kind = "step" /\ def[scope][i].name = Last(key)[1]
=============================================================================
