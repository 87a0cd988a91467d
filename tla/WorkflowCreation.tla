--------------------------- MODULE WorkflowCreation ----------------------------
(***************************************************************************)
(* The workflow behind /workflow create (src/host/builtin/                 *)
(* create.workflow.ts): a goal, a loop of designs and reviews, the         *)
(* reservation of the approved file, the project's package, a loop of      *)
(* implementations and checks.  Several runs create at once in processes   *)
(* of one project, other commands prepare the package between them, and    *)
(* the user writes files of their own.                                     *)
(*                                                                         *)
(* The engine is modelled by what it promises a workflow: a run that       *)
(* crashed or was cancelled goes on at its first top-level node without a  *)
(* checkpoint, an answer or response at the position that asked.  A plan   *)
(* is a number, a file is who wrote it, for which plan, and how good it    *)
(* is.  Prompts, schemas, the rendering of a plan are left out.            *)
(***************************************************************************)
EXTENDS ProjectPackage, FiniteSets, FiniteSetsExt

CONSTANTS Creators,   \* runs of create-workflow
          Launchers,  \* commands that run or resume a workflow of the project
          Names,      \* a workflow name's slug, slug-2, slug-3, ... in that order
          MaxPlans,   \* designs proposed in one run
          MaxRounds,  \* MAX_AUTHORING_ITERATIONS
          MaxStops    \* how often the runs crash or are cancelled, all in all

ASSUME ActorsPrepare == Actors = Creators \cup Launchers /\ Creators \cap Launchers = {}
ASSUME NamesAreNumbered == Names = 1..Cardinality(Names)

VARIABLES run,      \* the creations
          files,    \* the workflow files, by name
          orphaned  \* creations whose reservation was never checkpointed (history)

vars == <<packageVars, run, files, orphaned>>

\* Files are by a creation, by the user, or not there.
ASSUME AuthorsDiffer == {"user", "nobody"} \cap Creators = {}

NoFile == [by |-> "nobody", plan |-> 0, quality |-> "absent"]
Qualities == {"untyped", "misnamed", "untested", "good"}

\* What a creation keeps: where it is, and the plan and target of the latest plan document.
Fresh == [status |-> "asking", at |-> "goal", round |-> 1,
          plan |-> 0, target |-> 0, stops |-> 0]

(***************************************************************************)
(* Positions.  The top-level nodes are goal, review (design, resolve,      *)
(* approve), reserve (reserve, reserved), package, build (implement,       *)
(* check), complete.                                                       *)
(***************************************************************************)
At(r, step) == run[r].status = "running" /\ run[r].at = step

Update(r, new) == run' = [run EXCEPT ![r] = new]
Goes(r, step) == Update(r, [run[r] EXCEPT !.at = step])

MayStop == FoldSet(LAMBDA r, sum : sum + run[r].stops, 0, Creators) < MaxStops
Crashes(r) == MayStop /\ Update(r, [run[r] EXCEPT !.status = "crashed", !.stops = @ + 1])

\* Bug: a restart repeats the last node that was checkpointed.
RestartBehind(step) ==
    CASE step \in {"design", "resolve", "approve"} -> "design"
      [] step = "package" -> "reserve"
      [] step \in {"implement", "check"} -> "package"
      [] OTHER -> step

\* Where a restart goes on: a loop begins anew, and "reserved" is a step without checkpoint.
Restart(step) ==
    CASE step \in {"design", "resolve", "approve"} -> "design"
      [] step \in {"reserve", "reserved"} -> "reserve"
      [] step \in {"implement", "check"} -> "implement"
      [] OTHER -> step

Restarted(r) ==
    [run[r] EXCEPT !.status = IF Restart(run[r].at) = "goal" THEN "asking" ELSE "running",
                   !.at = Restart(run[r].at), !.round = 1,
                   !.target = IF Restart(run[r].at) \in {"goal", "design"} THEN 0 ELSE @]

(***************************************************************************)
(* The steps.                                                              *)
(***************************************************************************)
collectGoal(r) ==
    /\ run[r].status = "asking" /\ run[r].at = "goal"
    /\ Update(r, [run[r] EXCEPT !.status = "running", !.at = "design"])
    /\ UNCHANGED <<packageVars, files, orphaned>>

\* A plan of its own each time, or a question to the user first.
design(r) ==
    /\ At(r, "design") /\ run[r].plan < MaxPlans
    /\ \/ Update(r, [run[r] EXCEPT !.at = "resolve", !.plan = @ + 1])
       \/ Update(r, [run[r] EXCEPT !.status = "asking"])
    /\ UNCHANGED <<packageVars, files, orphaned>>

answerDesign(r) ==
    /\ run[r].status = "asking" /\ run[r].at = "design"
    /\ Update(r, [run[r] EXCEPT !.status = "running", !.at = "resolve", !.plan = @ + 1])
    /\ UNCHANGED <<packageVars, files, orphaned>>

\* The first name no file of the directory has by now.
resolveTarget(r) ==
    /\ At(r, "resolve")
    /\ \E n \in Names :
        /\ files[n] = NoFile /\ \A m \in Names : m < n => files[m] # NoFile
        /\ Update(r, [run[r] EXCEPT !.at = "approve", !.target = n, !.status = "asking"])
    /\ UNCHANGED <<packageVars, files, orphaned>>

\* The response, in whatever process it is given, is carried out of the loop with the plan it
\* is about, or starts another round.
approve(r) ==
    /\ run[r].status = "asking" /\ run[r].at = "approve"
    /\ \/ Update(r, [run[r] EXCEPT !.status = "running", !.at = "reserve", !.round = 1])
       \/ /\ run[r].round < MaxRounds
          /\ Update(r, [run[r] EXCEPT !.status = "running", !.at = "design", !.round = @ + 1, !.target = 0])
       \/ run[r].round = MaxRounds /\ Crashes(r)
    /\ UNCHANGED <<packageVars, files, orphaned>>

\* Bug: the file is written whether it exists or not.
Overwrites(name) == TRUE

\* writeFile with flag "wx": the file system refuses a name that exists.
Reservable(name) == files[name] = NoFile

reserve(r) ==
    /\ At(r, "reserve")
    /\ \E n \in {run[r].target} :
        IF Reservable(n)
        THEN /\ files' = [files EXCEPT ![n] = [by |-> r, plan |-> 0, quality |-> "reserved"]]
             /\ Goes(r, "reserved")
        ELSE /\ Update(r, [run[r] EXCEPT !.status = "refused"])
             /\ UNCHANGED files
    /\ UNCHANGED <<packageVars, orphaned>>

\* step-completed is appended.
CheckpointReserve(r) ==
    /\ At(r, "reserved")
    /\ Goes(r, "package") /\ Prepare(r)
    /\ UNCHANGED <<store, files, orphaned>>

preparePackage(r) ==
    /\ At(r, "package")
    /\ \/ /\ Preparation(r)
          /\ UNCHANGED <<run, files, orphaned>>
       \/ /\ prep[r].phase = "ready" /\ Done(r)
          /\ Update(r, [run[r] EXCEPT !.at = "implement"])
          /\ UNCHANGED <<store, files, orphaned>>
       \/ /\ prep[r].phase = "failed" /\ Done(r)
          /\ Crashes(r)
          /\ UNCHANGED <<store, files, orphaned>>

\* The agent writes the entry and a test, for the plan the review loop put out.
Writes(r) == \E q \in Qualities :
    files' = [files EXCEPT ![run[r].target] = [by |-> r, plan |-> run[r].plan, quality |-> q]]

implement(r) ==
    /\ At(r, "implement")
    /\ Writes(r)
    /\ Goes(r, "check")
    /\ UNCHANGED <<packageVars, orphaned>>

(***************************************************************************)
(* The check: what each of its stages may make of an entry.  A "failed"    *)
(* one is the author's to repair, "infrastructure" is nobody's fault here. *)
(***************************************************************************)
Entry(r) == files[run[r].target]

\* The compiler and the type declarations that are installed in the package.
resolveValidationToolchain == installed # None

\* Any command of a stage can be missing, exceed its time limit or be killed.
Command(outcome) == {outcome, "infrastructure"}

\* Exactly one file of tests, all of them passing; no usable report is not a failed test.
parseVitestResult(entry) == Command(IF entry.quality = "good" THEN "ok" ELSE "failed")

\* In a process of the package's own verifier: its toolchain, TypeScript, the test.
verifyWorkflowPackage(entry) ==
    IF ~resolveValidationToolchain THEN {"infrastructure"}
    ELSE IF entry.quality = "untyped" THEN Command("failed")
    ELSE parseVitestResult(entry)

\* That process is started by pnpm; its result file and its exit code have to agree.
verifyWorkflowTest(entry) == verifyWorkflowPackage(entry) \cup {"infrastructure"}

\* TypeScript under the package's toolchain, started by this process.  A toolchain that cannot
\* be resolved is a TypeScript failure here, and so is a compiler that cannot be started, is
\* killed or exceeds its time limit, whatever the entry is like.
validateTypeScript(entry) ==
    {"failed"} \cup (IF resolveValidationToolchain /\ entry.quality # "untyped" THEN {"ok"} ELSE {})

\* What compiles also loads: an entry that does not is called untyped, too.
validateWorkflowFile(entry) == validateTypeScript(entry)

\* The loaded workflow has the reviewed name and invocation.
AsReviewed(entry) == entry.quality # "misnamed"

\* Bug: a workflow that loads under the reviewed name will do.
VerdictsOnLoading(entry) ==
    {IF AsReviewed(entry) THEN outcome ELSE "failed" : outcome \in validateWorkflowFile(entry)}

Verdicts(entry) == UNION {
    IF outcome = "ok" /\ AsReviewed(entry) THEN verifyWorkflowTest(entry) ELSE {"failed"} :
        outcome \in validateWorkflowFile(entry)}

\* A verdict is a result and ends the round; a failure of the infrastructure ends the run.
check(r) ==
    /\ At(r, "check")
    /\ \E verdict \in Verdicts(Entry(r)) :
        \/ verdict = "ok" /\ Update(r, [run[r] EXCEPT !.at = "complete", !.round = 1])
        \/ /\ verdict = "failed" /\ run[r].round < MaxRounds
           /\ Update(r, [run[r] EXCEPT !.at = "implement", !.round = @ + 1])
        \/ verdict = "failed" /\ run[r].round = MaxRounds /\ Crashes(r)
        \/ verdict = "infrastructure" /\ Crashes(r)
    /\ UNCHANGED <<packageVars, files, orphaned>>

complete(r) ==
    /\ At(r, "complete")
    /\ Update(r, [run[r] EXCEPT !.status = "completed"])
    /\ UNCHANGED <<packageVars, files, orphaned>>

(***************************************************************************)
(* Around the runs.                                                        *)
(***************************************************************************)
\* A step fails, the process dies or the user cancels, at any point.
Stop(r) ==
    /\ run[r].status = "running"
    /\ Crashes(r)
    /\ IF run[r].at = "package" THEN Abandon(r) /\ Done(r) ELSE UNCHANGED packageVars
    /\ orphaned' = orphaned \cup (IF run[r].at = "reserved" THEN {r} ELSE {})
    /\ IF run[r].at = "implement" THEN Writes(r) ELSE UNCHANGED files

CancelWaiting(r) ==
    /\ run[r].status = "asking"
    /\ Crashes(r)
    /\ UNCHANGED <<packageVars, files, orphaned>>

\* In this process or another one.
Resume(r) ==
    /\ run[r].status \in {"crashed", "refused"}
    /\ run[r].status = "refused" => MayStop
    /\ Update(r, [Restarted(r) EXCEPT !.stops = @ + IF run[r].status = "refused" THEN 1 ELSE 0])
    /\ IF Restart(run[r].at) = "package" THEN Prepare(r) ELSE UNCHANGED prep
    /\ UNCHANGED <<store, files, orphaned>>

\* /workflow run and resume prepare the package before they load a workflow.
Launch(c) ==
    \/ /\ prep[c] = NoPreparation /\ Prepare(c)
       /\ UNCHANGED store
    \/ Preparation(c)
    \/ /\ prep[c].phase \in {"ready", "failed"} /\ Ends(c, "over")
       /\ UNCHANGED store
    \/ /\ prep[c].phase \notin {"idle", "ready", "failed", "over"}
       /\ Abandon(c) /\ Ends(c, "over")

\* The user writes a workflow of that name by hand.
Author ==
    /\ files[1] = NoFile
    /\ files' = [files EXCEPT ![1] = [by |-> "user", plan |-> 0, quality |-> "good"]]
    /\ UNCHANGED <<packageVars, run, orphaned>>

Init ==
    /\ PackageInit
    /\ run = [r \in Creators |-> Fresh]
    /\ files = [n \in Names |-> NoFile]
    /\ orphaned = {}

Next ==
    \/ \E r \in Creators :
        \/ collectGoal(r) \/ design(r) \/ answerDesign(r) \/ resolveTarget(r) \/ approve(r)
        \/ reserve(r) \/ CheckpointReserve(r) \/ preparePackage(r)
        \/ implement(r) \/ check(r) \/ complete(r)
        \/ Stop(r) \/ CancelWaiting(r) \/ Resume(r)
    \/ \E c \in Launchers : Launch(c) /\ UNCHANGED <<run, files, orphaned>>
    \/ Stray /\ UNCHANGED <<run, files, orphaned>>
    \/ Author

Spec == Init /\ [][Next]_vars

(***************************************************************************)
(* Properties.                                                             *)
(***************************************************************************)
Reserved(r) == run[r].at \in {"reserved", "package", "implement", "check", "complete"}

\* From the reservation on, the file a creation was approved for is its own: no other
\* creation and no file of the user is at that path (the wx flag of reserve).
OwnersKeepTheirEntry == \A r \in Creators : Reserved(r) => Entry(r).by = r

\* A creation completes with the file its agent wrote for the plan approved last, loadable
\* under the reviewed name and proven by its test (check, complete and the two loops).
CompletedAsApproved ==
    \A r \in Creators : run[r].status = "completed" =>
        Entry(r) = [by |-> r, plan |-> run[r].plan, quality |-> "good"]

\* Whoever was told that the package is ready works with the toolchain its manifest pins,
\* unless somebody else is just rewriting it (prepareWorkflowPackage, docs/dependencies.md).
\* The code breaks it twice: once the manifest is rewritten, an old lockfile and an old
\* verifier pass for an install that failed or was cut short; and an install that read an
\* older manifest may be the last to end, and succeeds.
PreparedPackageMatches ==
    (\E a \in Actors : prep[a].phase = "ready") /\ (\A a \in Actors : ~Rewriting(a)) => installed = manifest

\* The same unless an install of what the manifest pins was cut short (unfinished), or the
\* manifest was rewritten under an install that had read another (overtaken), and no later
\* install made up for it.
PreparedPackageMatchesOtherwise == unfinished \/ overtaken \/ PreparedPackageMatches

\* A creation is refused its destination because of a file that is not its own, unless it
\* stopped between writing its reservation and the checkpoint of that step (reserve is a
\* function step and is run again).
RefusedByOthersOtherwise ==
    \A r \in Creators : run[r].status = "refused" => Entry(r).by # r \/ r \in orphaned
=============================================================================
