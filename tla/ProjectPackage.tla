---------------------------- MODULE ProjectPackage -----------------------------
(***************************************************************************)
(* The private pnpm package all workflows of a project share, and its      *)
(* preparation (src/host/workflow-package.ts, workflow-package-manager.ts).*)
(* Every /workflow create, run and resume prepares it, each in its own     *)
(* process, without a lock, for the framework version that process runs.   *)
(*                                                                         *)
(* On disk: the manifest, by the framework version it pins, and what the   *)
(* last install left in node_modules.  Writing the manifest truncates it   *)
(* first.  An install reads the manifest when pnpm starts and takes effect *)
(* when pnpm ends, whatever became of the manifest in between; how pnpm    *)
(* writes node_modules is not ours.                                        *)
(***************************************************************************)
EXTENDS Integers

CONSTANTS Actors,    \* whoever prepares the package: creations and launched runs
          Framework, \* the framework versions the processes of each of them may run
          MaxStrays  \* bound: pnpm processes that outlive whoever started them

Versions == UNION {Framework[a] : a \in Actors}

ASSUME VersionsAreNumbers == DOMAIN Framework = Actors /\ Versions \subseteq Nat \ {0}
ASSUME StraysAreBounded == MaxStrays \in Nat

None == 0   \* no manifest; no lockfile or no verifier; not read yet
Torn == -1  \* a manifest that was truncated and not written again: not JSON
Gone == -2  \* no such process

Strays == 1..MaxStrays

VARIABLES manifest,   \* None, Torn or the version it pins
          installed,  \* None or the version lockfile and verifier come from
          prep,       \* the preparation of each actor
          strays,     \* what a pnpm process that outlived who started it has read
          unfinished, \* a manifest was changed and its install never succeeded (history)
          overtaken   \* it was changed under an install that had read another (history)

store == <<manifest, installed, strays, unfinished, overtaken>>
packageVars == <<store, prep>>

\* A preparation that has decided nothing.
Undecided(phase, v) ==
    [phase |-> phase, version |-> v, changes |-> FALSE, installs |-> FALSE, reads |-> None]
NoPreparation == Undecided("idle", None)

PackageInit ==
    /\ manifest \in {None} \cup Versions
    /\ installed = manifest
    /\ prep = [a \in Actors |-> NoPreparation]
    /\ strays = [s \in Strays |-> Gone]
    /\ unfinished = FALSE /\ overtaken = FALSE

\* By whatever process works for the actor now.
Prepare(a) == \E v \in Framework[a] :
    prep' = [prep EXCEPT ![a] = Undecided("inspecting", v)]

To(a, phase) == prep' = [prep EXCEPT ![a].phase = phase]

\* Of a preparation that is over only its end is left.
Ends(a, phase) == prep' = [prep EXCEPT ![a] = Undecided(phase, None)]
Done(a) == Ends(a, "idle")

\* Bug: an install is for what is missing, whatever the manifest now pins.
MissingOnly(changes) == installed = None

\* The manifest differs, or the lockfile or the verifier's executable is not there.
installRequired(changes) == changes \/ installed = None

Inspect(a) ==
    /\ prep[a].phase = "inspecting"
    /\ IF manifest = Torn
       THEN Ends(a, "failed")
       ELSE LET changes == manifest # prep[a].version IN
            prep' = [prep EXCEPT ![a].phase = "resolving", ![a].changes = changes,
                                 ![a].installs = installRequired(changes)]
    /\ UNCHANGED store

AfterManifest(a) == IF prep[a].installs THEN To(a, "installing") ELSE Ends(a, "ready")

\* A pinned pnpm is looked for before anything is touched, each candidate for up to a minute.
ResolveManager(a) ==
    /\ prep[a].phase = "resolving"
    /\ \/ IF prep[a].changes THEN To(a, "writing") ELSE AfterManifest(a)
       \/ Ends(a, "failed")
    /\ UNCHANGED store

TruncateManifest(a) ==
    /\ prep[a].phase = "writing"
    /\ manifest' = Torn /\ To(a, "truncated")
    /\ UNCHANGED <<installed, strays, unfinished, overtaken>>

\* What the installs under way have read.
UnderWay == {v \in Versions :
    \/ \E a \in Actors : prep[a].phase = "installing" /\ prep[a].reads = v
    \/ \E s \in Strays : strays[s] = v}

WriteManifest(a) ==
    /\ prep[a].phase = "truncated"
    /\ manifest' = prep[a].version /\ AfterManifest(a)
    /\ overtaken' = (overtaken \/ ~(UnderWay \subseteq {prep[a].version}))
    /\ UNCHANGED <<installed, strays, unfinished>>

\* pnpm runs on its own from here on, and reads the manifest of that moment.
PnpmReads(a) ==
    /\ prep[a].phase = "installing" /\ prep[a].reads = None /\ manifest # Torn
    /\ prep' = [prep EXCEPT ![a].reads = manifest]
    /\ UNCHANGED store

\* The lockfile and the modules are those of what was read, whatever the manifest is now.
Installs(v) ==
    /\ installed' = v
    /\ unfinished' = (unfinished /\ v # manifest)
    /\ overtaken' = (overtaken /\ (v # manifest \/ ~(UnderWay \subseteq {manifest})))
    /\ UNCHANGED manifest

\* It exits with a code or is terminated: the old modules may be gone.
Breaks == installed' \in {installed, None} /\ unfinished' = TRUE /\ UNCHANGED <<manifest, overtaken>>

InstallSucceeds(a) ==
    /\ prep[a].phase = "installing" /\ prep[a].reads # None
    /\ Installs(prep[a].reads)
    /\ Ends(a, "ready")
    /\ UNCHANGED strays

\* It fails, or is terminated after five minutes.
InstallFails(a) ==
    /\ prep[a].phase = "installing"
    /\ Breaks
    /\ Ends(a, "failed")
    /\ UNCHANGED strays

\* The preparing process dies, or its run is aborted: the pnpm process group is terminated,
\* or outlives a process that was killed.
Abandon(a) ==
    \/ prep[a].phase = "installing" /\ Breaks /\ UNCHANGED strays
    \/ /\ prep[a].phase = "installing"
       /\ \E s \in Strays : strays[s] = Gone /\ strays' = [strays EXCEPT ![s] = prep[a].reads]
       /\ unfinished' = TRUE
       /\ UNCHANGED <<manifest, installed, overtaken>>
    \/ /\ prep[a].phase # "installing"
       /\ unfinished' = (unfinished \/ prep[a].phase = "truncated")
       /\ UNCHANGED <<manifest, installed, strays, overtaken>>

Preparation(a) ==
    \/ Inspect(a) \/ ResolveManager(a) \/ TruncateManifest(a) \/ WriteManifest(a)
    \/ PnpmReads(a) \/ InstallSucceeds(a) \/ InstallFails(a)

\* A pnpm nobody waits for goes on all the same.
StrayReads(s) ==
    /\ strays[s] = None /\ manifest \in Versions
    /\ strays' = [strays EXCEPT ![s] = manifest]
    /\ UNCHANGED <<manifest, installed, prep, unfinished, overtaken>>

StrayEnds(s) ==
    /\ \/ strays[s] \in Versions /\ Installs(strays[s])
       \/ strays[s] # Gone /\ Breaks
    /\ strays' = [strays EXCEPT ![s] = Gone]
    /\ UNCHANGED prep

Stray == \E s \in Strays : StrayReads(s) \/ StrayEnds(s)

Rewriting(a) == prep[a].phase \in {"truncated", "installing"} /\ prep[a].changes
=============================================================================
