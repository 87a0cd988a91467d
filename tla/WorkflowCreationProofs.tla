------------------------ MODULE WorkflowCreationProofs -------------------------
(***************************************************************************)
(* What a creation may rely on, for any number of creations, launched      *)
(* commands, names, rounds and stops: the file it was approved for stays   *)
(* its own, it completes with what its last approved plan became, it is    *)
(* refused by its own file only after a stop before the checkpoint, and    *)
(* the package is what its manifest says.                                  *)
(*                                                                         *)
(* The properties hold of a reservation; the inductive invariant follows a *)
(* file from its reservation through every restart: whose it is (Owns,     *)
(* Reservations), what was last written to it (Written), and where a run   *)
(* may be in each status (Places).  Of the package it says that whatever   *)
(* its manifest is not yet installed for has somebody still at it          *)
(* (PackageSettles): an install under way has read what the manifest says  *)
(* (ReadersCurrent), and a torn manifest is about to be written            *)
(* (TornIsBeingWritten), but for the two exceptions.                       *)
(***************************************************************************)
EXTENDS WorkflowCreation, TLAPS

Positions == {"goal", "design", "resolve", "approve", "reserve", "reserved", "package",
              "implement", "check", "complete"}

Runs == [status : {"asking", "running", "crashed", "refused", "completed"}, at : Positions,
         round : Nat, plan : Nat, target : Names \cup {0}, stops : Nat]

Files == [by : Creators \cup {"user", "nobody"}, plan : Nat,
          quality : Qualities \cup {"reserved", "absent"}]

Preparations ==
    [phase : {"idle", "inspecting", "resolving", "writing", "truncated", "installing",
              "ready", "failed", "over"},
     version : Versions \cup {None}, changes : BOOLEAN, installs : BOOLEAN,
     reads : Versions \cup {None}]

\* The type invariant.
TypeOK ==
    /\ run \in [Creators -> Runs]
    /\ files \in [Names -> Files]
    /\ manifest \in Versions \cup {None, Torn}
    /\ prep \in [Actors -> Preparations]
    /\ strays \in [Strays -> Versions \cup {None, Gone}]

-----------------------------------------------------------------------------
(* The package.                                                             *)

\* What a preparation changes it also installs, only what it changes it writes, and it has
\* read the manifest only while it installs.
Preparing(p) ==
    /\ p.phase \in {"resolving", "writing", "truncated", "installing"} /\ p.changes => p.installs
    /\ p.phase \in {"writing", "truncated"} => p.changes
    /\ p.phase # "installing" => p.reads = None

PackageSettles == unfinished \/ overtaken \/ (\E a \in Actors : Rewriting(a)) \/ installed = manifest

ReadersCurrent == ~overtaken /\ manifest # Torn => UnderWay \subseteq {manifest}

Truncated(a) == prep[a].phase = "truncated"
TornIsBeingWritten == manifest = Torn => unfinished \/ \E a \in Actors : Truncated(a)

PackageInv ==
    /\ manifest \in Versions \cup {None, Torn}
    /\ prep \in [Actors -> Preparations]
    /\ strays \in [Strays -> Versions \cup {None, Gone}]
    /\ \A a \in Actors : Preparing(prep[a])
    /\ PackageSettles /\ ReadersCurrent /\ TornIsBeingWritten

-----------------------------------------------------------------------------
(* The creations.                                                           *)

Places(r) ==
    /\ run[r].status = "asking" => run[r].at \in {"goal", "design", "approve"}
    /\ run[r].status = "completed" => run[r].at = "complete"
    /\ run[r].status = "refused" => run[r].at = "reserve"
    /\ run[r].at = "reserved" => run[r].status = "running" \/ r \in orphaned
    /\ run[r].at \in {"approve", "reserve"} \/ Reserved(r) => run[r].target \in Names
    /\ prep[r].phase # "idle" => At(r, "package")

Owns(r) == Reserved(r) => Entry(r).by = r

\* The check judges what was written for the plan, and completes with it.
Written(r) ==
    /\ run[r].at = "check" => Entry(r).plan = run[r].plan
    /\ run[r].at = "complete" => Entry(r).plan = run[r].plan /\ Entry(r).quality = "good"

Reservations(r) ==
    \A n \in Names : files[n].by = r => (Reserved(r) /\ run[r].target = n) \/ r \in orphaned

CreationInv(r) == Places(r) /\ Owns(r) /\ Written(r) /\ Reservations(r)

IInv ==
    /\ TypeOK
    /\ PackageInv
    /\ \A r \in Creators : CreationInv(r)

-----------------------------------------------------------------------------
(* The package's invariant, one step of a preparation at a time.            *)

LEMMA VersionType ==
    /\ None \notin Versions /\ Torn \notin Versions /\ Gone \notin Versions
    /\ None # Torn /\ None # Gone
    /\ \A a \in Actors : Framework[a] \subseteq Versions
<1>1. Versions \subseteq Nat \ {0}
    BY VersionsAreNumbers
<1>2. None = 0 /\ Torn = -1 /\ Gone = -2
    BY DEF None, Torn, Gone
<1>3. \A a \in Actors : Framework[a] \subseteq Versions
    BY DEF Versions
<1> QED BY <1>1, <1>2, <1>3

LEMMA PackageStays == PackageInv /\ UNCHANGED packageVars => PackageInv'
<1> SUFFICES ASSUME PackageInv, UNCHANGED packageVars PROVE PackageInv'
    OBVIOUS
<1>1. /\ manifest' = manifest /\ installed' = installed /\ strays' = strays
      /\ unfinished' = unfinished /\ overtaken' = overtaken /\ prep' = prep
    BY DEF packageVars, store
<1>2. UnderWay' = UnderWay
    BY <1>1 DEF UnderWay
<1> QED BY <1>1, <1>2 DEF PackageInv, PackageSettles, ReadersCurrent, TornIsBeingWritten,
        Truncated, Rewriting

\* A preparation's own step adds to the installs under way at most what it now reads.
LEMMA ReadsOf ==
    ASSUME NEW a \in Actors, \A b \in Actors \ {a} : prep'[b] = prep[b], strays' = strays,
           NEW read, prep'[a].phase = "installing" => prep'[a].reads \in {None, read}
    PROVE  UnderWay' \subseteq UnderWay \cup {read}
<1> SUFFICES ASSUME NEW v \in UnderWay' PROVE v \in UnderWay \cup {read}
    OBVIOUS
<1>1. v \in Versions /\ v # None
    BY VersionType DEF UnderWay
<1>2. CASE \E s \in Strays : strays'[s] = v
    BY <1>1, <1>2 DEF UnderWay
<1>3. CASE \E b \in Actors : prep'[b].phase = "installing" /\ prep'[b].reads = v
    <2>1. PICK b \in Actors : prep'[b].phase = "installing" /\ prep'[b].reads = v
        BY <1>3
    <2>2. CASE b = a
        BY <1>1, <2>1, <2>2
    <2>3. CASE b # a
        BY <1>1, <2>1, <2>3 DEF UnderWay
    <2> QED BY <2>2, <2>3
<1> QED BY <1>2, <1>3 DEF UnderWay

\* Whoever rewrites goes on, and the manifest and the modules are left alone.
LEMMA StillSettled ==
    ASSUME PackageInv, prep' \in [Actors -> Preparations],
           strays' \in [Strays -> Versions \cup {None, Gone}],
           \A b \in Actors : Preparing(prep'[b]),
           \A b \in Actors : (Rewriting(b) => Rewriting(b)') /\ (Truncated(b) => Truncated(b)'),
           UnderWay' \subseteq UnderWay \cup {manifest},
           UNCHANGED <<manifest, installed, overtaken>>, unfinished => unfinished'
    PROVE  PackageInv'
<1>1. PackageSettles'
    BY DEF PackageInv, PackageSettles
<1>2. ReadersCurrent'
    BY DEF PackageInv, ReadersCurrent
<1>3. TornIsBeingWritten'
    BY DEF PackageInv, TornIsBeingWritten
<1> QED BY <1>1, <1>2, <1>3 DEF PackageInv

\* The same, by a step of one preparation that rewrites nothing.
LEMMA OneGoesOn ==
    ASSUME NEW a \in Actors, PackageInv, prep' \in [Actors -> Preparations],
           \A b \in Actors \ {a} : prep'[b] = prep[b],
           ~Truncated(a), Rewriting(a) => Rewriting(a)',
           Preparing(prep'[a]), prep'[a].phase = "installing" => prep'[a].reads \in {None, manifest},
           UNCHANGED store
    PROVE  PackageInv'
<1>1. UNCHANGED <<manifest, installed, unfinished, overtaken>> /\ strays' = strays
    BY DEF store
<1>2. UnderWay' \subseteq UnderWay \cup {manifest}
    BY <1>1, ReadsOf
<1>3. \A b \in Actors : Preparing(prep'[b])
    BY DEF PackageInv
<1>4. \A b \in Actors : (Rewriting(b) => Rewriting(b)') /\ (Truncated(b) => Truncated(b)')
    BY DEF Rewriting, Truncated
<1>5. strays' \in [Strays -> Versions \cup {None, Gone}]
    BY <1>1 DEF PackageInv
<1> QED BY <1>1, <1>2, <1>3, <1>4, <1>5, StillSettled

\* An install is cut short: that stays on record until one of this manifest succeeds.
LEMMA CutShort ==
    ASSUME PackageInv, prep' \in [Actors -> Preparations],
           strays' \in [Strays -> Versions \cup {None, Gone}],
           \A b \in Actors : Preparing(prep'[b]),
           UnderWay' \subseteq UnderWay, unfinished', UNCHANGED <<manifest, overtaken>>
    PROVE  PackageInv'
<1> QED BY DEF PackageInv, PackageSettles, ReadersCurrent, TornIsBeingWritten

\* An install comes to its end, with what it had read: the manifest's version, or, unless the
\* manifest was rewritten under an install, one that somebody is about to overwrite.
LEMMA InstallEnds ==
    ASSUME PackageInv, prep' \in [Actors -> Preparations],
           strays' \in [Strays -> Versions \cup {None, Gone}],
           \A b \in Actors : Preparing(prep'[b]),
           \A b \in Actors : Truncated(b) => Truncated(b)',
           UnderWay' \subseteq UnderWay, NEW v \in UnderWay, Installs(v)
    PROVE  PackageInv'
<1>1. /\ installed' = v /\ manifest' = manifest /\ v \in Versions /\ v # Torn
      /\ unfinished' = (unfinished /\ v # manifest)
      /\ overtaken' = (overtaken /\ (v # manifest \/ ~(UnderWay \subseteq {manifest})))
    BY VersionType DEF Installs, UnderWay
<1>2. TornIsBeingWritten'
    BY <1>1 DEF PackageInv, TornIsBeingWritten
<1>3. ReadersCurrent'
    BY <1>1 DEF PackageInv, ReadersCurrent
<1>4. PackageSettles'
    <2>1. SUFFICES ASSUME ~unfinished', ~overtaken', v # manifest
                   PROVE  \E b \in Actors : Rewriting(b)'
        BY <1>1 DEF PackageSettles
    <2>2. manifest = Torn
        BY <1>1, <2>1 DEF PackageInv, ReadersCurrent
    <2>3. PICK b \in Actors : Truncated(b)
        BY <1>1, <2>1, <2>2 DEF PackageInv, TornIsBeingWritten
    <2>4. Truncated(b)' /\ prep'[b].changes
        BY <2>3 DEF Truncated, Preparing
    <2> QED BY <2>4 DEF Truncated, Rewriting
<1> QED BY <1>1, <1>2, <1>3, <1>4 DEF PackageInv

\* What is left of a preparation that ends in some phase.
LEMMA EndsFacts ==
    ASSUME NEW a \in Actors, prep \in [Actors -> Preparations],
           NEW phase \in {"idle", "ready", "failed", "over"}, Ends(a, phase)
    PROVE  /\ prep' \in [Actors -> Preparations]
           /\ prep'[a].phase = phase /\ Preparing(prep'[a])
           /\ \A b \in Actors \ {a} : prep'[b] = prep[b]
<1> DEFINE end == Undecided(phase, None)
<1>1. /\ end \in Preparations /\ end.phase = phase /\ Preparing(end)
    BY DEF Undecided, Preparations, Preparing
<1>2. prep' = [prep EXCEPT ![a] = end]
    BY DEF Ends
<1> HIDE DEF end
<1> QED BY <1>1, <1>2

\* A preparation begins when none is under way for its actor.
LEMMA PrepareStep ==
    ASSUME NEW a \in Actors, PackageInv, prep[a].phase = "idle", Prepare(a), UNCHANGED store
    PROVE  PackageInv' /\ \A b \in Actors \ {a} : prep'[b] = prep[b]
<1>1. PICK v \in Versions : prep' = [prep EXCEPT ![a] =
            [phase |-> "inspecting", version |-> v, changes |-> FALSE, installs |-> FALSE,
             reads |-> None]]
    BY VersionType DEF Prepare, Undecided
<1>2. prep' \in [Actors -> Preparations]
    BY <1>1 DEF PackageInv, Preparations
<1>3. /\ prep'[a].phase = "inspecting" /\ prep'[a].reads = None
      /\ \A b \in Actors \ {a} : prep'[b] = prep[b]
    BY <1>1 DEF PackageInv
<1> QED BY <1>2, <1>3, OneGoesOn DEF Rewriting, Truncated, Preparing

\* One that has ended is put away, or its command is over.
LEMMA PutAwayStep ==
    ASSUME NEW a \in Actors, PackageInv, prep[a].phase \in {"ready", "failed"},
           Done(a) \/ Ends(a, "over"), UNCHANGED store
    PROVE  PackageInv' /\ \A b \in Actors \ {a} : prep'[b] = prep[b]
<1>1. /\ prep' \in [Actors -> Preparations] /\ prep'[a].phase \in {"idle", "over"}
      /\ Preparing(prep'[a]) /\ \A b \in Actors \ {a} : prep'[b] = prep[b]
    BY EndsFacts DEF PackageInv, Done
<1> QED BY <1>1, OneGoesOn DEF Rewriting, Truncated

\* What a preparation that ends no longer installs is not under way.
LEMMA ReadsNothing ==
    ASSUME NEW a \in Actors, \A b \in Actors \ {a} : prep'[b] = prep[b],
           prep'[a].phase # "installing",
           \A s \in Strays : strays'[s] = strays[s] \/ strays'[s] = Gone \/
                (prep[a].phase = "installing" /\ strays'[s] = prep[a].reads)
    PROVE  UnderWay' \subseteq UnderWay
<1> SUFFICES ASSUME NEW v \in UnderWay' PROVE v \in UnderWay
    OBVIOUS
<1>1. v \in Versions /\ v # Gone
    BY VersionType DEF UnderWay
<1> QED BY <1>1 DEF UnderWay

LEMMA AbandonStep ==
    ASSUME NEW a \in Actors, PackageInv, Abandon(a), Done(a) \/ Ends(a, "over")
    PROVE  PackageInv' /\ \A b \in Actors \ {a} : prep'[b] = prep[b]
<1>1. /\ prep' \in [Actors -> Preparations] /\ prep'[a].phase \in {"idle", "over"}
      /\ Preparing(prep'[a]) /\ \A b \in Actors \ {a} : prep'[b] = prep[b]
    BY EndsFacts DEF PackageInv, Done
<1>2. \A b \in Actors : Preparing(prep'[b])
    BY <1>1 DEF PackageInv
<1>3. CASE prep[a].phase = "installing" /\ Breaks /\ UNCHANGED strays
    <2>1. UnderWay' \subseteq UnderWay
        BY <1>1, <1>3, ReadsNothing
    <2> QED BY <1>1, <1>2, <1>3, <2>1, CutShort DEF Breaks, PackageInv
<1>4. CASE /\ prep[a].phase = "installing"
           /\ \E s \in Strays : strays[s] = Gone /\ strays' = [strays EXCEPT ![s] = prep[a].reads]
           /\ unfinished' = TRUE
           /\ UNCHANGED <<manifest, installed, overtaken>>
    <2>1. prep[a].reads \in Versions \cup {None}
        BY DEF PackageInv, Preparations
    <2>2. /\ strays' \in [Strays -> Versions \cup {None, Gone}]
          /\ \A s \in Strays : strays'[s] = strays[s] \/ strays'[s] = prep[a].reads
        BY <1>4, <2>1 DEF PackageInv
    <2>3. UnderWay' \subseteq UnderWay
        BY <1>1, <1>4, <2>2, ReadsNothing
    <2> QED BY <1>1, <1>2, <1>4, <2>2, <2>3, CutShort
<1>5. CASE /\ prep[a].phase # "installing"
           /\ unfinished' = (unfinished \/ prep[a].phase = "truncated")
           /\ UNCHANGED <<manifest, installed, strays, overtaken>>
    <2>1. CASE prep[a].phase = "truncated"
        <3>1. UnderWay' \subseteq UnderWay
            BY <1>1, <1>5, ReadsNothing
        <3> QED BY <1>1, <1>2, <1>5, <2>1, <3>1, CutShort DEF PackageInv
    <2>2. CASE prep[a].phase # "truncated"
        <3>1. \A b \in Actors : (Rewriting(b) => Rewriting(b)') /\ (Truncated(b) => Truncated(b)')
            BY <1>1, <1>5, <2>2 DEF Rewriting, Truncated
        <3>2. UnderWay' \subseteq UnderWay
            BY <1>1, <1>5, ReadsNothing
        <3>3. unfinished => unfinished'
            BY <1>5
        <3> QED BY <1>1, <1>2, <1>5, <3>1, <3>2, <3>3, StillSettled DEF PackageInv
    <2> QED BY <2>1, <2>2
<1> QED BY <1>1, <1>3, <1>4, <1>5 DEF Abandon

\* The manifest is rewritten: an install that had read another is on record, and the one of
\* this manifest follows.
LEMMA WriteStep ==
    ASSUME NEW a \in Actors, PackageInv, WriteManifest(a)
    PROVE  PackageInv' /\ \A b \in Actors \ {a} : prep'[b] = prep[b]
<1>1. /\ prep[a].phase = "truncated" /\ prep[a].changes /\ prep[a].installs
      /\ prep[a].reads = None /\ prep[a] \in Preparations
    BY DEF WriteManifest, PackageInv, Preparing
<1>2. /\ prep' = [prep EXCEPT ![a].phase = "installing"]
      /\ manifest' = prep[a].version
      /\ overtaken' = (overtaken \/ ~(UnderWay \subseteq {prep[a].version}))
      /\ strays' = strays
    BY <1>1 DEF WriteManifest, AfterManifest, To
<1>3. /\ prep' \in [Actors -> Preparations] /\ \A b \in Actors \ {a} : prep'[b] = prep[b]
      /\ prep'[a].phase = "installing" /\ prep'[a].reads = None /\ prep'[a].changes
      /\ Preparing(prep'[a])
    BY <1>1, <1>2 DEF PackageInv, Preparations, Preparing
<1>4. UnderWay' \subseteq UnderWay \cup {manifest'} /\ manifest' \in Versions \cup {None}
    BY <1>1, <1>2, <1>3, ReadsOf DEF Preparations
<1>5. ReadersCurrent'
    BY <1>2, <1>4 DEF ReadersCurrent
<1>6. PackageSettles' /\ TornIsBeingWritten'
    BY <1>3, <1>4, VersionType DEF PackageSettles, Rewriting, TornIsBeingWritten
<1> QED BY <1>2, <1>3, <1>4, <1>5, <1>6 DEF PackageInv

LEMMA PreparationStep ==
    ASSUME NEW a \in Actors, PackageInv, Preparation(a)
    PROVE  PackageInv' /\ \A b \in Actors \ {a} : prep'[b] = prep[b]
<1>t. /\ prep \in [Actors -> Preparations] /\ prep[a] \in Preparations /\ Preparing(prep[a])
      /\ strays \in [Strays -> Versions \cup {None, Gone}]
    BY DEF PackageInv
\* What was decided on goes on as a preparation that has read nothing yet.
<1>g. ASSUME NEW q \in Preparations, q.reads = None, Preparing(q), prep' = [prep EXCEPT ![a] = q],
             ~Truncated(a), ~Rewriting(a), UNCHANGED store
      PROVE  PackageInv' /\ \A b \in Actors \ {a} : prep'[b] = prep[b]
    <2>1. prep' \in [Actors -> Preparations] /\ prep'[a] = q /\ \A b \in Actors \ {a} : prep'[b] = prep[b]
        BY <1>t, <1>g
    <2> QED BY <1>g, <2>1, OneGoesOn
<1>e. ASSUME NEW phase \in {"ready", "failed"}, Ends(a, phase), ~Truncated(a), ~Rewriting(a),
             UNCHANGED store
      PROVE  PackageInv' /\ \A b \in Actors \ {a} : prep'[b] = prep[b]
    BY <1>t, <1>e, EndsFacts, OneGoesOn
<1>1. CASE Inspect(a)
    <2>1. ~Truncated(a) /\ ~Rewriting(a) /\ UNCHANGED store /\ prep[a].reads = None
        BY <1>t, <1>1 DEF Inspect, Truncated, Rewriting, Preparing
    <2>2. CASE manifest = Torn
        BY <1>e, <1>1, <2>1, <2>2 DEF Inspect
    <2>3. CASE manifest # Torn
        <3> DEFINE changes == manifest # prep[a].version
                   q == [prep[a] EXCEPT !.phase = "resolving", !.changes = changes,
                                        !.installs = installRequired(changes)]
        <3>1. prep' = [prep EXCEPT ![a] = q]
            BY <1>t, <1>1, <2>3 DEF Inspect
        <3>2. q \in Preparations /\ q.reads = None /\ Preparing(q)
            BY <1>t, <2>1 DEF Preparations, Preparing, installRequired
        <3> HIDE DEF q
        <3> QED BY <1>g, <2>1, <3>1, <3>2
    <2> QED BY <2>2, <2>3
<1>2. CASE ResolveManager(a)
    <2>1. /\ ~Truncated(a) /\ ~Rewriting(a) /\ UNCHANGED store /\ prep[a].reads = None
          /\ prep[a].phase = "resolving"
        BY <1>t, <1>2 DEF ResolveManager, Truncated, Rewriting, Preparing
    <2>2. ASSUME NEW phase \in {"writing", "installing"}, To(a, phase),
                 phase = "writing" => prep[a].changes
          PROVE  PackageInv' /\ \A b \in Actors \ {a} : prep'[b] = prep[b]
        <3> DEFINE q == [prep[a] EXCEPT !.phase = phase]
        <3>1. prep' = [prep EXCEPT ![a] = q]
            BY <1>t, <2>2 DEF To
        <3>2. q \in Preparations /\ q.reads = None /\ Preparing(q)
            BY <1>t, <2>1, <2>2 DEF Preparations, Preparing
        <3> HIDE DEF q
        <3> QED BY <1>g, <2>1, <3>1, <3>2
    <2>3. \/ To(a, "writing") /\ prep[a].changes
          \/ To(a, "installing")
          \/ Ends(a, "ready") \/ Ends(a, "failed")
        BY <1>2 DEF ResolveManager, AfterManifest
    <2> QED BY <1>e, <2>1, <2>2, <2>3
<1>3. CASE TruncateManifest(a)
    <2>1. /\ prep' = [prep EXCEPT ![a].phase = "truncated"] /\ strays' = strays
          /\ prep[a].phase = "writing" /\ manifest' = Torn
        BY <1>3 DEF TruncateManifest, To
    <2>2. /\ prep' \in [Actors -> Preparations] /\ Rewriting(a)' /\ Truncated(a)'
          /\ Preparing(prep'[a]) /\ \A b \in Actors \ {a} : prep'[b] = prep[b]
        BY <1>t, <2>1 DEF Preparations, Preparing, Rewriting, Truncated
    <2> QED BY <1>t, <2>1, <2>2 DEF PackageInv, PackageSettles, ReadersCurrent, TornIsBeingWritten
<1>4. CASE WriteManifest(a)
    BY <1>4, WriteStep
<1>5. CASE PnpmReads(a)
    <2>1. /\ prep' = [prep EXCEPT ![a].reads = manifest] /\ UNCHANGED store
          /\ prep[a].phase = "installing" /\ manifest # Torn
        BY <1>5 DEF PnpmReads
    <2>2. /\ prep' \in [Actors -> Preparations] /\ Preparing(prep'[a])
          /\ prep'[a].phase = "installing" /\ prep'[a].reads = manifest
          /\ prep'[a].changes = prep[a].changes
          /\ \A b \in Actors \ {a} : prep'[b] = prep[b]
        BY <1>t, <2>1 DEF PackageInv, Preparations, Preparing
    <2> QED BY <2>1, <2>2, OneGoesOn DEF Rewriting, Truncated
<1>6. CASE InstallSucceeds(a)
    <2>1. /\ prep[a].phase = "installing" /\ prep[a].reads # None /\ Installs(prep[a].reads)
          /\ Ends(a, "ready") /\ strays' = strays
        BY <1>6 DEF InstallSucceeds
    <2>2. /\ prep' \in [Actors -> Preparations] /\ prep'[a].phase = "ready" /\ Preparing(prep'[a])
          /\ \A b \in Actors \ {a} : prep'[b] = prep[b]
        BY <1>t, <2>1, EndsFacts
    <2>3. UnderWay' \subseteq UnderWay
        BY <2>1, <2>2, ReadsNothing
    <2>4. prep[a].reads \in UnderWay
        BY <1>t, <2>1 DEF Preparations, UnderWay
    <2>5. \A b \in Actors : Preparing(prep'[b]) /\ (Truncated(b) => Truncated(b)')
        BY <2>1, <2>2 DEF PackageInv, Truncated
    <2> QED BY <1>t, <2>1, <2>2, <2>3, <2>4, <2>5, InstallEnds
<1>7. CASE InstallFails(a)
    <2>1. prep[a].phase = "installing" /\ Breaks /\ Ends(a, "failed") /\ strays' = strays
        BY <1>7 DEF InstallFails
    <2>2. /\ prep' \in [Actors -> Preparations] /\ prep'[a].phase = "failed" /\ Preparing(prep'[a])
          /\ \A b \in Actors \ {a} : prep'[b] = prep[b]
        BY <1>t, <2>1, EndsFacts
    <2>3. UnderWay' \subseteq UnderWay
        BY <2>1, <2>2, ReadsNothing
    <2>4. \A b \in Actors : Preparing(prep'[b])
        BY <2>2 DEF PackageInv
    <2> QED BY <1>t, <2>1, <2>2, <2>3, <2>4, CutShort DEF Breaks
<1> QED BY <1>1, <1>2, <1>3, <1>4, <1>5, <1>6, <1>7 DEF Preparation

\* A pnpm nobody waits for reads the manifest, ends with what it read, or breaks off.
LEMMA StrayStep == PackageInv /\ Stray => PackageInv' /\ prep' = prep
<1> SUFFICES ASSUME PackageInv, NEW s \in Strays, StrayReads(s) \/ StrayEnds(s)
             PROVE  PackageInv' /\ prep' = prep
    BY DEF Stray
<1>t. /\ prep' = prep /\ prep \in [Actors -> Preparations]
      /\ strays \in [Strays -> Versions \cup {None, Gone}]
      /\ \A b \in Actors : Preparing(prep'[b])
      /\ \A b \in Actors : (Rewriting(b) => Rewriting(b)') /\ (Truncated(b) => Truncated(b)')
    BY DEF StrayReads, StrayEnds, PackageInv, Rewriting, Truncated
<1>1. CASE StrayReads(s)
    <2>1. /\ strays' = [strays EXCEPT ![s] = manifest] /\ manifest \in Versions
          /\ UNCHANGED <<manifest, installed, unfinished, overtaken>>
        BY <1>1 DEF StrayReads
    <2>2. /\ strays' \in [Strays -> Versions \cup {None, Gone}]
          /\ \A i \in Strays : strays'[i] = strays[i] \/ strays'[i] = manifest
        BY <1>t, <2>1
    <2>3. UnderWay' \subseteq UnderWay \cup {manifest}
        BY <1>t, <2>2 DEF UnderWay
    <2> QED BY <1>t, <2>1, <2>2, <2>3, StillSettled
<1>2. CASE StrayEnds(s)
    <2>1. /\ strays' = [strays EXCEPT ![s] = Gone]
          /\ \/ strays[s] \in Versions /\ Installs(strays[s])
             \/ Breaks
        BY <1>2 DEF StrayEnds
    <2>2. /\ strays' \in [Strays -> Versions \cup {None, Gone}]
          /\ \A i \in Strays : strays'[i] = strays[i] \/ strays'[i] = Gone
        BY <1>t, <2>1
    <2>3. UnderWay' \subseteq UnderWay
        BY <1>t, <2>2, VersionType DEF UnderWay
    <2>4. CASE strays[s] \in Versions /\ Installs(strays[s])
        <3>1. strays[s] \in UnderWay
            BY <2>4 DEF UnderWay
        <3> QED BY <1>t, <2>2, <2>3, <2>4, <3>1, InstallEnds
    <2>5. CASE Breaks
        BY <1>t, <2>2, <2>3, <2>5, CutShort DEF Breaks
    <2> QED BY <2>1, <2>4, <2>5
<1> QED BY <1>1, <1>2

-----------------------------------------------------------------------------
(* The creations' invariant.                                                *)

\* What another creation, a command or the user does leaves a creation's files alone.
LEMMA OthersKeep ==
    ASSUME NEW r \in Creators, TypeOK, CreationInv(r),
           run'[r] = run[r], prep'[r] = prep[r], orphaned \subseteq orphaned',
           \A n \in Names : files'[n] = files[n] \/ (files[n].by # r /\ files'[n].by # r)
    PROVE  CreationInv(r)'
<1>1. Places(r)'
    BY DEF CreationInv, Places, Reserved, At
<1>2. Reserved(r)' => Reserved(r) /\ run[r].target \in Names /\ Entry(r)' = Entry(r)
    BY DEF CreationInv, Places, Owns, Reserved, Entry
<1>3. Owns(r)' /\ Written(r)'
    BY <1>2 DEF CreationInv, Owns, Written, Reserved
<1>4. Reservations(r)'
    BY DEF CreationInv, Reservations, Reserved
<1> QED BY <1>1, <1>3, <1>4 DEF CreationInv

\* A step of one creation, with whatever it does to files no other creation wrote.
LEMMA CreationCloses ==
    ASSUME NEW r \in Creators, IInv, TypeOK', PackageInv', CreationInv(r)',
           \A q \in Creators \ {r} : run'[q] = run[q] /\ prep'[q] = prep[q],
           orphaned \subseteq orphaned',
           \A q \in Creators \ {r}, n \in Names :
               files'[n] = files[n] \/ (files[n].by # q /\ files'[n].by # q)
    PROVE  IInv'
<1>1. ASSUME NEW q \in Creators PROVE CreationInv(q)'
    BY <1>1, OthersKeep DEF IInv
<1> QED BY <1>1 DEF IInv

\* The positions from the reservation on.
Owned == {"reserved", "package", "implement", "check", "complete"}

\* A creation moves and leaves the files alone: it reaches no reserved position but from a
\* reserved one, with its target and plan, and leaves them only where it is orphaned.
LEMMA CreationMoves ==
    ASSUME NEW r \in Creators, IInv, NEW new \in Runs, Update(r, new),
           PackageInv', \A q \in Creators \ {r} : prep'[q] = prep[q],
           prep'[r].phase # "idle" => new.status = "running" /\ new.at = "package",
           UNCHANGED files, orphaned \subseteq orphaned',
           new.status = "asking" => new.at \in {"goal", "design", "approve"},
           new.status = "completed" => new.at = "complete",
           new.status = "refused" => new.at = "reserve",
           new.at = "reserved" => new.status = "running" \/ r \in orphaned',
           new.at \in {"approve", "reserve"} => new.target \in Names,
           new.at \in Owned => /\ run[r].at \in Owned
                               /\ new.target = run[r].target /\ new.plan = run[r].plan,
           run[r].at \in Owned => new.at \in Owned \/ r \in orphaned,
           new.at = "check" => run[r].at = "check",
           new.at = "complete" => run[r].at = "complete"
                                    \/ (run[r].at = "check" /\ Entry(r).quality = "good")
    PROVE  IInv'
<1>1. /\ run' \in [Creators -> Runs] /\ run'[r] = new
      /\ \A q \in Creators \ {r} : run'[q] = run[q]
    BY DEF IInv, TypeOK, Update
<1>2. TypeOK'
    BY <1>1 DEF IInv, TypeOK, PackageInv
<1>3. /\ Reserved(r) <=> run[r].at \in Owned
      /\ Reserved(r)' <=> new.at \in Owned
    BY <1>1 DEF Reserved, Owned
<1>4. Reserved(r)' => Reserved(r) /\ Entry(r)' = Entry(r) /\ run'[r].target \in Names
    BY <1>1, <1>3 DEF IInv, CreationInv, Places, Entry
<1>5. Places(r)'
    BY <1>1, <1>4 DEF Places, At
<1>6. Owns(r)'
    BY <1>4 DEF IInv, CreationInv, Owns
<1>7. Written(r)'
    BY <1>1, <1>3, <1>4 DEF IInv, CreationInv, Written, Owned
<1>8. Reservations(r)'
    BY <1>1, <1>3 DEF IInv, CreationInv, Reservations
<1> QED BY <1>1, <1>2, <1>5, <1>6, <1>7, <1>8, CreationCloses DEF CreationInv

\* The same when nothing of the package changes.
LEMMA CreationWalks ==
    ASSUME NEW r \in Creators, IInv, NEW new \in Runs, Update(r, new), run[r].at # "package",
           UNCHANGED <<packageVars, files, orphaned>>,
           new.status = "asking" => new.at \in {"goal", "design", "approve"},
           new.status = "completed" => new.at = "complete",
           new.status = "refused" => new.at = "reserve",
           new.at = "reserved" => new.status = "running" \/ r \in orphaned',
           new.at \in {"approve", "reserve"} => new.target \in Names,
           new.at \in Owned => /\ run[r].at \in Owned
                               /\ new.target = run[r].target /\ new.plan = run[r].plan,
           run[r].at \in Owned => new.at \in Owned \/ r \in orphaned,
           new.at = "check" => run[r].at = "check",
           new.at = "complete" => run[r].at = "complete"
                                    \/ (run[r].at = "check" /\ Entry(r).quality = "good")
    PROVE  IInv'
<1>1. prep[r].phase = "idle"
    BY DEF IInv, CreationInv, Places, At
<1>2. PackageInv' /\ prep' = prep
    BY PackageStays DEF IInv, packageVars
<1>3. UNCHANGED files /\ orphaned \subseteq orphaned'
    OBVIOUS
<1> QED BY <1>1, <1>2, <1>3, CreationMoves

\* A creation stops where it is.
LEMMA CreationCrashes ==
    ASSUME NEW r \in Creators, IInv, Crashes(r), run[r].at \notin {"reserved", "package"},
           UNCHANGED <<packageVars, files, orphaned>>
    PROVE  IInv'
<1> DEFINE new == [run[r] EXCEPT !.status = "crashed", !.stops = @ + 1]
<1>t. run[r] \in Runs /\ run[r].stops + 1 \in Nat
    BY DEF IInv, TypeOK, Runs
<1>1. /\ new \in Runs /\ new.status = "crashed" /\ new.at = run[r].at
      /\ new.target = run[r].target /\ new.plan = run[r].plan
    BY <1>t DEF Runs
<1>2. Update(r, new)
    BY DEF Crashes
<1>3. new.at \in {"approve", "reserve"} => new.target \in Names
    BY <1>1 DEF IInv, CreationInv, Places
<1> HIDE DEF new
<1> QED BY <1>1, <1>2, <1>3, CreationWalks DEF Owned

\* The agent writes the creation's own file, for the plan it was given.
LEMMA WritesOwn ==
    ASSUME NEW r \in Creators, IInv, Reserved(r), Writes(r)
    PROVE  /\ files' \in [Names -> Files]
           /\ run[r].target \in Names /\ files[run[r].target].by = r
           /\ \A n \in Names \ {run[r].target} : files'[n] = files[n]
           /\ files'[run[r].target].by = r /\ files'[run[r].target].plan = run[r].plan
<1>1. run[r].target \in Names /\ files[run[r].target].by = r /\ run[r].plan \in Nat
    BY DEF IInv, TypeOK, Runs, CreationInv, Places, Owns, Entry
<1>2. PICK q \in Qualities :
        files' = [files EXCEPT ![run[r].target] = [by |-> r, plan |-> run[r].plan, quality |-> q]]
    BY DEF Writes
<1>3. [by |-> r, plan |-> run[r].plan, quality |-> q] \in Files
    BY <1>1 DEF Files
<1> QED BY <1>1, <1>2, <1>3 DEF IInv, TypeOK

\* Whether the step goes on to the check or stops the run.
LEMMA WritingStep ==
    ASSUME NEW r \in Creators, IInv, run[r].at = "implement", Writes(r),
           NEW new \in Runs, Update(r, new), new.at \in {"implement", "check"},
           new.status \in {"running", "crashed"},
           new.target = run[r].target, new.plan = run[r].plan,
           UNCHANGED <<packageVars, orphaned>>
    PROVE  IInv'
<1>1. /\ run' \in [Creators -> Runs] /\ run'[r] = new
      /\ \A q \in Creators \ {r} : run'[q] = run[q]
    BY DEF IInv, TypeOK, Update
<1>2. Reserved(r) /\ Reserved(r)'
    BY <1>1 DEF Reserved
<1>3. /\ files' \in [Names -> Files]
      /\ run[r].target \in Names /\ files[run[r].target].by = r
      /\ \A n \in Names \ {run[r].target} : files'[n] = files[n]
      /\ files'[run[r].target].by = r /\ files'[run[r].target].plan = run[r].plan
    BY <1>2, WritesOwn
<1>4. PackageInv' /\ prep' = prep
    BY PackageStays DEF IInv, packageVars
<1>5. TypeOK'
    BY <1>1, <1>3, <1>4 DEF TypeOK, PackageInv
<1>6. prep[r].phase = "idle"
    BY DEF IInv, CreationInv, Places, At
<1>7. Places(r)'
    BY <1>1, <1>3, <1>4, <1>6 DEF Places
<1>8. Owns(r)' /\ Written(r)'
    BY <1>1, <1>3 DEF Owns, Written, Entry
<1>9. Reservations(r)'
    BY <1>1, <1>2, <1>3 DEF IInv, CreationInv, Reservations
<1>10. \A q \in Creators \ {r}, n \in Names :
        files'[n] = files[n] \/ (files[n].by # q /\ files'[n].by # q)
    BY <1>3
<1> QED BY <1>1, <1>4, <1>5, <1>7, <1>8, <1>9, <1>10, CreationCloses DEF CreationInv

\* The reservation finds nobody's file, and makes it the creation's.
LEMMA ReserveStep ==
    ASSUME NEW r \in Creators, IInv, reserve(r)
    PROVE  IInv'
<1> DEFINE t == run[r].target
<1>1. /\ run[r].at = "reserve" /\ run[r].status = "running" /\ t \in Names
      /\ run[r] \in Runs /\ ~Reserved(r) /\ prep[r].phase = "idle"
    BY DEF reserve, At, IInv, TypeOK, CreationInv, Places, Reserved
<1>2. CASE files[t] = NoFile
    <2> DEFINE new == [run[r] EXCEPT !.at = "reserved"]
               mine == [by |-> r, plan |-> 0, quality |-> "reserved"]
    <2>1. /\ new \in Runs /\ new.at = "reserved" /\ new.status = "running" /\ new.target = t
          /\ mine \in Files /\ mine.by = r
        BY <1>1 DEF Runs, Positions, Files
    <2>2. /\ Update(r, new) /\ files' = [files EXCEPT ![t] = mine]
          /\ UNCHANGED <<packageVars, orphaned>>
        BY <1>2 DEF reserve, Reservable, Goes
    <2> HIDE DEF new, mine
    <2>3. /\ run' \in [Creators -> Runs] /\ run'[r] = new
          /\ \A q \in Creators \ {r} : run'[q] = run[q]
        BY <2>1, <2>2 DEF IInv, TypeOK, Update
    <2>4. /\ files' \in [Names -> Files] /\ files'[t] = mine
          /\ \A n \in Names \ {t} : files'[n] = files[n]
        BY <1>1, <2>1, <2>2 DEF IInv, TypeOK
    <2>5. PackageInv' /\ prep' = prep
        BY PackageStays, <2>2 DEF IInv, packageVars
    <2>6. TypeOK'
        BY <2>3, <2>4, <2>5 DEF TypeOK, PackageInv
    <2>7. Places(r)'
        BY <1>1, <2>1, <2>3, <2>5 DEF Places
    <2>8. Owns(r)' /\ Written(r)'
        BY <2>1, <2>3, <2>4 DEF Owns, Written, Entry
    <2>9. Reservations(r)'
        BY <1>1, <2>1, <2>2, <2>3, <2>4 DEF IInv, CreationInv, Reservations, Reserved
    <2>10. \A q \in Creators \ {r}, n \in Names :
            files'[n] = files[n] \/ (files[n].by # q /\ files'[n].by # q)
        BY <1>2, <2>1, <2>4, AuthorsDiffer DEF NoFile
    <2> QED BY <2>2, <2>3, <2>5, <2>6, <2>7, <2>8, <2>9, <2>10, CreationCloses DEF CreationInv
<1>3. CASE files[t] # NoFile
    <2> DEFINE new == [run[r] EXCEPT !.status = "refused"]
    <2>1. new \in Runs /\ new.at = "reserve" /\ new.status = "refused" /\ new.target = t
        BY <1>1 DEF Runs
    <2>2. Update(r, new) /\ UNCHANGED <<packageVars, files, orphaned>>
        BY <1>3 DEF reserve, Reservable
    <2> HIDE DEF new
    <2> QED BY <1>1, <2>1, <2>2, CreationWalks DEF Owned
<1> QED BY <1>2, <1>3

\* Only an entry that is good passes every stage.
LEMMA OnlyGoodPasses ==
    ASSUME NEW entry, "ok" \in Verdicts(entry)
    PROVE  entry.quality = "good"
<1> QED BY DEF Verdicts, verifyWorkflowTest, verifyWorkflowPackage, parseVitestResult, Command

LEMMA CheckStep ==
    ASSUME NEW r \in Creators, IInv, check(r)
    PROVE  IInv'
<1>1. /\ run[r].at = "check" /\ run[r].status = "running" /\ run[r] \in Runs
      /\ run[r].round + 1 \in Nat /\ UNCHANGED <<packageVars, files, orphaned>>
    BY DEF check, At, IInv, TypeOK, Runs
<1>2. PICK verdict \in Verdicts(Entry(r)) :
        \/ verdict = "ok" /\ Update(r, [run[r] EXCEPT !.at = "complete", !.round = 1])
        \/ /\ verdict = "failed" /\ run[r].round < MaxRounds
           /\ Update(r, [run[r] EXCEPT !.at = "implement", !.round = @ + 1])
        \/ verdict = "failed" /\ run[r].round = MaxRounds /\ Crashes(r)
        \/ verdict = "infrastructure" /\ Crashes(r)
    BY DEF check
<1>3. CASE verdict = "ok" /\ Update(r, [run[r] EXCEPT !.at = "complete", !.round = 1])
    <2> DEFINE new == [run[r] EXCEPT !.at = "complete", !.round = 1]
    <2>1. /\ new \in Runs /\ new.at = "complete" /\ new.status = "running"
          /\ new.target = run[r].target /\ new.plan = run[r].plan
        BY <1>1 DEF Runs, Positions
    <2>2. Entry(r).quality = "good"
        BY <1>2, <1>3, OnlyGoodPasses
    <2>3. Update(r, new)
        BY <1>3
    <2> HIDE DEF new
    <2> QED BY <1>1, <2>1, <2>2, <2>3, CreationWalks DEF Owned
<1>4. CASE Update(r, [run[r] EXCEPT !.at = "implement", !.round = @ + 1])
    <2> DEFINE new == [run[r] EXCEPT !.at = "implement", !.round = @ + 1]
    <2>1. /\ new \in Runs /\ new.at = "implement" /\ new.status = "running"
          /\ new.target = run[r].target /\ new.plan = run[r].plan
        BY <1>1 DEF Runs, Positions
    <2>2. Update(r, new)
        BY <1>4
    <2> HIDE DEF new
    <2> QED BY <1>1, <2>1, <2>2, CreationWalks DEF Owned
<1>5. CASE Crashes(r)
    BY <1>1, <1>5, CreationCrashes
<1> QED BY <1>2, <1>3, <1>4, <1>5

\* A preparation that is over lets the creation go on, or stops it.
LEMMA PackageStep ==
    ASSUME NEW r \in Creators, IInv, preparePackage(r)
    PROVE  IInv'
<1>1. /\ run[r].at = "package" /\ run[r].status = "running" /\ run[r] \in Runs
      /\ run[r].stops + 1 \in Nat /\ r \in Actors
      /\ UNCHANGED <<files, orphaned>>
    BY ActorsPrepare DEF preparePackage, At, IInv, TypeOK, Runs
<1>2. CASE Preparation(r) /\ UNCHANGED run
    <2>1. PackageInv' /\ \A q \in Actors \ {r} : prep'[q] = prep[q]
        BY <1>1, <1>2, PreparationStep DEF IInv
    <2>2. \A q \in Creators \ {r} : prep'[q] = prep[q]
        BY <2>1, ActorsPrepare
    <2>3. Update(r, run[r])
        BY <1>2 DEF IInv, TypeOK, Update
    <2>4. run[r].at \notin {"approve", "reserve"}
        BY <1>1
    <2> QED BY <1>1, <2>1, <2>2, <2>3, <2>4, CreationMoves DEF Owned
<1>3. ASSUME prep[r].phase \in {"ready", "failed"}, Done(r), NEW new \in Runs, Update(r, new),
             new.at \in {"package", "implement"}, new.status \in {"running", "crashed"},
             new.target = run[r].target, new.plan = run[r].plan,
             UNCHANGED store
      PROVE  IInv'
    <2>1. PackageInv'
        BY <1>1, <1>3, PutAwayStep DEF IInv
    <2>2. prep'[r].phase = "idle" /\ \A q \in Creators \ {r} : prep'[q] = prep[q]
        BY <1>1, <1>3, EndsFacts, ActorsPrepare DEF IInv, TypeOK, Done
    <2> QED BY <1>1, <1>3, <2>1, <2>2, CreationMoves DEF Owned
<1>4. CASE /\ prep[r].phase = "ready" /\ Done(r) /\ Update(r, [run[r] EXCEPT !.at = "implement"])
           /\ UNCHANGED store
    <2> DEFINE new == [run[r] EXCEPT !.at = "implement"]
    <2>1. /\ new \in Runs /\ new.at = "implement" /\ new.status = "running"
          /\ new.target = run[r].target /\ new.plan = run[r].plan
        BY <1>1 DEF Runs, Positions
    <2>2. Update(r, new)
        BY <1>4
    <2> HIDE DEF new
    <2> QED BY <1>3, <1>4, <2>1, <2>2
<1>5. CASE /\ prep[r].phase = "failed" /\ Done(r) /\ Crashes(r)
           /\ UNCHANGED store
    <2> DEFINE new == [run[r] EXCEPT !.status = "crashed", !.stops = @ + 1]
    <2>1. /\ new \in Runs /\ new.at = "package" /\ new.status = "crashed"
          /\ new.target = run[r].target /\ new.plan = run[r].plan
        BY <1>1 DEF Runs, Positions
    <2>2. Update(r, new)
        BY <1>5 DEF Crashes
    <2> HIDE DEF new
    <2> QED BY <1>3, <1>5, <2>1, <2>2
<1> QED BY <1>2, <1>4, <1>5 DEF preparePackage

\* A stop abandons the preparation, orphans a reservation, or leaves a half-written entry.
LEMMA StopStep ==
    ASSUME NEW r \in Creators, IInv, Stop(r)
    PROVE  IInv'
<1> DEFINE new == [run[r] EXCEPT !.status = "crashed", !.stops = @ + 1]
<1>1. run[r].status = "running" /\ run[r] \in Runs /\ run[r].stops + 1 \in Nat /\ r \in Actors
    BY ActorsPrepare DEF Stop, IInv, TypeOK, Runs
<1>2. /\ new \in Runs /\ new.at = run[r].at /\ new.status = "crashed"
      /\ new.target = run[r].target /\ new.plan = run[r].plan
    BY <1>1 DEF Runs
<1>3. Update(r, new)
    BY DEF Stop, Crashes
<1>4. /\ new.at \in {"approve", "reserve"} => new.target \in Names
      /\ orphaned \subseteq orphaned' /\ (run[r].at # "reserved" => orphaned' = orphaned)
      /\ run[r].at = "reserved" => r \in orphaned'
      /\ run[r].at # "implement" => UNCHANGED files
      /\ run[r].at # "package" => UNCHANGED packageVars
    BY <1>2 DEF Stop, IInv, CreationInv, Places
<1> HIDE DEF new
<1>5. CASE run[r].at = "implement"
    <2>1. Writes(r)
        BY <1>5 DEF Stop
    <2> QED BY <1>2, <1>3, <1>4, <1>5, <2>1, WritingStep
<1>6. CASE run[r].at = "package"
    <2>1. PackageInv' /\ \A q \in Actors \ {r} : prep'[q] = prep[q]
        BY <1>1, <1>6, AbandonStep DEF Stop, IInv
    <2>2. prep'[r].phase = "idle" /\ \A q \in Creators \ {r} : prep'[q] = prep[q]
        BY <1>1, <1>6, <2>1, EndsFacts, ActorsPrepare DEF Stop, Done, IInv, TypeOK
    <2> QED BY <1>2, <1>3, <1>4, <1>6, <2>1, <2>2, CreationMoves DEF Owned
<1>7. CASE run[r].at \notin {"implement", "package"}
    <2>1. prep' = prep /\ prep[r].phase = "idle"
        BY <1>4, <1>7 DEF IInv, CreationInv, Places, At, packageVars
    <2>2. PackageInv'
        BY PackageStays, <1>4, <1>7 DEF IInv, packageVars
    <2> QED BY <1>2, <1>3, <1>4, <1>7, <2>1, <2>2, CreationMoves DEF Owned
<1> QED BY <1>5, <1>6, <1>7

\* A restart goes on at the first node without a checkpoint: with the creation's own file,
\* or before the reservation.
LEMMA ResumeStep ==
    ASSUME NEW r \in Creators, IInv, Resume(r)
    PROVE  IInv'
<1> DEFINE at == Restart(run[r].at)
           mid == [run[r] EXCEPT !.status = IF at = "goal" THEN "asking" ELSE "running",
                                 !.at = at, !.round = 1,
                                 !.target = IF at \in {"goal", "design"} THEN 0 ELSE @]
           new == [mid EXCEPT !.stops = @ + IF run[r].status = "refused" THEN 1 ELSE 0]
<1>1. run[r].status \in {"crashed", "refused"} /\ run[r] \in Runs /\ r \in Actors
    BY ActorsPrepare DEF Resume, IInv, TypeOK
<1>2. /\ at \in Positions /\ at \notin {"check", "approve", "resolve", "reserved"}
      /\ at = "reserve" => run[r].at \in {"reserve", "reserved"}
      /\ at \in Owned => run[r].at \in Owned
      /\ run[r].at \in Owned => at \in Owned \/ run[r].at = "reserved"
      /\ at = "package" => run[r].at = "package"
      /\ at = "complete" => run[r].at = "complete"
    BY <1>1 DEF Restart, Positions, Owned, Runs
<1>3. /\ mid \in Runs /\ mid.at = at /\ mid.status \in {"asking", "running"}
      /\ mid.status = "asking" => at = "goal"
      /\ at \notin {"goal", "design"} => mid.target = run[r].target /\ mid.status = "running"
      /\ mid.plan = run[r].plan
    <2> HIDE DEF at
    <2> QED BY <1>1, <1>2 DEF Runs
<1>4. /\ new \in Runs /\ new.at = at /\ new.status = mid.status
      /\ new.target = mid.target /\ new.plan = run[r].plan
    <2>1. mid.stops + (IF run[r].status = "refused" THEN 1 ELSE 0) \in Nat
        <3> HIDE DEF mid
        <3> QED BY <1>3 DEF Runs
    <2> HIDE DEF mid
    <2> QED BY <1>3, <2>1 DEF Runs
<1>5. Update(r, new)
    BY DEF Resume, Restarted
<1>6. UNCHANGED <<store, files, orphaned>> /\ prep[r].phase = "idle"
    BY <1>1 DEF Resume, IInv, CreationInv, Places, At
<1>7. PackageInv' /\ \A q \in Actors \ {r} : prep'[q] = prep[q]
    <2>1. CASE at = "package"
        BY <1>1, <1>6, <2>1, PrepareStep DEF Resume, IInv
    <2>2. CASE at # "package"
        BY <1>6, <2>2, PackageStays DEF Resume, IInv, packageVars
    <2> QED BY <2>1, <2>2
<1>8. prep'[r].phase # "idle" => at = "package"
    BY <1>6 DEF Resume
<1>9. /\ run[r].at \in {"approve", "reserve"} \cup Owned => run[r].target \in Names
      /\ run[r].at = "reserved" => r \in orphaned
    BY <1>1, <1>6 DEF IInv, CreationInv, Places, Reserved, Owned
<1> HIDE DEF at, mid, new
<1> QED BY <1>2, <1>3, <1>4, <1>5, <1>6, <1>7, <1>8, <1>9, ActorsPrepare, CreationMoves DEF Owned

\* Commands and the user are nobody's creation.
LEMMA AroundStep ==
    ASSUME IInv, UNCHANGED <<run, orphaned>>, PackageInv', \A r \in Creators : prep'[r] = prep[r],
           files' \in [Names -> Files],
           \A n \in Names, r \in Creators :
               files'[n] = files[n] \/ (files[n].by # r /\ files'[n].by # r)
    PROVE  IInv'
<1>1. \A r \in Creators : CreationInv(r)'
    BY OthersKeep DEF IInv
<1> QED BY <1>1 DEF IInv, TypeOK, PackageInv

LEMMA LaunchStep ==
    ASSUME NEW c \in Launchers, IInv, Launch(c), UNCHANGED <<run, files, orphaned>>
    PROVE  IInv'
<1>1. c \in Actors
    BY ActorsPrepare
<1>2. PackageInv' /\ \A a \in Actors \ {c} : prep'[a] = prep[a]
    <2>1. CASE prep[c] = NoPreparation /\ Prepare(c) /\ UNCHANGED store
        BY <1>1, <2>1, PrepareStep DEF IInv, NoPreparation, Undecided
    <2>2. CASE Preparation(c)
        BY <1>1, <2>2, PreparationStep DEF IInv
    <2>3. CASE /\ prep[c].phase \in {"ready", "failed"} /\ Ends(c, "over")
               /\ UNCHANGED store
        BY <1>1, <2>3, PutAwayStep DEF IInv
    <2>4. CASE Abandon(c) /\ Ends(c, "over")
        BY <1>1, <2>4, AbandonStep DEF IInv
    <2> QED BY <2>1, <2>2, <2>3, <2>4 DEF Launch
<1>3. \A r \in Creators : prep'[r] = prep[r]
    BY <1>2, ActorsPrepare
<1> QED BY <1>2, <1>3, AroundStep DEF IInv, TypeOK

LEMMA AuthorStep ==
    ASSUME IInv, Author
    PROVE  IInv'
<1> DEFINE text == [by |-> "user", plan |-> 0, quality |-> "good"]
<1>1. text \in Files /\ text.by = "user"
    BY DEF Files, Qualities
<1>2. files[1] = NoFile /\ files' = [files EXCEPT ![1] = text]
      /\ UNCHANGED <<packageVars, run, orphaned>>
    BY DEF Author
<1> HIDE DEF text
<1>3. files' \in [Names -> Files]
    BY <1>1, <1>2 DEF IInv, TypeOK
<1>4. \A n \in Names, r \in Creators :
        files'[n] = files[n] \/ (files[n].by # r /\ files'[n].by # r)
    BY <1>1, <1>2, AuthorsDiffer DEF IInv, TypeOK, NoFile
<1>5. PackageInv' /\ prep' = prep
    BY PackageStays, <1>2 DEF IInv, packageVars
<1> QED BY <1>2, <1>3, <1>4, <1>5, AroundStep

LEMMA InitInv == Init => IInv
<1> SUFFICES ASSUME Init PROVE IInv
    OBVIOUS
<1>1. run \in [Creators -> Runs] /\ files \in [Names -> Files]
    BY DEF Init, Fresh, Runs, Positions, NoFile, Files
<1>2. prep \in [Actors -> Preparations]
    BY DEF Init, PackageInit, NoPreparation, Undecided, Preparations, None
<1>3. PackageInv
    <2>1. /\ manifest \in Versions \cup {None} /\ installed = manifest
          /\ strays = [s \in Strays |-> Gone] /\ \A a \in Actors : prep[a] = NoPreparation
        BY DEF Init, PackageInit
    <2>2. UnderWay = {}
        BY <2>1, VersionType DEF UnderWay, NoPreparation, Undecided
    <2> QED BY <1>2, <2>1, <2>2, VersionType DEF PackageInv, PackageSettles, ReadersCurrent,
            TornIsBeingWritten, Preparing, NoPreparation, Undecided
<1>4. ASSUME NEW r \in Creators PROVE CreationInv(r)
    <2>1. run[r].status = "asking" /\ run[r].at = "goal" /\ prep[r].phase = "idle"
        BY <1>4, ActorsPrepare DEF Init, Fresh, PackageInit, NoPreparation, Undecided
    <2>2. \A n \in Names : files[n].by # r
        BY AuthorsDiffer DEF Init, NoFile
    <2> QED BY <2>1, <2>2 DEF CreationInv, Places, Owns, Written, Reservations, Reserved
<1> QED BY <1>1, <1>2, <1>3, <1>4 DEF IInv, TypeOK, PackageInv

LEMMA NextInv == IInv /\ [Next]_vars => IInv'
<1> SUFFICES ASSUME IInv, [Next]_vars PROVE IInv'
    OBVIOUS
<1>t. \A r \in Creators : /\ run[r] \in Runs /\ r \in Actors
                           /\ run[r].round + 1 \in Nat /\ run[r].plan + 1 \in Nat
    BY ActorsPrepare DEF IInv, TypeOK, Runs
<1>1. ASSUME NEW r \in Creators, collectGoal(r) PROVE IInv'
    <2> DEFINE new == [run[r] EXCEPT !.status = "running", !.at = "design"]
    <2>1. new \in Runs /\ new.status = "running" /\ new.at = "design"
        BY <1>t DEF Runs, Positions
    <2>2. Update(r, new) /\ UNCHANGED <<packageVars, files, orphaned>> /\ run[r].at = "goal"
        BY <1>1 DEF collectGoal
    <2> HIDE DEF new
    <2> QED BY <2>1, <2>2, CreationWalks DEF Owned
<1>2. ASSUME NEW r \in Creators, design(r) PROVE IInv'
    <2> DEFINE planned == [run[r] EXCEPT !.at = "resolve", !.plan = @ + 1]
               asks == [run[r] EXCEPT !.status = "asking"]
    <2>1. /\ run[r].at = "design" /\ run[r].status = "running"
          /\ Update(r, planned) \/ Update(r, asks)
          /\ UNCHANGED <<packageVars, files, orphaned>>
        BY <1>2 DEF design, At
    <2>2. planned \in Runs /\ planned.at = "resolve" /\ planned.status = "running"
        BY <1>t, <2>1 DEF Runs, Positions
    <2>3. asks \in Runs /\ asks.at = "design" /\ asks.status = "asking"
        BY <1>t, <2>1 DEF Runs
    <2> HIDE DEF planned, asks
    <2>4. CASE Update(r, planned)
        BY <2>1, <2>2, <2>4, CreationWalks DEF Owned
    <2>5. CASE Update(r, asks)
        BY <2>1, <2>3, <2>5, CreationWalks DEF Owned
    <2> QED BY <2>1, <2>4, <2>5
<1>3. ASSUME NEW r \in Creators, answerDesign(r) PROVE IInv'
    <2> DEFINE new == [run[r] EXCEPT !.status = "running", !.at = "resolve", !.plan = @ + 1]
    <2>1. new \in Runs /\ new.status = "running" /\ new.at = "resolve"
        BY <1>t DEF Runs, Positions
    <2>2. Update(r, new) /\ UNCHANGED <<packageVars, files, orphaned>> /\ run[r].at = "design"
        BY <1>3 DEF answerDesign
    <2> HIDE DEF new
    <2> QED BY <2>1, <2>2, CreationWalks DEF Owned
<1>4. ASSUME NEW r \in Creators, resolveTarget(r) PROVE IInv'
    <2>1. PICK n \in Names :
            Update(r, [run[r] EXCEPT !.at = "approve", !.target = n, !.status = "asking"])
        BY <1>4 DEF resolveTarget
    <2> DEFINE new == [run[r] EXCEPT !.at = "approve", !.target = n, !.status = "asking"]
    <2>2. new \in Runs /\ new.status = "asking" /\ new.at = "approve" /\ new.target = n
        BY <1>t DEF Runs, Positions
    <2>3. Update(r, new) /\ UNCHANGED <<packageVars, files, orphaned>> /\ run[r].at = "resolve"
        BY <1>4, <2>1 DEF resolveTarget, At
    <2> HIDE DEF new
    <2> QED BY <2>2, <2>3, CreationWalks DEF Owned
<1>5. ASSUME NEW r \in Creators, approve(r) PROVE IInv'
    <2> DEFINE approved == [run[r] EXCEPT !.status = "running", !.at = "reserve", !.round = 1]
               again == [run[r] EXCEPT !.status = "running", !.at = "design", !.round = @ + 1, !.target = 0]
    <2>1. /\ run[r].at = "approve" /\ run[r].target \in Names
          /\ Update(r, approved) \/ Update(r, again) \/ Crashes(r)
          /\ UNCHANGED <<packageVars, files, orphaned>>
        BY <1>5 DEF approve, IInv, CreationInv, Places
    <2>2. /\ approved \in Runs /\ approved.at = "reserve" /\ approved.status = "running"
          /\ approved.target = run[r].target
        BY <1>t DEF Runs, Positions
    <2>3. again \in Runs /\ again.at = "design" /\ again.status = "running"
        BY <1>t DEF Runs, Positions
    <2> HIDE DEF approved, again
    <2>4. CASE Update(r, approved)
        BY <2>1, <2>2, <2>4, CreationWalks DEF Owned
    <2>5. CASE Update(r, again)
        BY <2>1, <2>3, <2>5, CreationWalks DEF Owned
    <2>6. CASE Crashes(r)
        BY <2>1, <2>6, CreationCrashes
    <2> QED BY <2>1, <2>4, <2>5, <2>6
<1>6. ASSUME NEW r \in Creators, CheckpointReserve(r) PROVE IInv'
    <2> DEFINE new == [run[r] EXCEPT !.at = "package"]
    <2>1. run[r].at = "reserved" /\ run[r].status = "running" /\ prep[r].phase = "idle"
        BY <1>6 DEF CheckpointReserve, At, IInv, CreationInv, Places
    <2>2. /\ new \in Runs /\ new.status = "running" /\ new.at = "package"
          /\ new.target = run[r].target /\ new.plan = run[r].plan
        BY <1>t, <2>1 DEF Runs, Positions
    <2>3. /\ Update(r, new) /\ Prepare(r)
          /\ UNCHANGED <<store, files, orphaned>>
        BY <1>6 DEF CheckpointReserve, Goes
    <2>4. PackageInv' /\ \A a \in Actors \ {r} : prep'[a] = prep[a]
        BY <1>t, <2>1, <2>3, PrepareStep DEF IInv
    <2> HIDE DEF new
    <2> QED BY <2>1, <2>2, <2>3, <2>4, ActorsPrepare, CreationMoves DEF Owned
<1>7. ASSUME NEW r \in Creators, implement(r) PROVE IInv'
    <2> DEFINE new == [run[r] EXCEPT !.at = "check"]
    <2>1. run[r].at = "implement" /\ run[r].status = "running"
        BY <1>7 DEF implement, At
    <2>2. /\ new \in Runs /\ new.status = "running" /\ new.at = "check"
          /\ new.target = run[r].target /\ new.plan = run[r].plan
        BY <1>t, <2>1 DEF Runs, Positions
    <2>3. Update(r, new) /\ Writes(r) /\ UNCHANGED <<packageVars, orphaned>>
        BY <1>7 DEF implement, Goes
    <2> HIDE DEF new
    <2> QED BY <2>1, <2>2, <2>3, WritingStep
<1>8. ASSUME NEW r \in Creators, complete(r) PROVE IInv'
    <2> DEFINE new == [run[r] EXCEPT !.status = "completed"]
    <2>1. /\ run[r].at = "complete" /\ Update(r, new)
          /\ UNCHANGED <<packageVars, files, orphaned>>
        BY <1>8 DEF complete, At
    <2>2. /\ new \in Runs /\ new.status = "completed" /\ new.at = "complete"
          /\ new.target = run[r].target /\ new.plan = run[r].plan
        BY <1>t, <2>1 DEF Runs
    <2> HIDE DEF new
    <2> QED BY <2>1, <2>2, CreationWalks DEF Owned
<1>9. ASSUME NEW r \in Creators, CancelWaiting(r) PROVE IInv'
    <2>1. run[r].at \in {"goal", "design", "approve"}
        BY <1>9 DEF CancelWaiting, IInv, CreationInv, Places
    <2> QED BY <1>9, <2>1, CreationCrashes DEF CancelWaiting
<1>10. CASE UNCHANGED vars
    <2>1. PackageInv'
        BY PackageStays, <1>10 DEF vars, IInv
    <2> QED BY <1>10, <2>1, AroundStep DEF vars, packageVars, IInv, TypeOK
<1>11. CASE Stray /\ UNCHANGED <<run, files, orphaned>>
    <2>1. PackageInv' /\ prep' = prep
        BY <1>11, StrayStep DEF IInv
    <2> QED BY <1>11, <2>1, AroundStep DEF IInv, TypeOK
<1> QED BY <1>1, <1>2, <1>3, <1>4, <1>5, <1>6, <1>7, <1>8, <1>9, <1>10, <1>11, ReserveStep, PackageStep,
        CheckStep, StopStep, ResumeStep, LaunchStep, AuthorStep DEF Next

LEMMA Invariant == Spec => []IInv
<1> QED BY InitInv, NextInv, PTL DEF Spec

-----------------------------------------------------------------------------
\* Creations, files and preparations keep their shape.
THEOREM TypeCorrect == Spec => []TypeOK
<1>1. IInv => TypeOK
    BY DEF IInv
<1> QED BY <1>1, Invariant, PTL

\* No creation and no user writes into a file another creation has reserved, whatever is
\* stopped and restarted in between (the wx flag of reserve).
THEOREM EntryIsKept == Spec => []OwnersKeepTheirEntry
<1>1. IInv => OwnersKeepTheirEntry
    BY DEF IInv, CreationInv, Owns, OwnersKeepTheirEntry
<1> QED BY <1>1, Invariant, PTL

\* What completes is what the agent wrote for the plan approved last, and passed every stage
\* of the check (check, complete).
THEOREM CompletesAsApproved == Spec => []CompletedAsApproved
<1>1. IInv => CompletedAsApproved
    <2> SUFFICES ASSUME IInv, NEW r \in Creators, run[r].status = "completed"
                 PROVE  Entry(r) = [by |-> r, plan |-> run[r].plan, quality |-> "good"]
        BY DEF CompletedAsApproved
    <2>1. run[r].at = "complete" /\ Reserved(r)
        BY DEF IInv, CreationInv, Places, Reserved
    <2>2. run[r].target \in Names /\ Entry(r) \in Files
        BY <2>1 DEF IInv, TypeOK, CreationInv, Places, Entry
    <2>3. Entry(r).by = r /\ Entry(r).plan = run[r].plan /\ Entry(r).quality = "good"
        BY <2>1 DEF IInv, CreationInv, Owns, Written
    <2> QED BY <2>2, <2>3 DEF Files
<1> QED BY <1>1, Invariant, PTL

\* A creation never stands in its own way but for a stop between the reservation and its
\* checkpoint (reserve is run again).
THEOREM RefusedByOthers == Spec => []RefusedByOthersOtherwise
<1>1. IInv => RefusedByOthersOtherwise
    <2> SUFFICES ASSUME IInv, NEW r \in Creators, run[r].status = "refused", Entry(r).by = r
                 PROVE  r \in orphaned
        BY DEF RefusedByOthersOtherwise
    <2>1. run[r].at = "reserve" /\ run[r].target \in Names
        BY DEF IInv, CreationInv, Places
    <2> QED BY <2>1 DEF IInv, CreationInv, Reservations, Reserved, Entry
<1> QED BY <1>1, Invariant, PTL

\* Whoever is told that the package is ready has what the manifest pins, unless somebody is
\* just rewriting it, or an install of what the manifest pins was cut short, or the manifest
\* was rewritten under an install that had read another, and no later install made up for it
\* (prepareWorkflowPackage): for any number of preparations and of stray installs.
THEOREM PackageIsPrepared == Spec => []PreparedPackageMatchesOtherwise
<1>1. IInv => PreparedPackageMatchesOtherwise
    BY DEF IInv, PackageInv, PackageSettles, PreparedPackageMatchesOtherwise, PreparedPackageMatches
<1> QED BY <1>1, Invariant, PTL

================================================================================
