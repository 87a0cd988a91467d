---------------------------- MODULE ExecutionLease -----------------------------
(***************************************************************************)
(* The execution lease of one run in the file system (createFsStore's      *)
(* acquire, inspect, retire and release, src/host/fs-store.ts), as the     *)
(* commands use it: reconcileAbandonedRun reclaims the lease of a dead     *)
(* process, runTracked acquires, executes and releases.                    *)
(*                                                                         *)
(* Agents are command invocations, each inside a process.  Every system    *)
(* call is a step: creating a file exclusively and writing its content     *)
(* are two of them, so a crash between leaves an empty file, and what an   *)
(* agent read may be stale when it acts.  Processes do not come back: a    *)
(* restarted extension is another process, with another owner id.          *)
(***************************************************************************)
EXTENDS Naturals, FiniteSets

CONSTANTS
    Agents,         \* command invocations
    Procs,          \* processes of the extension
    ProcOf,         \* the process an agent belongs to
    HostOf,         \* the machine a process runs on
    MaxRetries,     \* MAX_LEASE_RACE_RETRIES
    MaxCommands,    \* bound: commands issued
    MaxCrashes      \* bound: processes that die

ASSUME LeaseAssumption ==
    /\ ProcOf \in [Agents -> Procs]
    /\ HostOf \in [Procs -> STRING]
    /\ MaxRetries \in Nat
    /\ MaxCommands \in Nat
    /\ MaxCrashes \in Nat

NoFile == [exec |-> 0]

VARIABLES
    alive,      \* the processes that run
    lease,      \* <runId>.execution.json
    marker,     \* <runId>.execution.json.retiring
    pc,         \* where each agent is
    mine,       \* the execution id of the agent's command, 0 before its first
    target,     \* the lease an agent retires, as it read it
    seen,       \* what an agent read last
    retry,      \* its retry counter
    execs,      \* execution ids given out
    orphaned    \* history: a process died while its retirement marker was there to be
                \* read, or had been read by a command that has yet to judge it

vars == <<alive, lease, marker, pc, mine, target, seen, retry, execs,
          orphaned>>

Steps == {"idle", "reading", "judging", "creating", "writing", "reinspecting",
          "executing", "marking", "writingMarker", "readingMarker", "judgingMarker",
          "removingMarker", "checking", "removingLease", "unmarking", "unwinding", "dead"}

\* A lease, or a marker: exec names the execution (for a marker, the one of the lease
\* to retire), proc its owner, written whether its content has reached the file.
Files == [exec : Nat \ {0}, proc : Procs, written : BOOLEAN]

TypeOK ==
    /\ alive \subseteq Procs
    /\ lease \in Files \union {NoFile}
    /\ marker \in Files \union {NoFile}
    /\ pc \in [Agents -> Steps]
    /\ mine \in [Agents -> Nat]
    /\ target \in [Agents -> Files \union {NoFile}]
    /\ seen \in [Agents -> Files \union {NoFile}]
    /\ retry \in [Agents -> 0..MaxRetries]
    /\ execs \in Nat
    /\ orphaned \in BOOLEAN

-----------------------------------------------------------------------------
Goto(a, step) == pc' = [pc EXCEPT ![a] = step]

\* Bug in ProvablyDead: any other owner counts as dead.
NotMine(a, p) == p # ProcOf[a]

\* Not at any live owner, nor at one on another host: isLocalProcessAlive.
ProvablyDead(a, p) == p \notin alive /\ HostOf[p] = HostOf[ProcOf[a]]

\* JSON.parse accepts the file.
Readable(file) == file # NoFile /\ file.written

sameLease(l, m) == l # NoFile /\ m # NoFile /\ l.exec = m.exec /\ l.proc = m.proc

Init ==
    /\ alive = Procs
    /\ lease = NoFile
    /\ marker = NoFile
    /\ pc = [a \in Agents |-> "idle"]
    /\ mine = [a \in Agents |-> 0]
    /\ target = [a \in Agents |-> NoFile]
    /\ seen = [a \in Agents |-> NoFile]
    /\ retry = [a \in Agents |-> 0]
    /\ execs = 0
    /\ orphaned = FALSE

\* A command that may execute the run arrives; it first reconciles.
Begin(a) ==
    /\ pc[a] = "idle"
    /\ execs < MaxCommands
    /\ execs' = execs + 1
    /\ mine' = [mine EXCEPT ![a] = execs']
    /\ target' = [target EXCEPT ![a] = NoFile]
    /\ Goto(a, "reading")
    /\ UNCHANGED <<alive, lease, marker, seen, retry, orphaned>>

-----------------------------------------------------------------------------
(* inspect, and reconcileAbandonedRun's use of it.                          *)

\* No lease: nothing to reclaim.  A lease that does not parse: the command fails.
ReadLease(a) ==
    /\ pc[a] = "reading"
    /\ retry' = [retry EXCEPT ![a] = 0]
    /\ \/ lease = NoFile /\ Goto(a, "creating") /\ UNCHANGED seen
       \/ Readable(lease) /\ Goto(a, "judging") /\ seen' = [seen EXCEPT ![a] = lease]
       \/ lease # NoFile /\ ~lease.written /\ Goto(a, "idle") /\ UNCHANGED seen
    /\ UNCHANGED <<alive, lease, marker, mine, target, execs, orphaned>>

\* Only the lease of a provably dead owner is retired.  Otherwise the command goes on
\* to acquire, and finds the run owned.
JudgeOwner(a) ==
    /\ pc[a] = "judging"
    /\ IF ProvablyDead(a, seen[a].proc)
       THEN Goto(a, "marking") /\ target' = [target EXCEPT ![a] = seen[a]]
       ELSE Goto(a, "creating") /\ UNCHANGED target
    /\ UNCHANGED <<alive, lease, marker, mine, seen, retry, execs, orphaned>>

-----------------------------------------------------------------------------
(* acquire.                                                                 *)

\* writeFile with flag wx: the file is created, or it exists.
CreateLease(a) ==
    /\ pc[a] = "creating"
    /\ \/ /\ lease = NoFile
          /\ lease' = [exec |-> mine[a], proc |-> ProcOf[a], written |-> FALSE]
          /\ Goto(a, "writing")
       \/ /\ lease # NoFile
          /\ Goto(a, "reinspecting")
          /\ UNCHANGED lease
    /\ UNCHANGED <<alive, marker, mine, target, seen, retry, execs, orphaned>>

\* The content reaches the file that was created, if it is still in the directory.
WriteLease(a) ==
    /\ pc[a] = "writing"
    /\ lease' = IF lease # NoFile /\ lease.exec = mine[a]
                THEN [lease EXCEPT !.written = TRUE] ELSE lease
    /\ Goto(a, "executing")
    /\ UNCHANGED <<alive, marker, mine, target, seen, retry, execs, orphaned>>

\* Bug in Reinspect: a command waits for the owner instead of failing.
WaitForLease(a) ==
    /\ pc[a] = "reinspecting"
    /\ Goto(a, "creating")
    /\ UNCHANGED <<alive, lease, marker, mine, target, seen, retry, execs, orphaned>>

\* The lease existed.  It is gone again: retry.  It is there: the run is owned (or its
\* lease does not parse), and the command fails.
Reinspect(a) ==
    /\ pc[a] = "reinspecting"
    /\ IF lease = NoFile /\ retry[a] < MaxRetries
       THEN Goto(a, "creating") /\ retry' = [retry EXCEPT ![a] = @ + 1]
       ELSE Goto(a, "idle") /\ UNCHANGED retry
    /\ UNCHANGED <<alive, lease, marker, mine, target, seen, execs, orphaned>>

\* The execution settles; runTracked's finally releases its lease.
Finish(a) ==
    /\ pc[a] = "executing"
    /\ target' = [target EXCEPT
                    ![a] = [exec |-> mine[a], proc |-> ProcOf[a], written |-> TRUE]]
    /\ retry' = [retry EXCEPT ![a] = 0]
    /\ Goto(a, "marking")
    /\ UNCHANGED <<alive, lease, marker, mine, seen, execs, orphaned>>

-----------------------------------------------------------------------------
(* retire, for a reclaimer and for release.                                 *)

Releasing(a) == target[a] # NoFile /\ target[a].exec = mine[a]

\* retire returns: a release ends the command, a reclaimer goes on to acquire.
Returns(a) ==
    /\ Goto(a, IF Releasing(a) THEN "idle" ELSE "creating")
    /\ retry' = [retry EXCEPT ![a] = 0]

CreateMarker(a) ==
    /\ pc[a] = "marking"
    /\ IF marker = NoFile
       THEN /\ marker' = [exec |-> target[a].exec, proc |-> ProcOf[a], written |-> FALSE]
            /\ Goto(a, "writingMarker")
       ELSE /\ Goto(a, "readingMarker")
            /\ UNCHANGED marker
    /\ UNCHANGED <<alive, lease, mine, target, seen, retry, execs, orphaned>>

WriteMarker(a) ==
    /\ pc[a] = "writingMarker"
    /\ marker' = IF marker # NoFile /\ marker.proc = ProcOf[a]
                 THEN [marker EXCEPT !.written = TRUE] ELSE marker
    /\ Goto(a, "checking")
    /\ UNCHANGED <<alive, lease, mine, target, seen, retry, execs, orphaned>>

\* Someone else's marker.  It is gone by now, or does not parse: retire returns false.
ReadMarker(a) ==
    /\ pc[a] = "readingMarker"
    /\ IF Readable(marker)
       THEN /\ Goto(a, "judgingMarker")
            /\ seen' = [seen EXCEPT ![a] = marker]
            /\ UNCHANGED retry
       ELSE Returns(a) /\ UNCHANGED seen
    /\ UNCHANGED <<alive, lease, marker, mine, target, execs, orphaned>>

JudgeMarker(a) ==
    /\ pc[a] = "judgingMarker"
    /\ IF ProvablyDead(a, seen[a].proc)
       THEN Goto(a, "removingMarker") /\ UNCHANGED retry
       ELSE Returns(a)
    /\ UNCHANGED <<alive, lease, marker, mine, target, seen, execs, orphaned>>

\* rm by path: whichever marker is there by now.
RemoveMarker(a) ==
    /\ pc[a] = "removingMarker"
    /\ marker' = NoFile
    /\ IF retry[a] < MaxRetries
       THEN Goto(a, "marking") /\ retry' = [retry EXCEPT ![a] = @ + 1]
       ELSE Returns(a)
    /\ UNCHANGED <<alive, lease, mine, target, seen, execs, orphaned>>

\* Bug in CheckLease: the removal is not conditional on the lease's identity.
RetireWhatever(a) ==
    /\ pc[a] = "checking"
    /\ Goto(a, "removingLease")
    /\ UNCHANGED <<alive, lease, marker, mine, target, seen, retry, execs, orphaned>>

\* Under the marker: retire only the lease that was inspected.  An unreadable lease
\* makes inspect throw, past the removal.
CheckLease(a) ==
    /\ pc[a] = "checking"
    /\ \/ /\ Readable(lease) /\ sameLease(lease, target[a])
          /\ Goto(a, "removingLease")
       \/ /\ lease = NoFile \/ (Readable(lease) /\ ~sameLease(lease, target[a]))
          /\ Goto(a, "unmarking")
       \/ /\ lease # NoFile /\ ~lease.written
          /\ Goto(a, "unwinding")
    /\ UNCHANGED <<alive, lease, marker, mine, target, seen, retry, execs, orphaned>>

\* rm by path, after beforeRelease.
RemoveLease(a) ==
    /\ pc[a] = "removingLease"
    /\ lease' = NoFile
    /\ Goto(a, "unmarking")
    /\ UNCHANGED <<alive, marker, mine, target, seen, retry, execs, orphaned>>

Unmark(a) ==
    /\ pc[a] = "unmarking"
    /\ marker' = NoFile
    /\ Returns(a)
    /\ UNCHANGED <<alive, lease, mine, target, seen, execs, orphaned>>

\* inspect threw: the marker goes, and the command fails with the exception.
Unwind(a) ==
    /\ pc[a] = "unwinding"
    /\ marker' = NoFile
    /\ Goto(a, "idle")
    /\ UNCHANGED <<alive, lease, mine, target, seen, retry, execs, orphaned>>

-----------------------------------------------------------------------------
\* A process dies, and with it every command it was executing.
Crash(p) ==
    /\ p \in alive
    /\ Cardinality(Procs \ alive) < MaxCrashes
    /\ alive' = alive \ {p}
    /\ orphaned' = \/ orphaned
                   \/ marker # NoFile /\ marker.proc = p
                   \/ \E a \in Agents : pc[a] = "judgingMarker" /\ seen[a].proc = p
    /\ pc' = [a \in Agents |-> IF ProcOf[a] = p THEN "dead" ELSE pc[a]]
    /\ UNCHANGED <<lease, marker, mine, target, seen, retry, execs>>

Step(a) ==
    \/ ReadLease(a) \/ JudgeOwner(a)
    \/ CreateLease(a) \/ WriteLease(a) \/ Reinspect(a) \/ Finish(a)
    \/ CreateMarker(a) \/ WriteMarker(a) \/ ReadMarker(a) \/ JudgeMarker(a)
    \/ RemoveMarker(a) \/ CheckLease(a) \/ RemoveLease(a) \/ Unmark(a)
    \/ Unwind(a)

Next ==
    \/ \E a \in Agents : Begin(a) \/ Step(a)
    \/ \E p \in Procs : Crash(p)

\* A command that has begun goes on; users need not issue commands, nor processes die.
Fairness == \A a \in Agents : WF_vars(Step(a))

Spec == Init /\ [][Next]_vars

FairSpec == Spec /\ Fairness

-----------------------------------------------------------------------------
(* Properties.                                                              *)

\* An agent executes the run from the moment it acquired until it removes its lease.
InExecution(a) == pc[a] = "executing"

\* At most one execution of the run is in progress, over all processes (active-runs.ts:
\* "one run id may have only one execution in this process. The durable store lease
\* enforces that same rule across processes").
MutualExclusion ==
    \A a, b \in Agents : InExecution(a) /\ InExecution(b) => a = b

\* The lease on disk is the executor's own for as long as it executes, so that no other
\* command can take the run over.  The one way to lose it is the reclaiming of a marker
\* whose process died: from then on two commands may retire one lease.
LeaseCoversExecution ==
    ~orphaned =>
        \A a \in Agents : InExecution(a) =>
            lease = [exec |-> mine[a], proc |-> ProcOf[a], written |-> TRUE]

\* Every command comes to an end: its retries are bounded, and no two commands wait for
\* each other's files.
CommandsEnd ==
    \A a \in Agents : pc[a] # "idle" ~> pc[a] \in {"idle", "dead"}

\* Until a marker is orphaned, the lease file implements the exclusive lease.
Lease == INSTANCE ExclusiveLease WITH
    holder <- lease.exec, running <- {mine[a] : a \in {b \in Agents : InExecution(b)}}

ImplementsExclusiveLease ==
    Lease!Init /\ [][orphaned \/ Lease!Next]_(Lease!vars)

=============================================================================
