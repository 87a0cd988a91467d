------------------------- MODULE ExecutionLeaseProofs --------------------------
(***************************************************************************)
(* The execution lease covers the execution, and implements the exclusive  *)
(* lease, for any commands, processes (several commands may share one),    *)
(* machines, retries and deaths.                                           *)
(*                                                                         *)
(* LeaseCoversExecution is not inductive: it does not say why nobody       *)
(* removes the executor's lease.  Two facts do.  A lease is removed under  *)
(* the retirement marker, which only one command holds (Markers), and only *)
(* after being found to be the command's target; and a target is the       *)
(* command's own lease or that of a dead process (Targets), because a file *)
(* names its execution's process (Names).                                  *)
(***************************************************************************)
EXTENDS ExecutionLease, TLAPS

\* The steps at which a command holds its retirement marker, and those it retires in.
Marked == {"writingMarker", "checking", "removingLease", "unmarking", "unwinding"}

Retiring == Marked \cup {"marking", "readingMarker", "judgingMarker", "removingMarker"}

\* A command runs exactly as long as its process.
Alive == \A a \in Agents : pc[a] = "dead" <=> ProcOf[a] \notin alive

\* Execution ids are given out once.
Ids ==
    /\ \A a \in Agents : mine[a] <= execs /\ (pc[a] \notin {"idle", "dead"} => mine[a] # 0)
    /\ \A a, b \in Agents : mine[a] = mine[b] /\ mine[a] # 0 => a = b

\* An execution that has begun, under the process of its command.
Names(file) ==
    /\ file # NoFile
    /\ file.exec <= execs
    /\ \A a \in Agents : mine[a] = file.exec => ProcOf[a] = file.proc

\* What a command retires is its own lease or that of a dead process, as it read it.
Targets ==
    \A a \in Agents :
        /\ pc[a] = "judging" => Names(seen[a])
        /\ pc[a] \in Retiring =>
               /\ Names(target[a])
               /\ target[a].exec = mine[a] \/ target[a].proc \notin alive

\* A command that acquired has its lease on disk.
Holders ==
    \A a \in Agents : pc[a] \in {"writing", "executing"} =>
        lease = [exec |-> mine[a], proc |-> ProcOf[a], written |-> pc[a] = "executing"]

\* One command holds the marker, and retires the lease it checked.
Markers ==
    /\ marker # NoFile => marker.proc \in alive
    /\ \A a \in Agents :
        /\ pc[a] \in Marked => marker # NoFile
        /\ pc[a] # "removingMarker"
        /\ pc[a] = "judgingMarker" => seen[a].proc \in alive
        /\ pc[a] = "removingLease" => sameLease(lease, target[a])
    /\ \A a, b \in Agents : pc[a] \in Marked /\ pc[b] \in Marked => a = b

IInv ==
    /\ TypeOK
    /\ Alive
    /\ Ids
    /\ lease # NoFile => Names(lease)
    /\ Targets
    /\ ~orphaned => Holders /\ Markers

LEMMA InitInv == Init => IInv
<1> SUFFICES ASSUME Init PROVE IInv
    OBVIOUS
<1>1. TypeOK
    <2>1. retry \in [Agents -> 0..MaxRetries]
        BY LeaseAssumption DEF Init
    <2> QED BY <2>1 DEF Init, TypeOK, Steps
<1>2. Alive /\ Ids /\ Targets /\ Holders /\ Markers
    BY LeaseAssumption DEF Init, Alive, Ids, Targets, Holders, Markers, Retiring, Marked
<1> QED BY <1>1, <1>2 DEF IInv, Init

LEMMA NextType == IInv /\ [Next]_vars => TypeOK'
<1> SUFFICES ASSUME IInv, [Next]_vars PROVE TypeOK'
    OBVIOUS
<1>t. TypeOK /\ \A a \in Agents : pc[a] \notin {"idle", "dead"} => mine[a] # 0
    BY DEF IInv, Ids
<1>e. \A a \in Agents : pc[a] = "marking" => target[a].exec \in Nat \ {0}
    BY <1>t DEF IInv, Targets, Names, Retiring, TypeOK, Files
<1> USE LeaseAssumption, <1>t DEF TypeOK, Steps, Files, Goto, Returns, NoFile
<1>1. ASSUME NEW a \in Agents, Begin(a) PROVE TypeOK'
    BY <1>1 DEF Begin
<1>2. ASSUME NEW a \in Agents, ReadLease(a) PROVE TypeOK'
    BY <1>2 DEF ReadLease
<1>3. ASSUME NEW a \in Agents, JudgeOwner(a) PROVE TypeOK'
    BY <1>3 DEF JudgeOwner
<1>4. ASSUME NEW a \in Agents, CreateLease(a) PROVE TypeOK'
    <2>1. mine[a] \in Nat \ {0} /\ ProcOf[a] \in Procs
        BY <1>4 DEF CreateLease
    <2>2. [exec |-> mine[a], proc |-> ProcOf[a], written |-> FALSE] \in Files
        BY <2>1
    <2> QED BY <1>4, <2>2 DEF CreateLease
<1>5. ASSUME NEW a \in Agents, WriteLease(a) PROVE TypeOK'
    BY <1>5 DEF WriteLease
<1>6. ASSUME NEW a \in Agents, Reinspect(a) PROVE TypeOK'
    BY <1>6 DEF Reinspect
<1>7. ASSUME NEW a \in Agents, Finish(a) PROVE TypeOK'
    BY <1>7 DEF Finish
<1>8. ASSUME NEW a \in Agents, CreateMarker(a) PROVE TypeOK'
    <2>1. target[a].exec \in Nat \ {0} /\ ProcOf[a] \in Procs
        BY <1>8, <1>e DEF CreateMarker
    <2>2. \A e \in Nat \ {0} : [exec |-> e, proc |-> ProcOf[a], written |-> FALSE] \in Files
        BY <2>1
    <2> DEFINE made == [exec |-> target[a].exec, proc |-> ProcOf[a], written |-> FALSE]
    <2>3. made \in Files
        BY <2>1, <2>2
    <2>4. (marker' = made /\ pc' = [pc EXCEPT ![a] = "writingMarker"])
            \/ (marker' = marker /\ pc' = [pc EXCEPT ![a] = "readingMarker"])
        BY <1>8 DEF CreateMarker
    <2> HIDE DEF made
    <2> QED BY <1>8, <2>3, <2>4 DEF CreateMarker
<1>9. ASSUME NEW a \in Agents, WriteMarker(a) PROVE TypeOK'
    BY <1>9 DEF WriteMarker
<1>10. ASSUME NEW a \in Agents, ReadMarker(a) PROVE TypeOK'
    BY <1>10 DEF ReadMarker
<1>11. ASSUME NEW a \in Agents, JudgeMarker(a) PROVE TypeOK'
    BY <1>11 DEF JudgeMarker
<1>12. ASSUME NEW a \in Agents, RemoveMarker(a) PROVE TypeOK'
    BY <1>12 DEF RemoveMarker
<1>13. ASSUME NEW a \in Agents, CheckLease(a) PROVE TypeOK'
    BY <1>13 DEF CheckLease
<1>14. ASSUME NEW a \in Agents, RemoveLease(a) PROVE TypeOK'
    BY <1>14 DEF RemoveLease
<1>15. ASSUME NEW a \in Agents, Unmark(a) PROVE TypeOK'
    BY <1>15 DEF Unmark
<1>16. ASSUME NEW a \in Agents, Unwind(a) PROVE TypeOK'
    BY <1>16 DEF Unwind
<1>17. ASSUME NEW p \in Procs, Crash(p) PROVE TypeOK'
    BY <1>17 DEF Crash
<1>18. CASE UNCHANGED vars
    BY <1>18 DEF vars
<1> QED BY <1>1, <1>2, <1>3, <1>4, <1>5, <1>6, <1>7, <1>8, <1>9, <1>10, <1>11, <1>12, <1>13, <1>14, <1>15, <1>16, <1>17, <1>18 DEF Next, Step

LEMMA NextInv == IInv /\ [Next]_vars => IInv'
<1> SUFFICES ASSUME IInv, [Next]_vars PROVE IInv'
    OBVIOUS
<1>t. TypeOK /\ TypeOK'
    BY NextType DEF IInv
<1> DEFINE Rest == /\ Alive /\ Ids /\ (lease # NoFile => Names(lease)) /\ Targets
                   /\ ~orphaned => Holders /\ Markers
<1>r. Rest
    BY DEF IInv
<1> USE LeaseAssumption, <1>t
<1>1. ASSUME NEW a \in Agents, Begin(a) PROVE Rest'
    <2> USE <1>r, <1>1 DEF Begin, Goto, Returns, TypeOK, Files, Steps, NoFile
    <2>1. Alive' /\ Ids'
        BY DEF Alive, Ids
    <2>2. lease' # NoFile => Names(lease)'
        BY DEF Names, Ids
    <2>3. Targets'
        BY DEF Targets, Retiring, Marked, Names, Ids, Alive
    <2>4. ~orphaned' => Holders'
        BY DEF Holders, Markers, Marked, Targets, Retiring, Names, Ids, Alive
    <2>5. ~orphaned' => Markers'
        BY DEF Markers, Marked, Targets, Alive, sameLease
    <2> QED BY <2>1, <2>2, <2>3, <2>4, <2>5
<1>2. ASSUME NEW a \in Agents, ReadLease(a) PROVE Rest'
    <2> USE <1>r, <1>2 DEF ReadLease, Readable, Goto, Returns, TypeOK, Files, Steps, NoFile
    <2>1. Alive' /\ Ids'
        BY DEF Alive, Ids
    <2>2. lease' # NoFile => Names(lease)'
        BY DEF Names, Ids
    <2>3. Targets'
        BY DEF Targets, Retiring, Marked, Names, Ids, Alive
    <2>4. ~orphaned' => Holders'
        BY DEF Holders, Markers, Marked, Targets, Retiring, Names, Ids, Alive
    <2>5. ~orphaned' => Markers'
        BY DEF Markers, Marked, Targets, Alive, sameLease
    <2> QED BY <2>1, <2>2, <2>3, <2>4, <2>5
<1>3. ASSUME NEW a \in Agents, JudgeOwner(a) PROVE Rest'
    <2> USE <1>r, <1>3 DEF JudgeOwner, ProvablyDead, Goto, Returns, TypeOK, Files, Steps, NoFile
    <2>1. Alive' /\ Ids'
        BY DEF Alive, Ids
    <2>2. lease' # NoFile => Names(lease)'
        BY DEF Names, Ids
    <2>3. Targets'
        BY DEF Targets, Retiring, Marked, Names, Ids, Alive
    <2>4. ~orphaned' => Holders'
        BY DEF Holders, Markers, Marked, Targets, Retiring, Names, Ids, Alive
    <2>5. ~orphaned' => Markers'
        BY DEF Markers, Marked, Targets, Alive, sameLease
    <2> QED BY <2>1, <2>2, <2>3, <2>4, <2>5
<1>4. ASSUME NEW a \in Agents, CreateLease(a) PROVE Rest'
    <2> USE <1>r, <1>4 DEF CreateLease, Goto, Returns, TypeOK, Files, Steps, NoFile
    <2>1. Alive' /\ Ids'
        BY DEF Alive, Ids
    <2>2. lease' # NoFile => Names(lease)'
        BY DEF Names, Ids
    <2>3. Targets'
        BY DEF Targets, Retiring, Marked, Names, Ids, Alive
    <2>4. ~orphaned' => Holders'
        BY DEF Holders, Markers, Marked, Targets, Retiring, Names, Ids, Alive
    <2>5. ~orphaned' => Markers'
        BY DEF Markers, Marked, Targets, Alive, sameLease
    <2> QED BY <2>1, <2>2, <2>3, <2>4, <2>5
<1>5. ASSUME NEW a \in Agents, WriteLease(a) PROVE Rest'
    <2> USE <1>r, <1>5 DEF WriteLease, Goto, Returns, TypeOK, Files, Steps, NoFile
    <2>1. Alive' /\ Ids'
        BY DEF Alive, Ids
    <2>2. lease' # NoFile => Names(lease)'
        BY DEF Names, Ids
    <2>3. Targets'
        BY DEF Targets, Retiring, Marked, Names, Ids, Alive
    <2>4. ~orphaned' => Holders'
        BY DEF Holders, Markers, Marked, Targets, Retiring, Names, Ids, Alive
    <2>5. ~orphaned' => Markers'
        BY DEF Markers, Marked, Targets, Alive, sameLease
    <2> QED BY <2>1, <2>2, <2>3, <2>4, <2>5
<1>6. ASSUME NEW a \in Agents, Reinspect(a) PROVE Rest'
    <2> USE <1>r, <1>6 DEF Reinspect, Goto, Returns, TypeOK, Files, Steps, NoFile
    <2>1. Alive' /\ Ids'
        BY DEF Alive, Ids
    <2>2. lease' # NoFile => Names(lease)'
        BY DEF Names, Ids
    <2>3. Targets'
        BY DEF Targets, Retiring, Marked, Names, Ids, Alive
    <2>4. ~orphaned' => Holders'
        BY DEF Holders, Markers, Marked, Targets, Retiring, Names, Ids, Alive
    <2>5. ~orphaned' => Markers'
        BY DEF Markers, Marked, Targets, Alive, sameLease
    <2> QED BY <2>1, <2>2, <2>3, <2>4, <2>5
<1>7. ASSUME NEW a \in Agents, Finish(a) PROVE Rest'
    <2> USE <1>r, <1>7 DEF Finish, Goto, Returns, TypeOK, Files, Steps, NoFile
    <2>1. Alive' /\ Ids'
        BY DEF Alive, Ids
    <2>2. lease' # NoFile => Names(lease)'
        BY DEF Names, Ids
    <2>3. Targets'
        BY DEF Targets, Retiring, Marked, Names, Ids, Alive
    <2>4. ~orphaned' => Holders'
        BY DEF Holders, Markers, Marked, Targets, Retiring, Names, Ids, Alive
    <2>5. ~orphaned' => Markers'
        BY DEF Markers, Marked, Targets, Alive, sameLease
    <2> QED BY <2>1, <2>2, <2>3, <2>4, <2>5
<1>8. ASSUME NEW a \in Agents, CreateMarker(a) PROVE Rest'
    <2>m. marker = NoFile => marker'.proc = ProcOf[a] /\ marker' # NoFile
        BY <1>8 DEF CreateMarker, NoFile
    <2> USE <1>r, <1>8 DEF CreateMarker, Goto, Returns, TypeOK, Files, Steps, NoFile
    <2>1. Alive' /\ Ids'
        BY DEF Alive, Ids
    <2>2. lease' # NoFile => Names(lease)'
        BY DEF Names, Ids
    <2>3. Targets'
        BY DEF Targets, Retiring, Marked, Names, Ids, Alive
    <2>4. ~orphaned' => Holders'
        BY DEF Holders, Markers, Marked, Targets, Retiring, Names, Ids, Alive
    <2>5. ~orphaned' => Markers'
        <3>1. CASE marker = NoFile
            <4>1. ~orphaned => \A b \in Agents : pc[b] \notin Marked
                BY <3>1 DEF Markers
            <4>2. ProcOf[a] \in alive
                BY DEF Alive
            <4>3. marker' # NoFile /\ marker'.proc \in alive'
                BY <2>m, <3>1, <4>2
            <4>4. pc' = [pc EXCEPT ![a] = "writingMarker"]
                BY <3>1
            <4>5. pc \in [Agents -> Steps]
                BY DEF TypeOK
            <4>6. ~orphaned => /\ \A b \in Agents : pc[b] # "removingMarker"
                               /\ \A b \in Agents : pc[b] = "judgingMarker" => seen[b].proc \in alive
                BY <1>r DEF Markers
            <4> HIDE <1>r, <1>t DEF TypeOK, Files, NoFile
            <4> QED BY <4>1, <4>3, <4>4, <4>5, <4>6 DEF Markers, Marked, sameLease
        <3>2. CASE marker # NoFile
            BY <3>2 DEF Markers, Marked, sameLease
        <3> QED BY <3>1, <3>2
    <2> QED BY <2>1, <2>2, <2>3, <2>4, <2>5
<1>9. ASSUME NEW a \in Agents, WriteMarker(a) PROVE Rest'
    <2> USE <1>r, <1>9 DEF WriteMarker, Goto, Returns, TypeOK, Files, Steps, NoFile
    <2>1. Alive' /\ Ids'
        BY DEF Alive, Ids
    <2>2. lease' # NoFile => Names(lease)'
        BY DEF Names, Ids
    <2>3. Targets'
        BY DEF Targets, Retiring, Marked, Names, Ids, Alive
    <2>4. ~orphaned' => Holders'
        BY DEF Holders, Markers, Marked, Targets, Retiring, Names, Ids, Alive
    <2>5. ~orphaned' => Markers'
        BY DEF Markers, Marked, Targets, Alive, sameLease
    <2> QED BY <2>1, <2>2, <2>3, <2>4, <2>5
<1>10. ASSUME NEW a \in Agents, ReadMarker(a) PROVE Rest'
    <2> USE <1>r, <1>10 DEF ReadMarker, Readable, Goto, Returns, TypeOK, Files, Steps, NoFile
    <2>1. Alive' /\ Ids'
        BY DEF Alive, Ids
    <2>2. lease' # NoFile => Names(lease)'
        BY DEF Names, Ids
    <2>3. Targets'
        BY DEF Targets, Retiring, Marked, Names, Ids, Alive
    <2>4. ~orphaned' => Holders'
        BY DEF Holders, Markers, Marked, Targets, Retiring, Names, Ids, Alive
    <2>5. ~orphaned' => Markers'
        BY DEF Markers, Marked, Targets, Alive, sameLease
    <2> QED BY <2>1, <2>2, <2>3, <2>4, <2>5
<1>11. ASSUME NEW a \in Agents, JudgeMarker(a) PROVE Rest'
    <2> USE <1>r, <1>11 DEF JudgeMarker, ProvablyDead, Goto, Returns, TypeOK, Files, Steps, NoFile
    <2>1. Alive' /\ Ids'
        BY DEF Alive, Ids
    <2>2. lease' # NoFile => Names(lease)'
        BY DEF Names, Ids
    <2>3. Targets'
        BY DEF Targets, Retiring, Marked, Names, Ids, Alive
    <2>4. ~orphaned' => Holders'
        BY DEF Holders, Markers, Marked, Targets, Retiring, Names, Ids, Alive
    <2>5. ~orphaned' => Markers'
        <3> SUFFICES ASSUME ~orphaned PROVE Markers'
            OBVIOUS
        <3>1. seen[a].proc \in alive
            BY DEF Markers
        <3>2. pc' = [pc EXCEPT ![a] = IF Releasing(a) THEN "idle" ELSE "creating"]
            BY <3>1
        <3> QED BY <3>2 DEF Markers, Marked, sameLease
    <2> QED BY <2>1, <2>2, <2>3, <2>4, <2>5
<1>12. ASSUME NEW a \in Agents, RemoveMarker(a) PROVE Rest'
    <2> USE <1>r, <1>12 DEF RemoveMarker, Goto, Returns, TypeOK, Files, Steps, NoFile
    <2>1. Alive' /\ Ids'
        BY DEF Alive, Ids
    <2>2. lease' # NoFile => Names(lease)'
        BY DEF Names, Ids
    <2>3. Targets'
        BY DEF Targets, Retiring, Marked, Names, Ids, Alive
    <2>4. ~orphaned' => Holders'
        BY DEF Holders, Markers, Marked, Targets, Retiring, Names, Ids, Alive
    <2>5. ~orphaned' => Markers'
        BY DEF Markers, Marked, Targets, Alive, sameLease
    <2> QED BY <2>1, <2>2, <2>3, <2>4, <2>5
<1>13. ASSUME NEW a \in Agents, CheckLease(a) PROVE Rest'
    <2> USE <1>r, <1>13 DEF CheckLease, Readable, Goto, Returns, TypeOK, Files, Steps, NoFile
    <2>1. Alive' /\ Ids'
        BY DEF Alive, Ids
    <2>2. lease' # NoFile => Names(lease)'
        BY DEF Names, Ids
    <2>3. Targets'
        BY DEF Targets, Retiring, Marked, Names, Ids, Alive
    <2>4. ~orphaned' => Holders'
        BY DEF Holders, Markers, Marked, Targets, Retiring, Names, Ids, Alive
    <2>5. ~orphaned' => Markers'
        BY DEF Markers, Marked, Targets, Alive, sameLease
    <2> QED BY <2>1, <2>2, <2>3, <2>4, <2>5
<1>14. ASSUME NEW a \in Agents, RemoveLease(a) PROVE Rest'
    <2> USE <1>r, <1>14 DEF RemoveLease, Goto, Returns, TypeOK, Files, Steps, NoFile
    <2>1. Alive' /\ Ids'
        BY DEF Alive, Ids
    <2>2. lease' # NoFile => Names(lease)'
        BY DEF Names, Ids
    <2>3. Targets'
        BY DEF Targets, Retiring, Marked, Names, Ids, Alive
    <2>4. ~orphaned' => Holders'
        <3> SUFFICES ASSUME ~orphaned, NEW b \in Agents, pc[b] \in {"writing", "executing"}
                     PROVE  FALSE
            BY DEF Holders
        <3>1. lease.exec = mine[b] /\ lease.proc = ProcOf[b] /\ ProcOf[b] \in alive
            BY DEF Holders, Alive
        <3>2. target[a].exec = mine[b] /\ target[a].proc = ProcOf[b]
            BY <3>1 DEF Markers, sameLease
        <3>3. target[a].exec = mine[a]
            BY <3>1, <3>2 DEF Targets, Retiring, Marked
        <3>4. mine[a] # 0 /\ mine[a] = mine[b]
            BY <3>2, <3>3 DEF Ids
        <3> QED BY <3>4 DEF Ids
    <2>5. ~orphaned' => Markers'
        BY DEF Markers, Marked, Targets, Alive, sameLease
    <2> QED BY <2>1, <2>2, <2>3, <2>4, <2>5
<1>15. ASSUME NEW a \in Agents, Unmark(a) PROVE Rest'
    <2> USE <1>r, <1>15 DEF Unmark, Goto, Returns, TypeOK, Files, Steps, NoFile
    <2>1. Alive' /\ Ids'
        BY DEF Alive, Ids
    <2>2. lease' # NoFile => Names(lease)'
        BY DEF Names, Ids
    <2>3. Targets'
        BY DEF Targets, Retiring, Marked, Names, Ids, Alive
    <2>4. ~orphaned' => Holders'
        BY DEF Holders, Markers, Marked, Targets, Retiring, Names, Ids, Alive
    <2>5. ~orphaned' => Markers'
        BY DEF Markers, Marked, Targets, Alive, sameLease
    <2> QED BY <2>1, <2>2, <2>3, <2>4, <2>5
<1>16. ASSUME NEW a \in Agents, Unwind(a) PROVE Rest'
    <2> USE <1>r, <1>16 DEF Unwind, Goto, Returns, TypeOK, Files, Steps, NoFile
    <2>1. Alive' /\ Ids'
        BY DEF Alive, Ids
    <2>2. lease' # NoFile => Names(lease)'
        BY DEF Names, Ids
    <2>3. Targets'
        BY DEF Targets, Retiring, Marked, Names, Ids, Alive
    <2>4. ~orphaned' => Holders'
        BY DEF Holders, Markers, Marked, Targets, Retiring, Names, Ids, Alive
    <2>5. ~orphaned' => Markers'
        BY DEF Markers, Marked, Targets, Alive, sameLease
    <2> QED BY <2>1, <2>2, <2>3, <2>4, <2>5
<1>17. ASSUME NEW p \in Procs, Crash(p) PROVE Rest'
    <2> USE <1>r, <1>17 DEF Crash, TypeOK, Steps
    <2>1. Alive' /\ Ids'
        BY DEF Alive, Ids
    <2>2. lease' # NoFile => Names(lease)'
        BY DEF Names
    <2>3. Targets'
        BY DEF Targets, Retiring, Marked, Names
    <2>4. ~orphaned' => Holders' /\ Markers'
        BY DEF Holders, Markers, Marked, Alive
    <2> QED BY <2>1, <2>2, <2>3, <2>4
<1>18. CASE UNCHANGED vars
    <2>1. Alive' /\ Ids' /\ (lease' # NoFile => Names(lease)')
        BY <1>r, <1>18 DEF vars, Alive, Ids, Names
    <2>2. Targets'
        BY <1>r, <1>18 DEF vars, Targets, Names
    <2>3. ~orphaned' => Holders' /\ Markers'
        <3>1. ~orphaned' => Holders'
            BY <1>r, <1>18 DEF vars, Holders
        <3>2. ~orphaned' => Markers'
            BY <1>r, <1>18 DEF vars, Markers, Marked, sameLease
        <3> QED BY <3>1, <3>2
    <2> QED BY <2>1, <2>2, <2>3 DEF IInv
<1> QED BY <1>1, <1>2, <1>3, <1>4, <1>5, <1>6, <1>7, <1>8, <1>9, <1>10, <1>11, <1>12, <1>13, <1>14, <1>15, <1>16, <1>17, <1>18 DEF Next, Step, IInv

-----------------------------------------------------------------------------
LEMMA Invariant == Spec => []IInv
<1> QED BY InitInv, NextInv, PTL DEF Spec

\* Every file and every command keeps its shape, for any commands and processes: an
\* execution id that reaches a file is never the 0 that stands for no file.
THEOREM TypeCorrect == Spec => []TypeOK
<1>1. IInv => TypeOK
    BY DEF IInv
<1> QED BY <1>1, Invariant, PTL

\* Until a marker is orphaned, the lease on disk is the executor's own: no interleaving of
\* acquisitions, releases, reclaims and deaths takes it away (acquire, retire, release).
THEOREM LeaseIsKept == Spec => []LeaseCoversExecution
<1>1. IInv => LeaseCoversExecution
    BY DEF IInv, Holders, InExecution, LeaseCoversExecution
<1> QED BY <1>1, Invariant, PTL

\* Hence two executions of one run are never in progress at once, before that.
THEOREM ExecutionsExclude == Spec => [](~orphaned => MutualExclusion)
<1>1. IInv => (~orphaned => MutualExclusion)
    <2> SUFFICES ASSUME IInv, ~orphaned, NEW a \in Agents, NEW b \in Agents,
                        InExecution(a), InExecution(b)
                 PROVE  a = b
        BY DEF MutualExclusion
    <2>1. mine[a] = lease.exec /\ mine[b] = lease.exec
        BY DEF IInv, Holders, InExecution
    <2> QED BY <2>1 DEF IInv, Ids, InExecution
<1> QED BY <1>1, Invariant, PTL

-----------------------------------------------------------------------------
(* The refinement: the file system's lease, one system call at a time, implements the
   exclusive lease. *)

Running == {mine[a] : a \in {b \in Agents : InExecution(b)}}

LEMMA InitRefines == Init => Lease!Init
<1> QED BY DEF Init, Lease!Init, InExecution, NoFile

\* A step of a command that is not an executor before it nor after it.
LEMMA SameRunning ==
    ASSUME NEW a \in Agents, pc \in [Agents -> Steps], mine \in [Agents -> Nat],
           NEW step \in Steps \ {"executing"}, ~InExecution(a), pc' = [pc EXCEPT ![a] = step],
           \A b \in Agents : b # a => mine'[b] = mine[b]
    PROVE  Running' = Running
<1>1. \A b \in Agents : InExecution(b)' <=> InExecution(b)
    BY DEF InExecution
<1> QED BY <1>1 DEF Running, InExecution

LEMMA NextRefines == IInv /\ [Next]_vars => [orphaned \/ Lease!Next]_(Lease!vars)
<1> SUFFICES ASSUME IInv, [Next]_vars, ~orphaned
             PROVE  (lease.exec' = lease.exec /\ Running' = Running) \/ Lease!Next
    BY DEF Lease!vars, Running
<1>t. TypeOK /\ Alive /\ Ids /\ Targets /\ Holders /\ Markers
    BY DEF IInv
<1>p. pc \in [Agents -> Steps] /\ mine \in [Agents -> Nat]
    BY <1>t DEF TypeOK
\* The steps that neither begin nor end an execution, nor touch the lease.
<1>1. ASSUME NEW a \in Agents, Begin(a) PROVE UNCHANGED lease /\ Running' = Running
    BY <1>1, <1>p, SameRunning DEF Begin, Goto, InExecution, Steps
<1>2. ASSUME NEW a \in Agents, ReadLease(a) PROVE UNCHANGED lease /\ Running' = Running
    BY <1>2, <1>p, SameRunning DEF ReadLease, Goto, Returns, InExecution, Steps
<1>3. ASSUME NEW a \in Agents, JudgeOwner(a) PROVE UNCHANGED lease /\ Running' = Running
    BY <1>3, <1>p, SameRunning DEF JudgeOwner, Goto, Returns, InExecution, Steps
<1>4. ASSUME NEW a \in Agents, Reinspect(a) PROVE UNCHANGED lease /\ Running' = Running
    BY <1>4, <1>p, SameRunning DEF Reinspect, Goto, Returns, InExecution, Steps
<1>5. ASSUME NEW a \in Agents, CreateMarker(a) PROVE UNCHANGED lease /\ Running' = Running
    BY <1>5, <1>p, SameRunning DEF CreateMarker, Goto, Returns, InExecution, Steps
<1>6. ASSUME NEW a \in Agents, WriteMarker(a) PROVE UNCHANGED lease /\ Running' = Running
    BY <1>6, <1>p, SameRunning DEF WriteMarker, Goto, Returns, InExecution, Steps
<1>7. ASSUME NEW a \in Agents, ReadMarker(a) PROVE UNCHANGED lease /\ Running' = Running
    BY <1>7, <1>p, SameRunning DEF ReadMarker, Goto, Returns, InExecution, Steps
<1>8. ASSUME NEW a \in Agents, JudgeMarker(a) PROVE UNCHANGED lease /\ Running' = Running
    BY <1>8, <1>p, SameRunning DEF JudgeMarker, Goto, Returns, InExecution, Steps
<1>9. ASSUME NEW a \in Agents, RemoveMarker(a) PROVE UNCHANGED lease /\ Running' = Running
    BY <1>9, <1>p, SameRunning DEF RemoveMarker, Goto, Returns, InExecution, Steps
<1>10. ASSUME NEW a \in Agents, CheckLease(a) PROVE UNCHANGED lease /\ Running' = Running
    BY <1>10, <1>p, SameRunning DEF CheckLease, Goto, Returns, InExecution, Steps
<1>11. ASSUME NEW a \in Agents, Unmark(a) PROVE UNCHANGED lease /\ Running' = Running
    BY <1>11, <1>p, SameRunning DEF Unmark, Goto, Returns, InExecution, Steps
<1>12. ASSUME NEW a \in Agents, Unwind(a) PROVE UNCHANGED lease /\ Running' = Running
    BY <1>12, <1>p, SameRunning DEF Unwind, Goto, Returns, InExecution, Steps
<1>13. ASSUME NEW a \in Agents, CreateLease(a)
       PROVE  (lease.exec' = lease.exec /\ Running' = Running) \/ Lease!Grant
    <2>1. Running' = Running
        BY <1>13, <1>p, SameRunning DEF CreateLease, Goto, InExecution, Steps
    <2>2. mine[a] \in Nat \ {0}
        BY <1>13, <1>p, <1>t DEF CreateLease, Ids
    <2>3. CASE lease = NoFile
        <3>1. lease.exec = 0 /\ lease'.exec = mine[a]
            BY <1>13, <2>3 DEF CreateLease, NoFile
        <3> QED BY <2>1, <2>2, <3>1 DEF Lease!Grant, Running
    <2>4. CASE lease # NoFile
        BY <1>13, <2>1, <2>4 DEF CreateLease
    <2> QED BY <2>3, <2>4
\* The writer holds the lease: its execution starts.
<1>14. ASSUME NEW a \in Agents, WriteLease(a) PROVE Lease!Start
    <2>1. lease.exec = mine[a] /\ mine[a] # 0
        BY <1>14, <1>t DEF WriteLease, Holders, Ids
    <2>2. lease.exec' = lease.exec
        BY <1>14, <1>t DEF WriteLease, TypeOK, Files
    <2>3. \A b \in Agents : InExecution(b)' <=> InExecution(b) \/ b = a
        BY <1>14, <1>p DEF WriteLease, Goto, InExecution, Steps
    <2>4. Running' = Running \cup {mine[a]}
        BY <1>14, <2>3 DEF WriteLease, Running
    <2> QED BY <2>1, <2>2, <2>4 DEF Lease!Start, Running
<1>15. ASSUME NEW a \in Agents, Finish(a) PROVE Lease!End
    <2>1. \A b \in Agents : InExecution(b)' => InExecution(b)
        BY <1>15, <1>p DEF Finish, Goto, InExecution, Steps
    <2>2. Running' \subseteq Running
        BY <1>15, <2>1 DEF Finish, Running
    <2> QED BY <1>15, <2>2 DEF Finish, Lease!End, Running
\* An executor's lease is its own, and the lease removed is a dead process's or the remover's.
<1>16. ASSUME NEW a \in Agents, RemoveLease(a) PROVE Lease!Free
    <2>1. Running' = Running
        BY <1>16, <1>p, SameRunning DEF RemoveLease, Goto, InExecution, Steps
    <2>2. lease.exec \notin Running
        <3> SUFFICES ASSUME NEW b \in Agents, InExecution(b), lease.exec = mine[b] PROVE FALSE
            BY DEF Running
        <3>1. target[a].exec = mine[b] /\ target[a].proc = ProcOf[b] /\ ProcOf[b] \in alive
            BY <1>16, <1>t DEF RemoveLease, Holders, Markers, Alive, InExecution, sameLease
        <3>2. mine[a] = mine[b] /\ mine[a] # 0
            BY <1>16, <1>t, <3>1 DEF RemoveLease, Targets, Retiring, Marked, Ids
        <3> QED BY <1>16, <1>t, <3>2 DEF RemoveLease, Ids, InExecution
    <2> QED BY <1>16, <2>1, <2>2 DEF RemoveLease, Lease!Free, Running, NoFile
<1>17. ASSUME NEW p \in Procs, Crash(p) PROVE Lease!End
    <2>1. \A b \in Agents : InExecution(b)' => InExecution(b)
        BY <1>17, <1>p DEF Crash, InExecution
    <2>2. Running' \subseteq Running
        BY <1>17, <2>1 DEF Crash, Running
    <2> QED BY <1>17, <2>2 DEF Crash, Lease!End, Running
<1>18. CASE UNCHANGED vars
    BY <1>18 DEF vars, Running, InExecution
<1> QED BY <1>1, <1>2, <1>3, <1>4, <1>5, <1>6, <1>7, <1>8, <1>9, <1>10, <1>11, <1>12, <1>13, <1>14, <1>15, <1>16, <1>17, <1>18 DEF Next, Step, Lease!Next

\* Until a marker is orphaned, every step of the file system's lease is a step of the
\* exclusive lease, or none: granted when free, used by its holder, freed when its
\* execution is over.
THEOREM RefinesExclusiveLease == Spec => ImplementsExclusiveLease
<1> QED BY InitRefines, NextRefines, Invariant, PTL DEF Spec, ImplementsExclusiveLease

================================================================================
