----------------------------- MODULE FanOutProofs ------------------------------
(***************************************************************************)
(* What holds of a fan-out whatever its items, lanes, calls, crashes and   *)
(* cancellations: the inductive invariant below says what the walk has in  *)
(* memory owes to what the log records, and every property of the          *)
(* component but its liveness follows from it.                             *)
(*                                                                         *)
(* The last part is about what FanOut takes for granted of the agent steps *)
(* under way together in its lanes: how far commit() sees to it that they  *)
(* share no conversation, and what it leaves to the claim on a file.       *)
(***************************************************************************)
EXTENDS FanOut, WorkflowCommit, WellFoundedInduction, FiniteSetTheorems, SequenceTheorems, TLAPS

Working(i) == pc[i] \in {"boundary", "executing", "checkpointing"}

\* Items a lane has, or will still, come to.
Ahead(i) == i \in toRun \/ Working(i)

\* An item is unclaimed, or in a lane's hands, or settled with an outcome; between calls
\* the memory is empty.
ItemsSettleOnce ==
    /\ \A i \in toRun : pc[i] = "out"
    /\ \A i \in Items : pc[i] = "settled" <=> outcome[i] # "none"
    /\ \A i \in Items : pc[i] = "checkpointing" => kind # "parallel" /\ at[i] = BodyOf
    /\ \A i \in Items : pc[i] = "out" => at[i] = 1
    /\ phase # "walking" => \A i \in Items : ~Working(i)
    /\ phase \in {"returned", "down"} =>
        target = Fresh /\ toRun = {} /\ still = {} /\ results = {} /\ ~stopped
        /\ \A i \in Items : pc[i] = "out"
    /\ phase = "down" => report = "none" /\ ~aborted

\* Lanes run out of items before they end, unless an outcome stopped them.
LanesKeepGoing ==
    /\ phase = "walking" /\ ~stopped /\ toRun # {} => \E i \in Items : Working(i)
    /\ stopped => \E i \in Items :
            outcome[i] \in {"cancelled", "crashed"} \/ (kind = "sequential" /\ outcome[i] = "blocked")
    /\ target = Fresh /\ Some("crashed") => stopped
    /\ Some("cancelled") => aborted
    /\ kind = "sequential" => \A i \in Items : outcome[i] \notin {"none", "ok"} => stopped

\* Whatever ran well, now or before, has its place in the output.
NothingIsLost ==
    /\ phase = "walking" => \A i \in Items :
            i \in results \/ i \in toRun \/ pc[i] # "out" \/ \E k \in still : k[1] = i
    /\ \A i \in Items : outcome[i] = "ok" => i \in results
    /\ ~aborted /\ kind # "parallel" => results \subseteq history
    /\ ~aborted /\ kind = "parallel" => \A i \in results \ Optional : <<i, 1>> \in outputs

\* An item's recorded steps are a prefix of its body, and all of it once it is checkpointed.
StepsInOrder ==
    /\ \A i \in history \ Optional : \A s \in 1..BodyOf : <<i, s>> \in outputs
    /\ \A k \in StepKeys : steps[k] # "todo" /\ k[1] \notin Optional =>
            \A s \in 1..(k[2] - 1) : <<k[1], s>> \in outputs
    /\ ~aborted => \A i \in Items \ Optional :
            /\ Working(i) => \A s \in 1..(at[i] - 1) : <<i, s>> \in outputs
            /\ pc[i] = "checkpointing" => <<i, at[i]>> \in outputs
    /\ \A k \in StepKeys : steps[k] = "completed" => k \in outputs
    /\ \A k \in StepKeys : steps[k] = "blocked" => k[1] \notin Optional

\* A step the log has in progress is one that the call has in memory, a cancelled run has
\* none, and one that a call left blocked is there to be answered.
OpenStepsAreHeld ==
    /\ phase # "down" => \A k \in StepKeys : steps[k] = "in_progress" =>
            /\ at[k[1]] = k[2]
            /\ \/ pc[k[1]] = "executing"
               \/ outcome[k[1]] = "crashed"
               \/ k = target /\ pc[k[1]] = "boundary"
               \/ k = target /\ k[1] \in toRun /\ kind = "parallel"
    /\ aborted => /\ terminal = "cancelled"
                  /\ \A k \in StepKeys : steps[k] \notin {"in_progress", "blocked"}
    /\ phase = "walking" => \A k \in still : kind = "parallel" /\ k[1] \notin toRun /\ pc[k[1]] = "out"
    /\ ~aborted => \A k \in still : steps[k] = "blocked"
    /\ phase = "walking" /\ ~aborted => \A i \in Items :
            outcome[i] = "blocked" => steps[<<i, at[i]>>] = "blocked"

\* A sequential foreach goes through its items one by one, and stops at the first that blocks.
OneAtATime == kind = "sequential" =>
    /\ \A j \in history : 1..j \subseteq history
    /\ \A k \in StepKeys : steps[k] # "todo" => 1..(k[1] - 1) \subseteq history
    /\ \A k \in StepKeys : steps[k] = "blocked" => k[1] \notin history
    /\ \A k, l \in StepKeys : steps[k] = "blocked" /\ steps[l] = "blocked" => k = l
    /\ \A i, j \in Items : Working(i) /\ Working(j) => i = j
    /\ stopped => \A i \in Items : ~Working(i)
    /\ \A i \in Items : Working(i) => toRun = (i + 1)..N /\ i \notin history
    /\ ~aborted => \A i \in Items : Working(i) => 1..(i - 1) \subseteq history
    /\ phase = "walking" => \A k \in StepKeys : steps[k] = "blocked" => outcome[k[1]] = "blocked"

\* Nothing ahead was done before or is somebody else's to answer, the answered step apart.
NothingTwice ==
    /\ kind # "parallel" => \A i \in Items : Ahead(i) /\ i # target[1] => i \notin history
    /\ kind = "parallel" => \A i \in Items :
            (i \in toRun \/ pc[i] = "boundary") /\ <<i, 1>> # target =>
                steps[<<i, 1>>] # "blocked" /\ (target # Fresh => steps[<<i, 1>>] # "completed")

\* What was reported, or is about to be, is what the log says.
ReportsTheLog ==
    /\ phase = "completing" => \A k \in StepKeys : steps[k] # "in_progress"
    /\ phase = "completing" \/ (phase = "returned" /\ report = "completed") =>
        \A k \in StepKeys : steps[k] = "blocked" => k[1] \in Recovered
    /\ phase = "returned" /\ ~aborted =>
        /\ report = "blocked" => StepIs("blocked")
        /\ report \in {"crashed", "cancelled"} =>
                terminal = report /\ \A k \in StepKeys : steps[k] \notin {"in_progress", "blocked"}
        /\ report = "completed" => terminal = "completed"

IInv ==
    /\ TypeOK
    /\ ItemsSettleOnce
    /\ LanesKeepGoing
    /\ NothingIsLost
    /\ StepsInOrder
    /\ OpenStepsAreHeld
    /\ OneAtATime
    /\ NothingTwice
    /\ ReportsTheLog

-----------------------------------------------------------------------------
(* The operators of the model.                                              *)

\* The lanes of one call take the least items of what is left (scheduler.ts, claimNext).
LEMMA LeastItem ==
    ASSUME NEW S \in SUBSET Nat, S # {}
    PROVE  \E i \in S : \A j \in S : i <= j
<1> DEFINE R == OpToRel(<, Nat)
<1>1. R = {p \in Nat \X Nat : p[1] < p[2]}
    BY Zenon DEF OpToRel
<1>2. IsWellFoundedOn(R, Nat)
    BY NatLessThanWellFounded
<1> HIDE DEF R
<1>3. PICK i \in S : \A j \in S : <<j, i>> \notin R
    BY <1>2, WFMin
<1>4. ASSUME NEW j \in S PROVE i <= j
    <2>1. i \in Nat /\ j \in Nat
        BY <1>3
    <2>2. ~(j < i)
        BY <1>1, <1>3, <2>1
    <2> QED BY <2>1, <2>2
<1> QED BY <1>4

LEMMA BelowIsFinite ==
    ASSUME NEW S \in SUBSET Nat, NEW i \in Nat
    PROVE  /\ IsFiniteSet({j \in S : j < i})
           /\ Cardinality({j \in S : j < i}) \in Nat
           /\ Cardinality({j \in S : j < i}) = 0 <=> {j \in S : j < i} = {}
<1>. \A j \in S : j \in Nat
    OBVIOUS
<1>1. IsFiniteSet(0..i)
    BY FS_Interval
<1>2. ASSUME NEW j \in {h \in S : h < i} PROVE j \in 0..i
    OBVIOUS
<1>3. IsFiniteSet({j \in S : j < i})
    BY <1>1, <1>2, FS_Subset
<1> QED BY <1>3, FS_CardinalityType, FS_EmptySet

LEMMA FirstIsSome ==
    ASSUME NEW S \in SUBSET Nat, NEW n \in Nat \ {0}
    PROVE  /\ First(n, S) \subseteq S
           /\ S # {} => First(n, S) # {}
<1>. \A j \in S : j \in Nat
    OBVIOUS
<1>1. ASSUME S # {} PROVE First(n, S) # {}
    <2>1. PICK i \in S : \A j \in S : i <= j
        BY <1>1, LeastItem
    <2>2. ASSUME NEW j \in {h \in S : h < i} PROVE FALSE
        BY <2>1
    <2>3. {j \in S : j < i} = {}
        BY <2>2
    <2>4. Cardinality({j \in S : j < i}) = 0
        BY <2>3, FS_EmptySet, Zenon
    <2> QED BY <2>4 DEF First
<1> QED BY <1>1 DEF First

LEMMA FirstIsLeast ==
    ASSUME NEW S \in SUBSET Nat, NEW i \in First(1, S)
    PROVE  i \in S /\ \A j \in S : i <= j
<1>. \A j \in S : j \in Nat
    OBVIOUS
<1>1. i \in S /\ Cardinality({j \in S : j < i}) < 1
    BY DEF First
<1>2. {j \in S : j < i} = {}
    BY <1>1, BelowIsFinite
<1> QED BY <1>1, <1>2

\* Of consecutive items the lane takes the next one.
LEMMA FirstOfRange ==
    ASSUME NEW a \in Nat, NEW b \in Nat
    PROVE  First(1, a..b) = IF a <= b THEN {a} ELSE {}
<1> DEFINE S == a..b
           F == First(1, S)
<1>1. S \in SUBSET Nat
    OBVIOUS
<1>2. F \subseteq S /\ (S # {} => F # {})
    BY <1>1, FirstIsSome
<1>3. ASSUME NEW i \in F PROVE i = a
    <2>1. i \in S /\ \A j \in S : i <= j
        BY <1>1, FirstIsLeast
    <2> HIDE DEF F
    <2> QED BY <2>1
<1> HIDE DEF F
<1>4. CASE a <= b
    <2>1. a \in S
        BY <1>4
    <2>2. F # {}
        BY <1>2, <2>1
    <2>3. F = {a}
        BY <1>3, <2>2
    <2> QED BY <1>4, <2>3 DEF F
<1>5. CASE ~(a <= b)
    <2>1. S = {}
        BY <1>5
    <2>2. F = {}
        BY <1>2, <2>1
    <2> QED BY <1>5, <2>2 DEF F
<1> QED BY <1>4, <1>5

LEMMA Sizes ==
    ASSUME kind \in Kinds
    PROVE  /\ N \in Nat \ {0} /\ BodyOf \in Nat \ {0} /\ laneCount \in Nat \ {0}
           /\ kind \in {"sequential", "foreach", "parallel"}
           /\ kind = "parallel" => BodyOf = 1
           /\ kind = "sequential" => laneCount = 1
           /\ Asking \subseteq Items /\ Optional \cap Asking = {}
           /\ Items \in SUBSET Nat
BY FanOutAssumption DEF BodyOf, laneCount, Items

\* What a call takes up are items of the construct.
LEMMA ItemsOfCall ==
    ASSUME TypeOK
    PROVE  /\ freshItems \subseteq Items /\ First(laneCount, freshItems) \subseteq freshItems
           /\ \A k \in StepKeys : /\ k[1] \in Items /\ k[2] \in 1..BodyOf /\ k = <<k[1], k[2]>>
                                  /\ reentryItems(k) \subseteq Items
                                  /\ reentryClaim(k) \subseteq reentryItems(k)
                                  /\ k[1] \in reentryItems(k)
<1>1. kind \in Kinds /\ history \subseteq Items
    BY DEF TypeOK
<1>2. freshItems \subseteq Items
    BY <1>1, Sizes DEF freshItems, fromFirstMissing
<1>3. First(laneCount, freshItems) \subseteq freshItems
    BY <1>1, <1>2, Sizes, FirstIsSome
<1>4. ASSUME NEW k \in StepKeys
      PROVE  /\ k[1] \in Items /\ k[2] \in 1..BodyOf /\ k = <<k[1], k[2]>>
             /\ reentryItems(k) \subseteq Items
             /\ reentryClaim(k) \subseteq reentryItems(k)
             /\ k[1] \in reentryItems(k)
    <2>1. k[1] \in Items /\ k[2] \in 1..BodyOf /\ k = <<k[1], k[2]>>
        BY DEF StepKeys
    <2>2. k[1]..N \subseteq Items /\ k[1] \in k[1]..N
        BY <2>1, <1>1, Sizes DEF Items
    <2>3. reentryItems(k) \subseteq Items /\ k[1] \in reentryItems(k)
        BY <2>1, <2>2 DEF reentryItems, extraToRun
    <2>4. First(1, reentryItems(k)) \subseteq reentryItems(k)
        BY <2>3, <1>1, Sizes, FirstIsSome
    <2> QED BY <2>1, <2>3, <2>4 DEF reentryClaim
<1> QED BY <1>2, <1>3, <1>4

-----------------------------------------------------------------------------
(* Type correctness.                                                        *)

\* The workflow does not change under a run.
LEMMA KindStays ==
    ASSUME [Next]_vars
    PROVE  kind' = kind /\ StepKeys' = StepKeys /\ BodyOf' = BodyOf
<1>1. kind' = kind
    <2>1. CASE UNCHANGED vars
        BY <2>1 DEF vars
    <2>2. CASE \E i \in Items : ItemStep(i)
        BY <2>2 DEF ItemStep, StartStep, EndStep, CheckpointItem
    <2>3. CASE Settle
        BY <2>3 DEF Settle, SettleCancelled, SettleCrashed, CrashRun, SettleBlocked, CompleteNode,
                    CompleteRun, AbandonBlocked
    <2>4. CASE Commands
        BY <2>4 DEF Commands, Resume, Cancel, Answer
    <2>5. CASE Crash \/ Reconcile
        BY <2>5 DEF Crash, Reconcile
    <2> QED BY <2>1, <2>2, <2>3, <2>4, <2>5 DEF Next
<1>2. BodyOf' = BodyOf
    BY <1>1 DEF BodyOf
<1> QED BY <1>1, <1>2 DEF StepKeys

\* An event changes one step (step-state.ts).
LEMMA RecordType ==
    ASSUME TypeOK, NEW k \in StepKeys, NEW s \in StepStates, Record(k, s)
    PROVE  steps' \in [StepKeys -> StepStates]
BY DEF Record, TypeOK

LEMMA ClosingType ==
    ASSUME TypeOK, NEW s \in StepStates
    PROVE  closeOpen(s) \in [StepKeys -> StepStates]
BY DEF closeOpen, TypeOK

\* A lane settles an item and may claim another (scheduler.ts).
LEMMA LaneType ==
    ASSUME TypeOK, NEW i \in Items, NEW o \in Outcomes, LaneGoesOn(i, o)
    PROVE  /\ outcome' \in [Items -> Outcomes] /\ stopped' \in BOOLEAN /\ results' \subseteq Items
           /\ toRun' \subseteq toRun /\ pc' \in [Items -> PCs]
<1>1. outcome' \in [Items -> Outcomes] /\ pc' \in [Items -> PCs] /\ results' \subseteq Items
    BY DEF LaneGoesOn, TypeOK, PCs
<1>2. stopped' \in BOOLEAN
    BY DEF LaneGoesOn, TypeOK, Stops
<1>3. toRun' \subseteq toRun
    BY DEF LaneGoesOn
<1> QED BY <1>1, <1>2, <1>3

LEMMA StepKeyType ==
    ASSUME TypeOK, NEW i \in Items
    PROVE  StepKey(i) \in StepKeys /\ StepKey(i) = <<i, at[i]>> /\ at[i] \in 1..BodyOf
BY DEF StepKey, StepKeys, TypeOK

LEMMA ForgetsType ==
    ASSUME TypeOK, Forgets
    PROVE  /\ target' \in StepKeys \union {Fresh} /\ toRun' \subseteq Items /\ pc' \in [Items -> PCs]
           /\ at' \in [Items -> 1..BodyOf] /\ outcome' \in [Items -> Outcomes]
           /\ results' \subseteq Items /\ stopped' \in BOOLEAN /\ still' \subseteq StepKeys
<1>1. 1 \in 1..BodyOf
    BY Sizes DEF TypeOK
<1> QED BY <1>1 DEF Forgets, TypeOK, PCs, Outcomes

LEMMA CountsOn == \A n \in Nat : n + 1 \in Nat
OBVIOUS

LEMMA StartCallType ==
    ASSUME TypeOK, NEW k \in StepKeys \union {Fresh}, NEW items, NEW claimed,
           items \subseteq Items, StartCall(k, items, claimed)
    PROVE  /\ phase' = "walking" /\ target' \in StepKeys \union {Fresh} /\ toRun' \subseteq Items
           /\ pc' \in [Items -> PCs] /\ outcome' \in [Items -> Outcomes] /\ stopped' \in BOOLEAN
           /\ aborted' \in BOOLEAN /\ report' = "none" /\ calls' \in Nat
<1>1. calls' \in Nat
    BY CountsOn DEF StartCall, TypeOK
<1>2. pc' \in [Items -> PCs] /\ outcome' \in [Items -> Outcomes]
    BY DEF StartCall, PCs, Outcomes
<1> QED BY <1>1, <1>2 DEF StartCall, TypeOK

LEMMA TypeInit == Init => TypeOK
<1> SUFFICES ASSUME Init PROVE TypeOK
    OBVIOUS
<1>1. kind \in Kinds
    BY DEF Init
<1>2. 1 \in 1..BodyOf
    BY <1>1, Sizes
<1>3. /\ pc \in [Items -> PCs] /\ outcome \in [Items -> Outcomes] /\ at \in [Items -> 1..BodyOf]
      /\ steps \in [StepKeys -> StepStates]
    BY <1>2 DEF Init, PCs, Outcomes, StepStates
<1> QED BY <1>1, <1>3 DEF Init, TypeOK

LEMMA TypeNext == TypeOK /\ [Next]_vars => TypeOK'
<1> SUFFICES ASSUME TypeOK, [Next]_vars PROVE TypeOK'
    OBVIOUS
<1>0. StepKeys' = StepKeys /\ BodyOf' = BodyOf /\ kind' = kind
    BY KindStays
<1>1. CASE UNCHANGED vars
    BY <1>1, <1>0 DEF TypeOK, vars, memory, log, bounds
<1>2. ASSUME NEW i \in Items, StartStep(i) PROVE TypeOK'
    <2>1. CASE LaneGoesOn(i, "cancelled") /\ UNCHANGED steps
        <3>1. "cancelled" \in Outcomes
            BY DEF Outcomes
        <3> QED BY <2>1, <3>1, <1>2, <1>0, LaneType DEF TypeOK, StartStep, bounds
    <2>2. CASE /\ pc' = [pc EXCEPT ![i] = "executing"]
               /\ IF Reentered(i) THEN UNCHANGED steps ELSE Record(StepKey(i), "in_progress")
               /\ UNCHANGED <<outcome, stopped, results, toRun>>
        <3>1. steps' \in [StepKeys -> StepStates]
            BY <2>2, StepKeyType, RecordType DEF TypeOK, StepStates
        <3> QED BY <2>2, <3>1, <1>2, <1>0 DEF TypeOK, StartStep, PCs, bounds
    <2> QED BY <1>2, <2>1, <2>2 DEF StartStep
<1>3. ASSUME NEW i \in Items, NEW o \in {"ok", "failed", "blocked", "crashed", "cancelled"}, EndStep(i, o)
      PROVE  TypeOK'
    <2>1. steps' \in [StepKeys -> StepStates]
        <3>1. Record(StepKey(i), "completed") \/ Record(StepKey(i), "crashed")
              \/ Record(StepKey(i), "blocked") \/ UNCHANGED steps
            BY <1>3 DEF EndStep
        <3> QED BY <3>1, StepKeyType, RecordType DEF TypeOK, StepStates
    <2>2. outputs' \subseteq StepKeys
        BY <1>3, StepKeyType DEF EndStep, TypeOK
    <2>3. CASE UNCHANGED <<outcome, stopped, results, toRun>> /\ pc' = [pc EXCEPT ![i] = "boundary"]
               /\ at' = [at EXCEPT ![i] = @ + 1] /\ at[i] < BodyOf
        <3>1. at[i] + 1 \in 1..BodyOf
            BY <2>3, Sizes, StepKeyType DEF TypeOK
        <3> QED BY <2>1, <2>2, <2>3, <3>1, <1>3, <1>0 DEF TypeOK, EndStep, PCs, bounds
    <2>4. CASE UNCHANGED <<outcome, stopped, results, toRun, at>> /\ pc' = [pc EXCEPT ![i] = "checkpointing"]
        BY <2>1, <2>2, <2>4, <1>3, <1>0 DEF TypeOK, EndStep, PCs, bounds
    <2>5. CASE LaneGoesOn(i, IF o \in {"ok", "failed"} THEN "ok" ELSE o) /\ UNCHANGED at
        <3>1. (IF o \in {"ok", "failed"} THEN "ok" ELSE o) \in Outcomes
            BY DEF Outcomes
        <3> QED BY <2>1, <2>2, <2>5, <3>1, <1>3, <1>0, LaneType DEF TypeOK, EndStep, bounds
    <2> QED BY <1>3, <2>3, <2>4, <2>5 DEF EndStep
<1>4. ASSUME NEW i \in Items, CheckpointItem(i) PROVE TypeOK'
    <2>1. "ok" \in Outcomes
        BY DEF Outcomes
    <2> QED BY <2>1, <1>4, <1>0, LaneType DEF TypeOK, CheckpointItem, bounds
<1>5. CASE SettleCancelled \/ SettleBlocked \/ CrashRun \/ CompleteRun
    <2>1. Forgets /\ phase' = "returned" /\ report' \in {"none", "blocked", "completed", "crashed", "cancelled"}
        BY <1>5 DEF SettleCancelled, SettleBlocked, CrashRun, CompleteRun, Returns
    <2>2. /\ UNCHANGED <<kind, aborted, outputs, history, nodeDone, bounds>>
          /\ steps' \in [StepKeys -> StepStates] /\ terminal' \in {"none", "completed", "crashed", "cancelled"}
        BY <1>5, ClosingType DEF SettleCancelled, SettleBlocked, CrashRun, CompleteRun, TypeOK, StepStates, log
    <2> QED BY <2>1, <2>2, <1>0, ForgetsType DEF TypeOK, bounds
<1>6. CASE SettleCrashed
    <2>1. still' \subseteq StepKeys
        BY <1>6, StepKeyType DEF SettleCrashed, TypeOK
    <2> QED BY <2>1, <1>6, <1>0 DEF SettleCrashed, TypeOK, log, bounds
<1>7. CASE CompleteNode
    BY <1>7, <1>0 DEF CompleteNode, TypeOK, memory, bounds
<1>8. ASSUME NEW k \in StepKeys, AbandonBlocked(k) PROVE TypeOK'
    <2>1. steps' \in [StepKeys -> StepStates]
        BY <1>8, RecordType DEF AbandonBlocked, StepStates
    <2> QED BY <2>1, <1>8, <1>0 DEF AbandonBlocked, TypeOK, bounds
<1>9. ASSUME NEW k \in StepKeys, Answer(k) PROVE TypeOK'
    <2>1. steps' \in [StepKeys -> StepStates]
        BY <1>9 DEF Answer, TypeOK, StepStates
    <2>2. at' \in [Items -> 1..BodyOf]
        <3>1. 1 \in 1..BodyOf /\ k[2] \in 1..BodyOf
            BY ItemsOfCall, Sizes DEF TypeOK
        <3> QED BY <1>9, <3>1 DEF Answer
    <2>3. still' \subseteq StepKeys /\ results' \subseteq Items
        BY <1>9 DEF Answer, stillBlocked, pendingBlocks, Recovered, TypeOK
    <2>4. reentryItems(k) \subseteq Items
        BY ItemsOfCall
    <2>5. StartCall(k, reentryItems(k), reentryClaim(k))
        BY <1>9 DEF Answer
    <2> QED BY <2>1, <2>2, <2>3, <2>4, <2>5, <1>9, <1>0, StartCallType DEF Answer, TypeOK
<1>10. CASE Resume
    <2>1. at' \in [Items -> 1..BodyOf]
        BY <1>10, Sizes DEF Resume, TypeOK
    <2>2. still' \subseteq StepKeys /\ results' \subseteq Items
        BY <1>10 DEF Resume
    <2>3. CASE StartCall(Fresh, freshItems, First(laneCount, freshItems))
        <3>1. freshItems \subseteq Items
            BY ItemsOfCall
        <3> QED BY <2>1, <2>2, <2>3, <3>1, <1>10, <1>0, StartCallType DEF Resume, TypeOK, log
    <2>4. CASE phase' = "completing" /\ aborted' = FALSE /\ report' = "none" /\ calls' = calls + 1
               /\ UNCHANGED <<target, toRun, pc, outcome, stopped>>
        <3>1. calls' \in Nat
            BY <2>4, CountsOn DEF TypeOK
        <3> QED BY <2>1, <2>2, <2>4, <3>1, <1>10, <1>0 DEF Resume, TypeOK, log
    <2> QED BY <1>10, <2>3, <2>4 DEF Resume
<1>11. CASE Cancel
    BY <1>11, <1>0, ClosingType DEF Cancel, TypeOK, StepStates, memory
<1>12. CASE Crash
    <2>1. crashes' \in Nat
        BY <1>12, CountsOn DEF Crash, TypeOK
    <2> QED BY <2>1, <1>12, <1>0, ForgetsType DEF Crash, TypeOK, log
<1>13. CASE Reconcile
    BY <1>13, <1>0, ClosingType DEF Reconcile, TypeOK, StepStates, memory, bounds
<1> QED BY <1>1, <1>2, <1>3, <1>4, <1>5, <1>6, <1>7, <1>8, <1>9, <1>10, <1>11, <1>12, <1>13
        DEF Next, ItemStep, Settle, Commands

\* Every variable of the model keeps its type, whatever the construct and its size: an item's step
\* never runs past its body, and nothing outside the construct is claimed or recorded.
THEOREM TypeCorrect == Spec => []TypeOK
BY TypeInit, TypeNext, PTL DEF Spec

-----------------------------------------------------------------------------
(* What a step of the engine does to the items, pointwise.                  *)

\* The items a lane claims once an item has settled with o.
LaneClaims(o) == IF stopped \/ Stops(o) THEN {} ELSE First(1, toRun)

LEMMA LaneEffect ==
    ASSUME TypeOK, NEW i \in Items, NEW o, LaneGoesOn(i, o)
    PROVE  /\ LaneClaims(o) \subseteq toRun /\ toRun' = toRun \ LaneClaims(o)
           /\ ~stopped /\ ~Stops(o) /\ toRun # {} => LaneClaims(o) # {}
           /\ LaneClaims(o) # {} => ~stopped /\ ~Stops(o)
           /\ pc'[i] = "settled" /\ outcome'[i] = o
           /\ \A j \in Items \ {i} : /\ pc'[j] = IF j \in LaneClaims(o) THEN "boundary" ELSE pc[j]
                                     /\ outcome'[j] = outcome[j]
           /\ stopped' = (stopped \/ Stops(o))
           /\ results' = IF o = "ok" THEN results \union {i} ELSE results
<1>1. toRun \in SUBSET Nat
    BY Sizes DEF TypeOK
<1>2. First(1, toRun) \subseteq toRun /\ (toRun # {} => First(1, toRun) # {})
    BY <1>1, FirstIsSome
<1>3. /\ outcome' = [outcome EXCEPT ![i] = o]
      /\ pc' = [j \in Items |-> IF j = i THEN "settled"
                                ELSE IF j \in LaneClaims(o) THEN "boundary" ELSE pc[j]]
      /\ toRun' = toRun \ LaneClaims(o)
      /\ stopped' = (stopped \/ Stops(o))
      /\ results' = IF o = "ok" THEN results \union {i} ELSE results
    BY DEF LaneGoesOn, LaneClaims
<1>4. /\ pc'[i] = "settled" /\ outcome'[i] = o
      /\ \A j \in Items \ {i} : /\ pc'[j] = IF j \in LaneClaims(o) THEN "boundary" ELSE pc[j]
                                /\ outcome'[j] = outcome[j]
    BY <1>3 DEF TypeOK
<1> QED BY <1>2, <1>3, <1>4 DEF LaneClaims

\* An item leaves a lane: where it stood, and the outcome it settles with.
Settles(i, o) ==
    /\ LaneGoesOn(i, o) /\ Working(i) /\ o \in Outcomes \ {"none"}
    /\ UNCHANGED <<kind, phase, target, at, still, report, aborted, nodeDone, terminal>>

\* A call starts over the given items.
Starts(step, items, claimed) ==
    /\ phase = "returned"
    /\ phase' = "walking" /\ target' = step /\ toRun' = items \ claimed
    /\ \A i \in Items : pc'[i] = IF i \in claimed THEN "boundary" ELSE "out"
    /\ \A i \in Items : outcome'[i] = "none"
    /\ ~stopped' /\ ~aborted' /\ report' = "none"
    /\ UNCHANGED <<kind, outputs, history, nodeDone, terminal>>

\* The memory of a call is dropped.
Drops ==
    /\ target' = Fresh /\ toRun' = {} /\ results' = {} /\ ~stopped' /\ still' = {}
    /\ \A i \in Items : pc'[i] = "out" /\ at'[i] = 1 /\ outcome'[i] = "none"

LEMMA DropsEffect == Forgets => Drops
BY DEF Forgets, Drops

LEMMA StartEffect ==
    ASSUME NEW step, NEW items, NEW claimed, StartCall(step, items, claimed), phase = "returned",
           UNCHANGED <<kind, outputs, history, nodeDone, terminal>>
    PROVE  Starts(step, items, claimed)
BY DEF StartCall, Starts

\* A step of the engine is one of these, whichever action it is.
LEMMA ItemCases ==
    ASSUME TypeOK, NEW i \in Items, ItemStep(i)
    PROVE  /\ UNCHANGED <<kind, phase, target, still, report, aborted, nodeDone, terminal>>
           /\ \/ /\ pc[i] = "boundary" /\ aborted /\ Settles(i, "cancelled")
                 /\ UNCHANGED <<steps, outputs, history>>
              \/ /\ pc[i] = "boundary" /\ pc' = [pc EXCEPT ![i] = "executing"]
                 /\ IF Reentered(i) THEN UNCHANGED steps ELSE Record(StepKey(i), "in_progress")
                 /\ UNCHANGED <<outcome, stopped, results, toRun, at, outputs, history>>
              \/ \E o \in {"ok", "failed", "blocked", "crashed", "cancelled"} : EndStep(i, o)
              \/ /\ pc[i] = "checkpointing" /\ Settles(i, "ok")
                 /\ history' = IF aborted THEN history ELSE history \union {i}
                 /\ UNCHANGED <<steps, outputs>>
<1>1. CASE StartStep(i)
    BY <1>1 DEF StartStep, Settles, Working, Outcomes
<1>2. CASE CheckpointItem(i)
    BY <1>2 DEF CheckpointItem, Settles, Working, Outcomes
<1>3. CASE \E o \in {"ok", "failed", "blocked", "crashed", "cancelled"} : EndStep(i, o)
    BY <1>3 DEF EndStep
<1> QED BY <1>1, <1>2, <1>3 DEF ItemStep

\* How the step of an item ends.
LEMMA EndCases ==
    ASSUME TypeOK, NEW i \in Items, NEW o \in {"ok", "failed", "blocked", "crashed", "cancelled"},
           EndStep(i, o)
    PROVE  /\ UNCHANGED <<kind, phase, target, still, report, aborted, history, nodeDone, terminal>>
           /\ pc[i] = "executing" /\ o \in MaySettle(i)
           /\ outputs' = IF o = "ok" /\ ~aborted THEN outputs \union {StepKey(i)} ELSE outputs
           /\ \/ aborted /\ UNCHANGED steps
              \/ ~aborted /\ o = "ok" /\ steps' = [steps EXCEPT ![StepKey(i)] = "completed"]
              \/ ~aborted /\ o = "failed" /\ steps' = [steps EXCEPT ![StepKey(i)] = "crashed"]
              \/ ~aborted /\ o = "blocked" /\ steps' = [steps EXCEPT ![StepKey(i)] = "blocked"]
              \/ o \in {"crashed", "cancelled"} /\ UNCHANGED steps
           /\ \/ /\ o \in {"ok", "failed"} /\ at[i] < BodyOf
                 /\ pc' = [pc EXCEPT ![i] = "boundary"] /\ at' = [at EXCEPT ![i] = @ + 1]
                 /\ UNCHANGED <<outcome, stopped, results, toRun>>
              \/ /\ o \in {"ok", "failed"} /\ at[i] = BodyOf /\ kind # "parallel"
                 /\ pc' = [pc EXCEPT ![i] = "checkpointing"]
                 /\ UNCHANGED <<outcome, stopped, results, toRun, at>>
              \/ o \in {"ok", "failed"} /\ kind = "parallel" /\ at[i] = BodyOf /\ Settles(i, "ok")
              \/ o \notin {"ok", "failed"} /\ Settles(i, o)
<1>1. at[i] \in 1..BodyOf /\ BodyOf \in Nat
    BY Sizes, StepKeyType DEF TypeOK
<1>2. o \notin {"ok", "failed"} => LaneGoesOn(i, o) /\ UNCHANGED at
    BY DEF EndStep
<1>3. CASE o \in {"ok", "failed"}
    <2>1. CASE at[i] < BodyOf
        BY <1>3, <2>1 DEF EndStep, Record
    <2>2. CASE ~(at[i] < BodyOf)
        <3>1. at[i] = BodyOf
            BY <1>1, <2>2
        <3>2. CASE kind = "parallel"
            BY <1>3, <2>2, <3>1, <3>2 DEF EndStep, Record, Settles, Working, Outcomes
        <3>3. CASE kind # "parallel"
            BY <1>3, <2>2, <3>1, <3>3 DEF EndStep, Record
        <3> QED BY <3>2, <3>3
    <2> QED BY <2>1, <2>2
<1>4. CASE o \notin {"ok", "failed"}
    BY <1>2, <1>4 DEF EndStep, Record, Settles, Working, Outcomes
<1> QED BY <1>3, <1>4

\* What a step may come to (execute.ts, runStepNodeBody).
LEMMA MaySettleCases ==
    ASSUME NEW i \in Items, NEW o \in MaySettle(i)
    PROVE  /\ o = "blocked" => i \in Asking
           /\ o = "failed" => i \in Optional
           /\ o = "cancelled" => aborted
BY DEF MaySettle

LEMMA CloseEffect ==
    ASSUME NEW s, NEW k \in StepKeys
    PROVE  closeOpen(s)[k] = IF steps[k] \in {"in_progress", "blocked"} THEN s ELSE steps[k]
BY DEF closeOpen

-----------------------------------------------------------------------------
(* The parts of the invariant, one by one.                                  *)

\* Working is a matter of where the item stands.
LEMMA WorkingStays ==
    ASSUME NEW i \in Items, pc'[i] = pc[i]
    PROVE  Working(i)' <=> Working(i)
BY DEF Working

LEMMA ItemsSettleOnceNext ==
    ASSUME TypeOK, ItemsSettleOnce, [Next]_vars
    PROVE  ItemsSettleOnce'
<1>0. StepKeys' = StepKeys /\ BodyOf' = BodyOf /\ kind' = kind
    BY KindStays
<1> USE DEF ItemsSettleOnce
<1>1. CASE UNCHANGED vars
    BY <1>1, <1>0 DEF vars, memory, Working
<1>2. ASSUME NEW i \in Items, ItemStep(i) PROVE ItemsSettleOnce'
    <2>1. ASSUME NEW o, Settles(i, o) PROVE ItemsSettleOnce'
        <3>1. phase = "walking" /\ phase' = "walking" /\ at' = at
            BY <2>1 DEF Settles, TypeOK
        <3>2. /\ LaneClaims(o) \subseteq toRun /\ toRun' = toRun \ LaneClaims(o)
              /\ pc'[i] = "settled" /\ outcome'[i] = o /\ o # "none"
              /\ \A j \in Items \ {i} : /\ pc'[j] = IF j \in LaneClaims(o) THEN "boundary" ELSE pc[j]
                                        /\ outcome'[j] = outcome[j]
            BY <2>1, LaneEffect DEF Settles
        <3>3. pc[i] \notin {"out", "settled"} /\ i \notin toRun
            BY <2>1 DEF Settles, Working
        <3>4. \A j \in toRun' : pc'[j] = "out"
            BY <3>2, <3>3 DEF TypeOK
        <3>5. \A j \in Items : pc'[j] = "settled" <=> outcome'[j] # "none"
            BY <3>2, <3>3 DEF TypeOK
        <3>6. \A j \in Items : pc'[j] = "checkpointing" => kind' # "parallel" /\ at'[j] = BodyOf'
            BY <3>1, <3>2, <1>0
        <3>7. \A j \in Items : pc'[j] = "out" => at'[j] = 1
            BY <3>1, <3>2
        <3> QED BY <3>1, <3>4, <3>5, <3>6, <3>7
    <2>2. CASE /\ pc[i] = "boundary" /\ pc' = [pc EXCEPT ![i] = "executing"] /\ phase' = phase
               /\ UNCHANGED <<outcome, stopped, results, toRun, at>>
        BY <2>2, <1>0 DEF TypeOK, Working
    <2>3. ASSUME NEW o \in {"ok", "failed", "blocked", "crashed", "cancelled"}, EndStep(i, o)
          PROVE  ItemsSettleOnce'
        <3>1. /\ pc[i] = "executing" /\ phase' = phase /\ target' = target /\ still' = still
              /\ \/ /\ pc' = [pc EXCEPT ![i] = "boundary"] /\ at' = [at EXCEPT ![i] = @ + 1]
                    /\ UNCHANGED <<outcome, stopped, results, toRun>>
                 \/ /\ at[i] = BodyOf /\ kind # "parallel" /\ pc' = [pc EXCEPT ![i] = "checkpointing"]
                    /\ UNCHANGED <<outcome, stopped, results, toRun, at>>
                 \/ Settles(i, "ok") \/ Settles(i, o)
            BY <2>3, EndCases
        <3>2. phase = "walking" /\ pc[i] # "settled" /\ i \notin toRun /\ i \in Items
            BY <3>1 DEF Working, TypeOK
        <3>3. CASE /\ pc' = [pc EXCEPT ![i] = "boundary"] /\ at' = [at EXCEPT ![i] = @ + 1]
                   /\ UNCHANGED <<outcome, stopped, results, toRun>>
            BY <3>1, <3>2, <3>3, <1>0 DEF TypeOK
        <3>4. CASE /\ at[i] = BodyOf /\ kind # "parallel" /\ pc' = [pc EXCEPT ![i] = "checkpointing"]
                   /\ UNCHANGED <<outcome, stopped, results, toRun, at>>
            BY <3>1, <3>2, <3>4, <1>0 DEF TypeOK
        <3> QED BY <3>1, <3>3, <3>4, <2>1
    <2> QED BY <1>2, <2>1, <2>2, <2>3, ItemCases
<1>3. CASE SettleCancelled \/ SettleBlocked \/ CrashRun \/ CompleteRun \/ Crash
    <2>1. Drops /\ (phase' = "returned" \/ (phase' = "down" /\ report' = "none" /\ ~aborted'))
        BY <1>3, DropsEffect DEF SettleCancelled, SettleBlocked, CrashRun, CompleteRun, Crash, Returns
    <2> QED BY <2>1, <1>0 DEF Drops, Working
<1>4. CASE SettleCrashed \/ CompleteNode \/ \E k \in StepKeys : AbandonBlocked(k)
    <2>1. /\ UNCHANGED <<target, toRun, pc, at, outcome, results, stopped>>
          /\ phase' \in {"draining", "completing"}
        BY <1>4 DEF SettleCrashed, CompleteNode, AbandonBlocked, memory
    <2>2. \A i \in Items : ~Working(i)
        BY <1>4 DEF SettleCrashed, CompleteNode, AbandonBlocked, LanesDone, Working
    <2> QED BY <2>1, <2>2, <1>0 DEF Working
<1>5. ASSUME NEW k \in StepKeys, Answer(k) PROVE ItemsSettleOnce'
    <2>1. Starts(k, reentryItems(k), reentryClaim(k))
        BY <1>5, StartEffect DEF Answer
    <2>2. /\ reentryClaim(k) \subseteq Items /\ reentryItems(k) \subseteq Items
          /\ k[2] \in 1..BodyOf
          /\ kind # "parallel" => reentryClaim(k) = {k[1]}
        BY ItemsOfCall DEF reentryClaim
    <2>3. \A i \in Items : pc'[i] = "out" => at'[i] = 1
        <3>0. \A i \in Items : at'[i] = IF i = k[1] THEN k[2] ELSE 1
            BY <1>5 DEF Answer
        <3>1. CASE kind = "parallel"
            <4>1. k[2] = 1
                BY <3>1, <2>2, Sizes DEF TypeOK
            <4> QED BY <3>0, <4>1
        <3>2. CASE kind # "parallel"
            BY <3>0, <2>1, <2>2, <3>2 DEF Starts
        <3> QED BY <3>1, <3>2
    <2> QED BY <2>1, <2>2, <2>3, <1>0 DEF Starts
<1>6. CASE Resume
    <2>1. CASE StartCall(Fresh, freshItems, First(laneCount, freshItems))
        <3>1. Starts(Fresh, freshItems, First(laneCount, freshItems))
            BY <1>6, <2>1, StartEffect DEF Resume, log
        <3>2. \A i \in Items : at'[i] = 1
            BY <1>6 DEF Resume
        <3> QED BY <3>1, <3>2, <1>0, ItemsOfCall DEF Starts
    <2>2. CASE phase' = "completing" /\ UNCHANGED <<target, toRun, pc, outcome, stopped>>
        BY <1>6, <2>2, <1>0 DEF Resume, Working
    <2> QED BY <1>6, <2>1, <2>2 DEF Resume
<1>7. CASE Cancel
    BY <1>7, <1>0 DEF Cancel, memory, Working
<1>8. CASE Reconcile
    BY <1>8, <1>0 DEF Reconcile, memory, Working
<1> QED BY <1>1, <1>2, <1>3, <1>4, <1>5, <1>6, <1>7, <1>8 DEF Next, Settle, Commands

LEMMA LanesKeepGoingNext ==
    ASSUME TypeOK, ItemsSettleOnce, LanesKeepGoing, [Next]_vars
    PROVE  LanesKeepGoing'
<1>0. StepKeys' = StepKeys /\ BodyOf' = BodyOf /\ kind' = kind
    BY KindStays
<1> USE DEF LanesKeepGoing
<1>1. CASE UNCHANGED vars
    BY <1>1, <1>0 DEF vars, memory, Working, Some
<1>2. ASSUME NEW i \in Items, ItemStep(i) PROVE LanesKeepGoing'
    <2>1. ASSUME NEW o, Settles(i, o), o = "cancelled" => aborted PROVE LanesKeepGoing'
        <3>1. /\ LaneClaims(o) \subseteq toRun /\ toRun' = toRun \ LaneClaims(o)
              /\ ~stopped /\ ~Stops(o) /\ toRun # {} => LaneClaims(o) # {}
              /\ LaneClaims(o) # {} => ~stopped /\ ~Stops(o)
              /\ pc'[i] = "settled" /\ outcome'[i] = o
              /\ \A j \in Items \ {i} : /\ pc'[j] = IF j \in LaneClaims(o) THEN "boundary" ELSE pc[j]
                                        /\ outcome'[j] = outcome[j]
              /\ stopped' = (stopped \/ Stops(o))
            BY <2>1, LaneEffect DEF Settles
        <3>2. /\ Working(i) /\ o \in {"ok", "blocked", "crashed", "cancelled"}
              /\ UNCHANGED <<kind, phase, target, aborted>>
            BY <2>1 DEF Settles, Outcomes
        <3>3. i \notin toRun /\ outcome[i] = "none" /\ toRun \subseteq Items
            BY <3>2 DEF ItemsSettleOnce, Working, TypeOK
        <3>4. phase' = "walking" /\ ~stopped' /\ toRun' # {} => \E j \in Items : Working(j)'
            <4>1. SUFFICES ASSUME ~stopped', toRun' # {} PROVE \E j \in Items : Working(j)'
                OBVIOUS
            <4>2. PICK j \in LaneClaims(o) : TRUE
                BY <3>1, <4>1
            <4>3. j \in Items /\ j # i /\ pc'[j] = "boundary"
                BY <3>1, <3>3, <4>2
            <4> QED BY <4>3 DEF Working
        <3>5. Stops(o) => o \in {"cancelled", "crashed"} \/ (kind = "sequential" /\ o = "blocked")
            BY <3>2 DEF Stops
        <3>6. stopped' => \E j \in Items :
                    outcome'[j] \in {"cancelled", "crashed"} \/ (kind' = "sequential" /\ outcome'[j] = "blocked")
            <4>1. CASE stopped
                <5>1. PICK j \in Items :
                        outcome[j] \in {"cancelled", "crashed"} \/ (kind = "sequential" /\ outcome[j] = "blocked")
                    BY <4>1
                <5>2. j # i
                    BY <5>1, <3>3
                <5> QED BY <5>1, <5>2, <3>1, <1>0
            <4>2. CASE Stops(o)
                BY <4>2, <3>1, <3>5, <1>0
            <4> QED BY <3>1, <4>1, <4>2
        <3>7. target' = Fresh /\ Some("crashed")' => stopped'
            <4>1. target = Fresh /\ o = "crashed" => Stops(o)
                BY DEF Stops, Fresh
            <4>2. Some("crashed")' => o = "crashed" \/ Some("crashed")
                BY <3>1 DEF Some
            <4> QED BY <4>1, <4>2, <3>1, <3>2
        <3>8. Some("cancelled")' => aborted'
            <4>1. Some("cancelled")' => o = "cancelled" \/ Some("cancelled")
                BY <3>1 DEF Some
            <4> QED BY <4>1, <2>1, <3>2
        <3>9. kind' = "sequential" => \A j \in Items : outcome'[j] \notin {"none", "ok"} => stopped'
            <4>1. kind = "sequential" /\ o # "ok" => Stops(o)
                BY DEF Stops
            <4> QED BY <4>1, <3>1, <1>0
        <3> QED BY <3>4, <3>6, <3>7, <3>8, <3>9
    <2>2. ASSUME pc[i] \in {"boundary", "executing"}, NEW p \in {"boundary", "executing", "checkpointing"},
                 pc' = [pc EXCEPT ![i] = p],
                 UNCHANGED <<phase, target, aborted, outcome, stopped, results, toRun>>
          PROVE  LanesKeepGoing'
        <3>1. \A j \in Items : Working(j) => Working(j)'
            BY <2>2 DEF TypeOK, Working
        <3>2. Some("crashed")' = Some("crashed") /\ Some("cancelled")' = Some("cancelled")
            BY <2>2 DEF Some
        <3> QED BY <2>2, <3>1, <3>2, <1>0
    <2>3. ASSUME NEW o \in {"ok", "failed", "blocked", "crashed", "cancelled"}, EndStep(i, o)
          PROVE  LanesKeepGoing'
        <3>1. /\ pc[i] = "executing" /\ UNCHANGED <<phase, target, aborted>>
              /\ \/ /\ pc' = [pc EXCEPT ![i] = "boundary"]
                    /\ UNCHANGED <<outcome, stopped, results, toRun>>
                 \/ /\ pc' = [pc EXCEPT ![i] = "checkpointing"]
                    /\ UNCHANGED <<outcome, stopped, results, toRun, at>>
                 \/ Settles(i, "ok") \/ Settles(i, o)
            BY <2>3, EndCases
        <3>2. o = "cancelled" => aborted
            BY <2>3 DEF EndStep, MaySettle
        <3> QED BY <3>1, <3>2, <2>1, <2>2
    <2> QED BY <1>2, <2>1, <2>2, <2>3, ItemCases
<1>3. CASE SettleCancelled \/ SettleBlocked \/ CrashRun \/ CompleteRun \/ Crash
    <2>1. Drops
        BY <1>3, DropsEffect DEF SettleCancelled, SettleBlocked, CrashRun, CompleteRun, Crash, Returns
    <2> QED BY <2>1, <1>0 DEF Drops, Some
<1>4. CASE SettleCrashed \/ CompleteNode \/ \E k \in StepKeys : AbandonBlocked(k)
    <2>1. /\ UNCHANGED <<target, toRun, pc, at, outcome, results, stopped, aborted>>
          /\ phase' \in {"draining", "completing"}
        BY <1>4 DEF SettleCrashed, CompleteNode, AbandonBlocked, memory
    <2> QED BY <2>1, <1>0 DEF Some
<1>5. ASSUME NEW step \in StepKeys \union {Fresh}, NEW S, NEW C, Starts(step, S, C),
             S \subseteq Items, S # {} => C \cap S # {}
      PROVE  LanesKeepGoing'
    <2>1. S # {} => \E j \in Items : Working(j)'
        BY <1>5 DEF Starts, Working
    <2> QED BY <1>5, <2>1, <1>0 DEF Starts, Some
<1>6. ASSUME NEW k \in StepKeys, Answer(k) PROVE LanesKeepGoing'
    <2>1. Starts(k, reentryItems(k), reentryClaim(k))
        BY <1>6, StartEffect DEF Answer
    <2>2. reentryItems(k) \subseteq Items /\ k[1] \in reentryItems(k)
        BY ItemsOfCall
    <2>3. First(1, reentryItems(k)) # {} /\ First(1, reentryItems(k)) \subseteq reentryItems(k)
        BY <2>2, Sizes, FirstIsSome DEF TypeOK
    <2>4. reentryClaim(k) \cap reentryItems(k) # {}
        BY <2>2, <2>3 DEF reentryClaim
    <2> QED BY <2>1, <2>2, <2>4, <1>5
<1>7. CASE Resume
    <2>1. CASE StartCall(Fresh, freshItems, First(laneCount, freshItems))
        <3>1. Starts(Fresh, freshItems, First(laneCount, freshItems))
            BY <1>7, <2>1, StartEffect DEF Resume, log
        <3>2. freshItems \subseteq Items
            BY ItemsOfCall
        <3>3. First(laneCount, freshItems) \subseteq freshItems
              /\ (freshItems # {} => First(laneCount, freshItems) # {})
            BY <3>2, Sizes, FirstIsSome DEF TypeOK
        <3> QED BY <3>1, <3>2, <3>3, <1>5
    <2>2. CASE phase' = "completing" /\ UNCHANGED <<target, toRun, pc, outcome, stopped>>
        <3>1. \A i \in Items : outcome[i] = "none"
            BY <1>7 DEF Resume, ItemsSettleOnce
        <3> QED BY <1>7, <2>2, <3>1, <1>0 DEF Resume, Some, ItemsSettleOnce
    <2> QED BY <1>7, <2>1, <2>2 DEF Resume
<1>8. CASE Cancel
    BY <1>8, <1>0 DEF Cancel, memory, Working, Some
<1>9. CASE Reconcile
    BY <1>9, <1>0 DEF Reconcile, memory, Working, Some
<1> QED BY <1>1, <1>2, <1>3, <1>4, <1>6, <1>7, <1>8, <1>9 DEF Next, Settle, Commands

LEMMA StepsInOrderNext ==
    ASSUME TypeOK, ItemsSettleOnce, StepsInOrder, OpenStepsAreHeld, [Next]_vars
    PROVE  StepsInOrder'
<1>0. StepKeys' = StepKeys /\ BodyOf' = BodyOf /\ kind' = kind
    BY KindStays
<1> USE DEF StepsInOrder
\* The steps that are recorded, where nothing else is.
<1>1. ASSUME outputs \subseteq outputs', UNCHANGED <<history>>,
             \A k \in StepKeys : steps'[k] # "todo" /\ k[1] \notin Optional =>
                    steps[k] # "todo" \/ \A s \in 1..(k[2] - 1) : <<k[1], s>> \in outputs,
             \A k \in StepKeys : steps'[k] = "completed" => steps[k] = "completed" \/ k \in outputs',
             \A k \in StepKeys : steps'[k] = "blocked" => steps[k] = "blocked" \/ k[1] \notin Optional,
             ~aborted' => \A i \in Items \ Optional :
                /\ Working(i)' => \A s \in 1..(at'[i] - 1) : <<i, s>> \in outputs'
                /\ pc'[i] = "checkpointing" => <<i, at'[i]>> \in outputs'
      PROVE  StepsInOrder'
    BY <1>1, <1>0
<1>2. CASE UNCHANGED vars
    BY <1>2, <1>0 DEF vars, memory, log, Working
<1>3. ASSUME NEW i \in Items, ItemStep(i) PROVE StepsInOrder'
    <2>1. /\ StepKey(i) = <<i, at[i]>> /\ StepKey(i) \in StepKeys /\ at[i] \in 1..BodyOf
          /\ BodyOf \in Nat
        BY StepKeyType, Sizes DEF TypeOK
    <2>2. ASSUME NEW o, Settles(i, o)
          PROVE  ~aborted' => \A j \in Items \ Optional :
                    /\ Working(j)' => \A s \in 1..(at'[j] - 1) : <<j, s>> \in outputs
                    /\ pc'[j] = "checkpointing" => <<j, at'[j]>> \in outputs
        <3>1. /\ LaneClaims(o) \subseteq toRun /\ pc'[i] = "settled"
              /\ \A j \in Items \ {i} : pc'[j] = IF j \in LaneClaims(o) THEN "boundary" ELSE pc[j]
            BY <2>2, LaneEffect DEF Settles
        <3>2. at' = at /\ aborted' = aborted
            BY <2>2 DEF Settles
        <3>3. ASSUME ~aborted, NEW j \in Items \ Optional
              PROVE  /\ Working(j)' => \A s \in 1..(at[j] - 1) : <<j, s>> \in outputs
                     /\ pc'[j] = "checkpointing" => <<j, at[j]>> \in outputs
            <4>1. CASE j = i
                BY <4>1, <3>1 DEF Working
            <4>2. CASE j # i /\ j \in LaneClaims(o)
                <5>1. pc[j] = "out" /\ pc'[j] = "boundary"
                    BY <4>2, <3>1 DEF ItemsSettleOnce
                <5>2. 1..(at[j] - 1) = {}
                    BY <5>1 DEF ItemsSettleOnce
                <5> QED BY <5>1, <5>2
            <4>3. CASE j # i /\ j \notin LaneClaims(o)
                BY <4>3, <3>1, <3>3 DEF Working
            <4> QED BY <4>1, <4>2, <4>3
        <3> QED BY <3>2, <3>3
    <2>3. ASSUME Settles(i, "cancelled"), UNCHANGED <<steps, outputs, history>> PROVE StepsInOrder'
        BY <2>2, <2>3, <1>1 DEF Settles
    <2>4. CASE /\ pc[i] = "boundary" /\ pc' = [pc EXCEPT ![i] = "executing"] /\ aborted' = aborted
               /\ IF Reentered(i) THEN UNCHANGED steps ELSE Record(StepKey(i), "in_progress")
               /\ UNCHANGED <<outcome, stopped, results, toRun, at, outputs, history>>
        <3>1. CASE UNCHANGED steps
            BY <2>4, <3>1, <1>1 DEF Working, TypeOK
        <3>2. CASE ~aborted /\ steps' = [steps EXCEPT ![StepKey(i)] = "in_progress"]
            <4>1. i \notin Optional => \A s \in 1..(at[i] - 1) : <<i, s>> \in outputs
                BY <2>4, <3>2 DEF Working
            <4>2. /\ steps'[StepKey(i)] = "in_progress"
                  /\ \A k \in StepKeys \ {StepKey(i)} : steps'[k] = steps[k]
                BY <3>2, <2>1 DEF TypeOK
            <4>3. ~aborted' => \A j \in Items \ Optional :
                    /\ Working(j)' => \A s \in 1..(at'[j] - 1) : <<j, s>> \in outputs'
                    /\ pc'[j] = "checkpointing" => <<j, at'[j]>> \in outputs'
                BY <2>4 DEF Working, TypeOK
            <4> QED BY <2>1, <2>4, <4>1, <4>2, <4>3, <1>1
        <3> QED BY <2>4, <3>1, <3>2 DEF Record
    <2>5. ASSUME NEW o \in {"ok", "failed", "blocked", "crashed", "cancelled"}, EndStep(i, o)
          PROVE  StepsInOrder'
        <3>1. /\ UNCHANGED <<aborted, history>>
              /\ pc[i] = "executing" /\ o \in MaySettle(i)
              /\ outputs' = IF o = "ok" /\ ~aborted THEN outputs \union {StepKey(i)} ELSE outputs
              /\ \/ UNCHANGED steps
                 \/ ~aborted /\ o = "ok" /\ steps' = [steps EXCEPT ![StepKey(i)] = "completed"]
                 \/ ~aborted /\ o = "failed" /\ steps' = [steps EXCEPT ![StepKey(i)] = "crashed"]
                 \/ ~aborted /\ o = "blocked" /\ steps' = [steps EXCEPT ![StepKey(i)] = "blocked"]
              /\ \/ /\ o \in {"ok", "failed"}
                    /\ pc' = [pc EXCEPT ![i] = "boundary"] /\ at' = [at EXCEPT ![i] = @ + 1]
                 \/ /\ o \in {"ok", "failed"}
                    /\ pc' = [pc EXCEPT ![i] = "checkpointing"] /\ at' = at
                 \/ Settles(i, "ok") \/ Settles(i, o)
            BY <2>5, EndCases
        <3>2. /\ o = "blocked" => i \notin Optional
              /\ o = "failed" => i \in Optional
            BY <3>1, MaySettleCases, Sizes DEF TypeOK
        <3>3. ~aborted /\ i \notin Optional => \A s \in 1..(at[i] - 1) : <<i, s>> \in outputs
            BY <3>1 DEF Working
        <3>4. /\ \A k \in StepKeys : steps'[k] # "todo" /\ k[1] \notin Optional =>
                        steps[k] # "todo" \/ \A s \in 1..(k[2] - 1) : <<k[1], s>> \in outputs
              /\ \A k \in StepKeys : steps'[k] = "completed" => steps[k] = "completed" \/ k \in outputs'
              /\ \A k \in StepKeys : steps'[k] = "blocked" => steps[k] = "blocked" \/ k[1] \notin Optional
            <4>1. CASE UNCHANGED steps
                BY <4>1
            <4>2. CASE ~aborted /\ \/ o = "ok" /\ steps' = [steps EXCEPT ![StepKey(i)] = "completed"]
                                   \/ o = "failed" /\ steps' = [steps EXCEPT ![StepKey(i)] = "crashed"]
                                   \/ o = "blocked" /\ steps' = [steps EXCEPT ![StepKey(i)] = "blocked"]
                <5>1. /\ \A k \in StepKeys \ {StepKey(i)} : steps'[k] = steps[k]
                      /\ o = "ok" => steps'[StepKey(i)] = "completed"
                      /\ o = "failed" => steps'[StepKey(i)] = "crashed"
                      /\ o = "blocked" => steps'[StepKey(i)] = "blocked"
                      /\ o \in {"ok", "failed", "blocked"}
                    BY <4>2, <2>1 DEF TypeOK
                <5>2. o = "ok" => StepKey(i) \in outputs'
                    BY <4>2, <3>1
                <5> QED BY <5>1, <5>2, <4>2, <3>2, <3>3, <2>1
            <4> QED BY <3>1, <4>1, <4>2
        <3>5. ~aborted' => \A j \in Items \ Optional :
                    /\ Working(j)' => \A s \in 1..(at'[j] - 1) : <<j, s>> \in outputs'
                    /\ pc'[j] = "checkpointing" => <<j, at'[j]>> \in outputs'
            <4>1. ASSUME ~aborted, o \in {"ok", "failed"}, NEW p \in {"boundary", "checkpointing"},
                         pc' = [pc EXCEPT ![i] = p], \A j \in Items \ {i} : at'[j] = at[j],
                         \/ p = "boundary" /\ at'[i] = at[i] + 1
                         \/ p = "checkpointing" /\ at'[i] = at[i],
                         NEW j \in Items \ Optional
                  PROVE  /\ Working(j)' => \A s \in 1..(at'[j] - 1) : <<j, s>> \in outputs'
                         /\ pc'[j] = "checkpointing" => <<j, at'[j]>> \in outputs'
                <5>1. CASE j = i
                    <6>1. o = "ok" /\ outputs' = outputs \union {<<i, at[i]>>}
                        BY <4>1, <5>1, <3>1, <3>2, <2>1
                    <6>2. \A s \in 1..at[i] : <<i, s>> \in outputs'
                        BY <6>1, <5>1, <4>1, <3>3, <2>1
                    <6>3. pc'[i] = p
                        BY <4>1 DEF TypeOK
                    <6> QED BY <6>2, <6>3, <5>1, <4>1, <2>1
                <5>2. CASE j # i
                    <6>1. pc'[j] = pc[j] /\ at'[j] = at[j] /\ outputs \subseteq outputs'
                        BY <5>2, <4>1, <3>1 DEF TypeOK
                    <6> QED BY <6>1, <4>1 DEF Working
                <5> QED BY <5>1, <5>2
            <4>2. CASE o \in {"ok", "failed"} /\ pc' = [pc EXCEPT ![i] = "boundary"] /\ at' = [at EXCEPT ![i] = @ + 1]
                <5>1. at'[i] = at[i] + 1 /\ \A j \in Items \ {i} : at'[j] = at[j]
                    BY <4>2 DEF TypeOK
                <5> QED BY <5>1, <4>1, <4>2, <3>1
            <4>3. CASE o \in {"ok", "failed"} /\ pc' = [pc EXCEPT ![i] = "checkpointing"] /\ at' = at
                BY <4>1, <4>3, <3>1
            <4>4. CASE Settles(i, "ok") \/ Settles(i, o)
                <5>1. outputs \subseteq outputs'
                    BY <3>1
                <5> QED BY <4>4, <5>1, <2>2
            <4> QED BY <3>1, <4>2, <4>3, <4>4
        <3>6. outputs \subseteq outputs'
            BY <3>1
        <3> QED BY <3>1, <3>4, <3>5, <3>6, <1>1
    <2>6. CASE /\ pc[i] = "checkpointing" /\ Settles(i, "ok")
               /\ history' = IF aborted THEN history ELSE history \union {i}
               /\ UNCHANGED <<steps, outputs>>
        <3>1. ~aborted /\ i \notin Optional => \A s \in 1..BodyOf : <<i, s>> \in outputs
            <4>1. at[i] = BodyOf
                BY <2>6 DEF ItemsSettleOnce
            <4>2. ~aborted /\ i \notin Optional =>
                    <<i, at[i]>> \in outputs /\ \A s \in 1..(at[i] - 1) : <<i, s>> \in outputs
                BY <2>6 DEF Working
            <4> QED BY <4>1, <4>2, <2>1
        <3>2. \A j \in history' \ Optional : \A s \in 1..BodyOf : <<j, s>> \in outputs
            BY <3>1, <2>6
        <3>3. ~aborted' => \A j \in Items \ Optional :
                    /\ Working(j)' => \A s \in 1..(at'[j] - 1) : <<j, s>> \in outputs
                    /\ pc'[j] = "checkpointing" => <<j, at'[j]>> \in outputs
            BY <2>2, <2>6
        <3> QED BY <3>2, <3>3, <2>6, <1>0
    <2> QED BY <1>3, <2>3, <2>4, <2>5, <2>6, ItemCases
<1>4. CASE SettleCancelled \/ SettleBlocked \/ CrashRun \/ CompleteRun \/ Crash
    <2>1. Drops
        BY <1>4, DropsEffect DEF SettleCancelled, SettleBlocked, CrashRun, CompleteRun, Crash, Returns
    <2>2. UNCHANGED <<outputs, history>> /\ (UNCHANGED steps \/ steps' = closeOpen("crashed"))
        BY <1>4 DEF SettleCancelled, SettleBlocked, CrashRun, CompleteRun, Crash, log
    <2>3. \A k \in StepKeys : steps'[k] # steps[k] => steps'[k] = "crashed" /\ steps[k] # "todo"
        BY <2>2, CloseEffect
    <2>4. \A i \in Items : ~Working(i)' /\ pc'[i] # "checkpointing"
        BY <2>1 DEF Drops, Working
    <2> QED BY <2>2, <2>3, <2>4, <1>1
<1>5. CASE SettleCrashed \/ CompleteNode
    BY <1>5, <1>0 DEF SettleCrashed, CompleteNode, memory, log, Working
<1>6. ASSUME NEW k \in StepKeys, AbandonBlocked(k) PROVE StepsInOrder'
    <2>1. UNCHANGED <<pc, at, outputs, history, aborted>> /\ k \in still /\ Record(k, "cancelled")
        BY <1>6 DEF AbandonBlocked
    <2>2. \A l \in StepKeys : steps'[l] # steps[l] => steps'[l] = "cancelled" /\ steps[l] # "todo"
        BY <2>1 DEF Record, OpenStepsAreHeld, TypeOK
    <2> QED BY <2>1, <2>2, <1>1 DEF Working
<1>7. ASSUME NEW k \in StepKeys, Answer(k) PROVE StepsInOrder'
    <2>1. /\ steps[k] = "blocked" /\ steps' = [steps EXCEPT ![k] = "in_progress"]
          /\ at' = [i \in Items |-> IF i = k[1] THEN k[2] ELSE 1]
          /\ Starts(k, reentryItems(k), reentryClaim(k)) /\ UNCHANGED <<outputs, history>>
        BY <1>7, StartEffect DEF Answer
    <2>2. \A l \in StepKeys : steps'[l] # steps[l] => steps'[l] = "in_progress" /\ steps[l] # "todo"
        BY <2>1 DEF TypeOK
    <2>3. \A i \in Items \ Optional : /\ \A s \in 1..(at'[i] - 1) : <<i, s>> \in outputs
                                      /\ pc'[i] # "checkpointing"
        <3>1. ASSUME NEW i \in Items \ Optional, NEW s \in 1..(at'[i] - 1) PROVE <<i, s>> \in outputs
            <4>1. i = k[1] /\ at'[i] = k[2]
                BY <2>1, <3>1
            <4> QED BY <4>1, <2>1, <3>1
        <3> QED BY <3>1, <2>1 DEF Starts
    <2> QED BY <2>1, <2>2, <2>3, <1>1
<1>8. CASE Resume
    <2>1. UNCHANGED <<steps, outputs, history>> /\ \A i \in Items : at'[i] = 1
        BY <1>8 DEF Resume, log
    <2>2. \A i \in Items : pc'[i] # "checkpointing"
        <3>1. CASE StartCall(Fresh, freshItems, First(laneCount, freshItems))
            BY <1>8, <3>1 DEF StartCall
        <3>2. CASE UNCHANGED pc
            BY <1>8, <3>2 DEF Resume, ItemsSettleOnce
        <3> QED BY <1>8, <3>1, <3>2 DEF Resume
    <2>3. \A i \in Items : 1..(at'[i] - 1) = {}
        BY <2>1
    <2> QED BY <2>1, <2>2, <2>3, <1>1
<1>9. CASE Cancel
    <2>1. UNCHANGED <<pc, at, outputs, history>> /\ steps' = closeOpen("cancelled") /\ ~aborted
        BY <1>9 DEF Cancel, memory
    <2>2. \A k \in StepKeys : steps'[k] # steps[k] => steps'[k] = "cancelled" /\ steps[k] # "todo"
        BY <2>1, CloseEffect
    <2> QED BY <2>1, <2>2, <1>1 DEF Working
<1>10. CASE Reconcile
    <2>1. /\ UNCHANGED <<pc, at, outputs, history, aborted>>
          /\ UNCHANGED steps \/ steps' = closeOpen("crashed")
        BY <1>10 DEF Reconcile, memory
    <2>2. \A k \in StepKeys : steps'[k] # steps[k] => steps'[k] = "crashed" /\ steps[k] # "todo"
        BY <2>1, CloseEffect
    <2> QED BY <2>1, <2>2, <1>1 DEF Working
<1> QED BY <1>2, <1>3, <1>4, <1>5, <1>6, <1>7, <1>8, <1>9, <1>10 DEF Next, Settle, Commands

\* Two names are no step of a body: a foreach finds no blocked sibling (concurrent-nodes.ts:399).
LEMMA SiblingKeyOfStep ==
    ASSUME TypeOK, NEW k \in StepKeys, SiblingKey(k[1]) = k
    PROVE  kind = "parallel" /\ k = <<k[1], 1>>
<1>1. k \in Items \X (1..BodyOf)
    BY DEF StepKeys
<1>2. <<k[1]>> # k
    <2>1. PICK a \in Items, b \in 1..BodyOf : k = <<a, b>>
        BY <1>1
    <2>2. DOMAIN <<a, b>> = 1..2 /\ DOMAIN <<k[1]>> = 1..1
        OBVIOUS
    <2>3. 2 \in DOMAIN <<a, b>> /\ 2 \notin DOMAIN <<k[1]>>
        BY <2>2
    <2> QED BY <2>1, <2>3
<1> QED BY <1>2 DEF SiblingKey

\* Once the lanes are done and nobody was cancelled or crashed, no step is in progress and no item
\* is left (concurrent-nodes.ts, settleConcurrent).
LEMMA NothingUnderWay ==
    ASSUME TypeOK, ItemsSettleOnce, LanesKeepGoing, OpenStepsAreHeld,
           LanesDone, ~Some("cancelled"), ~Some("crashed")
    PROVE  /\ \A k \in StepKeys : steps[k] # "in_progress"
           /\ kind # "sequential" \/ ~Some("blocked") => toRun = {}
<1>1. \A i \in Items : ~Working(i) /\ outcome[i] \notin {"cancelled", "crashed"}
    BY DEF LanesDone, Working, Some
<1>2. kind # "sequential" \/ ~Some("blocked") => toRun = {}
    BY <1>1 DEF LanesDone, LanesKeepGoing, Some
<1>3. ASSUME NEW k \in StepKeys, steps[k] = "in_progress" PROVE FALSE
    <2>1. k[1] \in Items
        BY ItemsOfCall
    <2>2. k[1] \in toRun /\ kind = "parallel"
        BY <1>1, <1>3, <2>1 DEF OpenStepsAreHeld, LanesDone, Working
    <2> QED BY <2>2, <1>2
<1> QED BY <1>2, <1>3

LEMMA OpenStepsAreHeldNext ==
    ASSUME TypeOK, ItemsSettleOnce, LanesKeepGoing, OpenStepsAreHeld, ReportsTheLog, [Next]_vars
    PROVE  OpenStepsAreHeld'
<1>0. StepKeys' = StepKeys /\ BodyOf' = BodyOf /\ kind' = kind
    BY KindStays
<1> USE DEF OpenStepsAreHeld
<1>1. CASE UNCHANGED vars
    BY <1>1, <1>0 DEF vars, memory, log
<1>2. ASSUME NEW i \in Items, ItemStep(i) PROVE OpenStepsAreHeld'
    <2>0. \A k \in StepKeys : k[1] \in Items /\ k[2] \in 1..BodyOf /\ k = <<k[1], k[2]>>
        BY ItemsOfCall
    <2>1. /\ StepKey(i) = <<i, at[i]>> /\ StepKey(i) \in StepKeys
          /\ UNCHANGED <<kind, phase, target, still, report, aborted, nodeDone, terminal>>
          /\ phase = "walking" /\ outcome[i] = "none" /\ i \notin toRun /\ pc[i] # "out"
        <3>1. Working(i)
            BY <1>2 DEF ItemStep, StartStep, EndStep, CheckpointItem, Working
        <3> QED BY <3>1, <1>2, ItemCases, StepKeyType DEF ItemsSettleOnce, Working, TypeOK
    \* An item that settles, its own step being out of progress.
    <2>2. ASSUME NEW o, Settles(i, o),
                 \A k \in StepKeys : k[1] # i => steps'[k] = steps[k],
                 \A k \in StepKeys : k[1] = i /\ steps'[k] = "in_progress" => o = "crashed" /\ at[i] = k[2],
                 aborted => UNCHANGED steps,
                 o = "blocked" /\ ~aborted => steps'[<<i, at[i]>>] = "blocked"
          PROVE  OpenStepsAreHeld'
        <3>1. /\ LaneClaims(o) \subseteq toRun /\ toRun' = toRun \ LaneClaims(o)
              /\ pc'[i] = "settled" /\ outcome'[i] = o
              /\ \A j \in Items \ {i} : /\ pc'[j] = IF j \in LaneClaims(o) THEN "boundary" ELSE pc[j]
                                        /\ outcome'[j] = outcome[j]
              /\ at' = at
            BY <2>2, LaneEffect DEF Settles
        <3>2. ASSUME NEW k \in StepKeys, steps'[k] = "in_progress"
              PROVE  /\ at'[k[1]] = k[2]
                     /\ \/ pc'[k[1]] = "executing" \/ outcome'[k[1]] = "crashed"
                        \/ k = target /\ pc'[k[1]] = "boundary"
                        \/ k = target /\ k[1] \in toRun' /\ kind = "parallel"
            <4>1. CASE k[1] = i
                BY <4>1, <3>1, <3>2, <2>2
            <4>2. CASE k[1] # i
                <5>1. steps[k] = "in_progress" /\ k[1] \in Items \ {i}
                    BY <4>2, <3>2, <2>2, <2>0
                <5>2. /\ at[k[1]] = k[2]
                      /\ \/ pc[k[1]] = "executing" \/ outcome[k[1]] = "crashed"
                         \/ k = target /\ pc[k[1]] = "boundary"
                         \/ k = target /\ k[1] \in toRun /\ kind = "parallel"
                    BY <5>1, <2>1
                <5>3. k[1] \in LaneClaims(o) => pc[k[1]] = "out" /\ outcome[k[1]] = "none"
                    BY <5>1, <3>1 DEF ItemsSettleOnce
                <5> QED BY <5>1, <5>2, <5>3, <3>1
            <4> QED BY <4>1, <4>2
        <3>3. \A k \in still : kind = "parallel" /\ k[1] \notin toRun' /\ pc'[k[1]] = "out" /\ k[1] # i
            BY <3>1, <2>0, <2>1 DEF TypeOK
        <3>4. ~aborted => \A k \in still : steps'[k] = "blocked"
            BY <3>3, <2>2 DEF TypeOK
        <3>5. ~aborted => \A j \in Items : outcome'[j] = "blocked" => steps'[<<j, at'[j]>>] = "blocked"
            <4>1. ASSUME ~aborted, NEW j \in Items \ {i}, outcome'[j] = "blocked"
                  PROVE  steps'[<<j, at'[j]>>] = "blocked"
                <5>1. steps[<<j, at[j]>>] = "blocked"
                    BY <4>1, <3>1, <2>1
                <5>2. <<j, at[j]>> \in StepKeys
                    BY StepKeyType
                <5> QED BY <5>1, <5>2, <2>2, <3>1, <4>1
            <4> QED BY <4>1, <3>1, <2>2
        <3> QED BY <3>2, <3>3, <3>4, <3>5, <2>1, <2>2, <1>0
    <2>3. CASE Settles(i, "cancelled") /\ aborted /\ UNCHANGED steps
        BY <2>2, <2>3
    <2>4. CASE pc[i] = "checkpointing" /\ Settles(i, "ok") /\ UNCHANGED steps
        <3>1. \A k \in StepKeys : k[1] = i => steps[k] # "in_progress"
            BY <2>1, <2>4
        <3> QED BY <3>1, <2>2, <2>4
    <2>5. CASE /\ pc[i] = "boundary" /\ pc' = [pc EXCEPT ![i] = "executing"]
               /\ IF Reentered(i) THEN UNCHANGED steps ELSE Record(StepKey(i), "in_progress")
               /\ UNCHANGED <<outcome, stopped, results, toRun, at, outputs, history>>
        <3>1. \A k \in StepKeys : k # StepKey(i) => steps'[k] = steps[k]
            BY <2>5, <2>1 DEF Record, TypeOK
        <3>2. pc'[i] = "executing" /\ \A j \in Items \ {i} : pc'[j] = pc[j]
            BY <2>5 DEF TypeOK
        <3>3. aborted => UNCHANGED steps
            BY <2>5 DEF Record
        <3>4. ASSUME NEW k \in StepKeys, steps'[k] = "in_progress"
              PROVE  /\ at[k[1]] = k[2]
                     /\ \/ pc'[k[1]] = "executing" \/ outcome[k[1]] = "crashed"
                        \/ k = target /\ pc'[k[1]] = "boundary"
                        \/ k = target /\ k[1] \in toRun /\ kind = "parallel"
            <4>1. CASE k = StepKey(i)
                BY <4>1, <3>2, <2>1, <2>0
            <4>2. CASE k # StepKey(i)
                <5>1. steps[k] = "in_progress" /\ k[1] \in Items
                    BY <4>2, <3>1, <3>4, <2>0
                <5>2. at[k[1]] = k[2]
                    BY <5>1, <2>1
                <5>3. k[1] # i
                    BY <4>2, <5>2, <2>0, <2>1
                <5> QED BY <5>1, <5>3, <3>2, <2>1
            <4> QED BY <4>1, <4>2
        <3>5. \A k \in still : k # StepKey(i) /\ k[1] # i
            BY <2>0, <2>1 DEF TypeOK
        <3>6. ~aborted => \A j \in Items : outcome[j] = "blocked" =>
                    steps'[<<j, at[j]>>] = "blocked"
            <4>1. ASSUME ~aborted, NEW j \in Items, outcome[j] = "blocked" PROVE steps'[<<j, at[j]>>] = "blocked"
                <5>1. j # i /\ <<j, at[j]>> \in StepKeys /\ steps[<<j, at[j]>>] = "blocked"
                    BY <4>1, <2>1, StepKeyType
                <5> QED BY <5>1, <3>1, <2>1
            <4> QED BY <4>1
        <3>7. \A k \in still : k[1] \in Items /\ pc'[k[1]] = "out" /\ steps'[k] = steps[k]
            BY <3>1, <3>2, <3>5, <2>0, <2>1 DEF TypeOK
        <3> QED BY <3>3, <3>4, <3>6, <3>7, <2>1, <2>5, <1>0
    <2>6. ASSUME NEW o \in {"ok", "failed", "blocked", "crashed", "cancelled"}, EndStep(i, o)
          PROVE  OpenStepsAreHeld'
        <3>1. /\ pc[i] = "executing" /\ o \in MaySettle(i)
              /\ \/ aborted /\ UNCHANGED steps
                 \/ ~aborted /\ o = "ok" /\ steps' = [steps EXCEPT ![StepKey(i)] = "completed"]
                 \/ ~aborted /\ o = "failed" /\ steps' = [steps EXCEPT ![StepKey(i)] = "crashed"]
                 \/ ~aborted /\ o = "blocked" /\ steps' = [steps EXCEPT ![StepKey(i)] = "blocked"]
                 \/ o \in {"crashed", "cancelled"} /\ UNCHANGED steps
              /\ \/ /\ o \in {"ok", "failed"}
                    /\ pc' = [pc EXCEPT ![i] = "boundary"] /\ at' = [at EXCEPT ![i] = @ + 1]
                    /\ UNCHANGED <<outcome, stopped, results, toRun>>
                 \/ /\ o \in {"ok", "failed"} /\ pc' = [pc EXCEPT ![i] = "checkpointing"]
                    /\ UNCHANGED <<outcome, stopped, results, toRun, at>>
                 \/ o \in {"ok", "failed"} /\ Settles(i, "ok")
                 \/ o \notin {"ok", "failed"} /\ Settles(i, o)
            BY <2>6, EndCases
        <3>2. o = "cancelled" => aborted
            BY <3>1, MaySettleCases
        <3>3. /\ \A k \in StepKeys : k # StepKey(i) => steps'[k] = steps[k]
              /\ steps'[StepKey(i)] = "in_progress" => steps[StepKey(i)] = "in_progress" /\ o \in {"crashed", "cancelled"}
              /\ o = "blocked" /\ ~aborted => steps'[StepKey(i)] = "blocked"
              /\ aborted => UNCHANGED steps
            BY <3>1, <2>1 DEF TypeOK
        <3>4. \A k \in StepKeys : k[1] = i /\ steps'[k] = "in_progress" => o = "crashed" /\ at[i] = k[2]
            <4>1. ASSUME NEW k \in StepKeys, k[1] = i, steps'[k] = "in_progress"
                  PROVE  o = "crashed" /\ at[i] = k[2]
                <5>1. steps[k] = "in_progress"
                    BY <4>1, <3>3
                <5>2. at[i] = k[2] /\ ~aborted
                    BY <5>1, <4>1, <2>1
                <5>3. k = StepKey(i)
                    BY <5>2, <4>1, <2>0, <2>1
                <5> QED BY <5>2, <5>3, <4>1, <3>2, <3>3
            <4> QED BY <4>1
        <3>5. \A k \in StepKeys : k[1] # i => k # StepKey(i)
            BY <2>1
        <3>6. ASSUME o \in {"ok", "failed"}, NEW p \in {"boundary", "checkpointing"}, pc' = [pc EXCEPT ![i] = p],
                     \A j \in Items \ {i} : at'[j] = at[j], UNCHANGED <<outcome, stopped, results, toRun>>
              PROVE  OpenStepsAreHeld'
            <4>1. \A j \in Items \ {i} : pc'[j] = pc[j]
                BY <3>6 DEF TypeOK
            <4>2. \A k \in StepKeys : steps'[k] = "in_progress" => k[1] \in Items \ {i} /\ steps[k] = "in_progress"
                BY <3>3, <3>4, <3>5, <3>6, <2>0
            <4>3. \A k \in still : k[1] \in Items \ {i} /\ k \in StepKeys
                BY <2>0, <2>1 DEF TypeOK
            <4>4. \A k \in still : k[1] \notin toRun' /\ pc'[k[1]] = "out" /\ steps'[k] = steps[k]
                BY <4>1, <4>3, <3>3, <3>5, <3>6, <2>1
            <4>5. ~aborted => \A j \in Items : outcome'[j] = "blocked" => steps'[<<j, at'[j]>>] = "blocked"
                <5>1. ASSUME ~aborted, NEW j \in Items, outcome[j] = "blocked" PROVE steps'[<<j, at'[j]>>] = "blocked"
                    <6>1. j # i /\ <<j, at[j]>> \in StepKeys /\ steps[<<j, at[j]>>] = "blocked"
                        BY <5>1, <2>1, StepKeyType
                    <6> QED BY <6>1, <3>3, <3>6, <2>1
                <5> QED BY <5>1, <3>6
            <4>6. \A k \in StepKeys : steps'[k] = "in_progress" =>
                        /\ at'[k[1]] = k[2]
                        /\ \/ pc'[k[1]] = "executing" \/ outcome'[k[1]] = "crashed"
                           \/ k = target /\ pc'[k[1]] = "boundary"
                           \/ k = target /\ k[1] \in toRun' /\ kind = "parallel"
                BY <4>1, <4>2, <3>6, <2>1
            <4> QED BY <4>4, <4>5, <4>6, <3>3, <2>1, <1>0
        <3>7. CASE o \in {"ok", "failed"} /\ pc' = [pc EXCEPT ![i] = "boundary"] /\ at' = [at EXCEPT ![i] = @ + 1]
                   /\ UNCHANGED <<outcome, stopped, results, toRun>>
            <4>1. \A j \in Items \ {i} : at'[j] = at[j]
                BY <3>7 DEF TypeOK
            <4> QED BY <4>1, <3>6, <3>7
        <3>8. CASE o \in {"ok", "failed"} /\ Settles(i, "ok")
            BY <3>8, <3>3, <3>4, <3>5, <2>1, <2>2
        <3>9. CASE o \notin {"ok", "failed"} /\ Settles(i, o)
            BY <3>9, <3>3, <3>4, <3>5, <2>1, <2>2
        <3> QED BY <3>1, <3>6, <3>7, <3>8, <3>9
    <2>7. \/ Settles(i, "cancelled") /\ aborted /\ UNCHANGED steps
          \/ /\ pc[i] = "boundary" /\ pc' = [pc EXCEPT ![i] = "executing"]
             /\ IF Reentered(i) THEN UNCHANGED steps ELSE Record(StepKey(i), "in_progress")
             /\ UNCHANGED <<outcome, stopped, results, toRun, at, outputs, history>>
          \/ \E o \in {"ok", "failed", "blocked", "crashed", "cancelled"} : EndStep(i, o)
          \/ pc[i] = "checkpointing" /\ Settles(i, "ok") /\ UNCHANGED steps
        <3> HIDE DEF OpenStepsAreHeld
        <3> QED BY <1>2, ItemCases
    <2> QED BY <2>3, <2>4, <2>5, <2>6, <2>7

<1>3. CASE SettleCancelled \/ SettleBlocked \/ CrashRun \/ CompleteRun
    <2>1. Drops /\ phase' = "returned" /\ aborted' = aborted
        BY <1>3, DropsEffect DEF SettleCancelled, SettleBlocked, CrashRun, CompleteRun, Returns
    <2>2. \A k \in StepKeys : steps'[k] # "in_progress"
        <3>1. CASE SettleCancelled
            BY <3>1, <1>0 DEF SettleCancelled, LanesKeepGoing, log
        <3>2. CASE SettleBlocked
            BY <3>2, NothingUnderWay DEF SettleBlocked, log
        <3>3. CASE CrashRun
            BY <3>3, CloseEffect DEF CrashRun
        <3>4. CASE CompleteRun
            BY <3>4 DEF CompleteRun, ReportsTheLog
        <3> QED BY <1>3, <3>1, <3>2, <3>3, <3>4
    <2>3. aborted => UNCHANGED <<steps, terminal>>
        BY <1>3 DEF SettleCancelled, SettleBlocked, CrashRun, CompleteRun, log
    <2> QED BY <2>1, <2>2, <2>3, <1>0 DEF Drops
<1>4. CASE Crash
    <2>1. Drops /\ phase' = "down" /\ ~aborted'
        BY <1>4, DropsEffect DEF Crash
    <2> QED BY <2>1 DEF Drops
<1>5. CASE SettleCrashed
    <2>1. /\ UNCHANGED <<target, toRun, pc, at, outcome, aborted, steps, terminal>> /\ phase = "walking"
          /\ phase' = "draining"
          /\ still' = still \union {StepKey(i) : i \in {j \in Items : outcome[j] = "blocked"}}
        BY <1>5 DEF SettleCrashed, log, LanesDone
    <2>2. ~aborted => \A k \in still' : steps[k] = "blocked"
        BY <2>1 DEF StepKey
    <2> QED BY <2>1, <2>2, <1>0
<1>6. CASE CompleteNode
    <2>1. /\ UNCHANGED <<target, toRun, pc, at, outcome, still, aborted, steps, terminal>>
          /\ phase # "down" /\ phase' = "completing"
        BY <1>6 DEF CompleteNode, memory, LanesDone
    <2> QED BY <2>1, <1>0
<1>7. ASSUME NEW k \in StepKeys, AbandonBlocked(k) PROVE OpenStepsAreHeld'
    <2>1. /\ UNCHANGED <<target, toRun, pc, at, outcome, aborted, terminal>>
          /\ phase = "draining" /\ phase' = "draining" /\ still' = still \ {k}
          /\ Record(k, "cancelled")
        BY <1>7 DEF AbandonBlocked
    <2>2. /\ \A l \in StepKeys \ {k} : steps'[l] = steps[l]
          /\ steps'[k] = "cancelled" \/ (aborted /\ UNCHANGED steps)
        BY <2>1 DEF Record, TypeOK
    <2>3. \A l \in StepKeys : steps'[l] \in {"in_progress", "blocked"} => steps[l] = steps'[l]
        BY <2>2
    <2>4. ~aborted => \A l \in still' : steps'[l] = "blocked"
        BY <2>1, <2>2 DEF TypeOK
    <2> QED BY <2>1, <2>3, <2>4, <1>0
<1>8. ASSUME NEW k \in StepKeys, Answer(k) PROVE OpenStepsAreHeld'
    <2>1. /\ Starts(k, reentryItems(k), reentryClaim(k)) /\ still' = stillBlocked(k)
          /\ steps' = [steps EXCEPT ![k] = "in_progress"]
          /\ \A i \in Items : at'[i] = IF i = k[1] THEN k[2] ELSE 1
          /\ deriveRunStatus = "blocked"
        BY <1>8, StartEffect DEF Answer
    <2>2. \A l \in StepKeys : steps[l] # "in_progress"
        BY <2>1 DEF deriveRunStatus, StepIs
    <2>3. /\ steps'[k] = "in_progress" /\ \A l \in StepKeys \ {k} : steps'[l] = steps[l]
          /\ at'[k[1]] = k[2] /\ k[1] \in Items /\ k[1] \in reentryItems(k)
          /\ reentryClaim(k) \subseteq reentryItems(k) /\ reentryItems(k) \subseteq Items
        BY <2>1, ItemsOfCall DEF TypeOK
    <2>4. kind # "parallel" => k[1] \in reentryClaim(k)
        BY DEF reentryClaim
    <2>5. pc'[k[1]] = "boundary" \/ (k[1] \in toRun' /\ kind = "parallel")
        BY <2>1, <2>3, <2>4, Sizes DEF Starts, TypeOK
    <2>6. ASSUME NEW l \in stillBlocked(k)
          PROVE  kind = "parallel" /\ l[1] \notin reentryItems(k) /\ l[1] \in Items /\ steps'[l] = "blocked"
        <3>1. l \in StepKeys \ {k} /\ steps[l] = "blocked" /\ SiblingKey(l[1]) = l /\ l \in pendingBlocks(k)
            BY DEF stillBlocked, pendingBlocks
        <3>2. kind = "parallel" /\ l = <<l[1], 1>>
            BY <3>1, SiblingKeyOfStep
        <3>3. k = <<k[1], 1>> /\ l[1] \in Items
            BY <3>1, <3>2, ItemsOfCall, Sizes DEF TypeOK
        <3>4. l[1] # k[1]
            BY <3>1, <3>2, <3>3
        <3>5. l[1] \notin extraToRun(k)
            BY <3>1 DEF extraToRun
        <3>6. l[1] \notin reentryItems(k)
            BY <3>2, <3>4, <3>5 DEF reentryItems
        <3> QED BY <3>1, <3>2, <3>3, <3>6, <2>3
    <2>7. \A l \in still' : kind' = "parallel" /\ l[1] \notin toRun' /\ pc'[l[1]] = "out" /\ steps'[l] = "blocked"
        BY <2>1, <2>3, <2>6, <1>0 DEF Starts
    <2>8. \A l \in StepKeys : steps'[l] = "in_progress" => l = k
        BY <2>2, <2>3
    <2> QED BY <2>1, <2>3, <2>5, <2>7, <2>8, <1>0 DEF Starts
<1>9. CASE Resume
    <2>1. /\ \A k \in StepKeys : steps[k] # "in_progress"
          /\ UNCHANGED <<steps, terminal>> /\ still' = {} /\ ~aborted'
        BY <1>9 DEF Resume, deriveRunStatus, StepIs, log, StartCall
    <2>2. \A i \in Items : outcome'[i] = "none"
        BY <1>9 DEF Resume, StartCall, ItemsSettleOnce
    <2> QED BY <2>1, <2>2, <1>0
<1>10. CASE Cancel
    <2>1. /\ UNCHANGED <<phase, target, toRun, pc, at, outcome, still>> /\ terminal' = "cancelled"
          /\ steps' = closeOpen("cancelled") /\ phase # "down" /\ aborted' = (phase # "returned")
        BY <1>10 DEF Cancel, memory
    <2>2. \A k \in StepKeys : steps'[k] \notin {"in_progress", "blocked"}
        BY <2>1, CloseEffect
    <2>3. ~aborted' => still' = {}
        BY <2>1 DEF ItemsSettleOnce
    <2> QED BY <2>1, <2>2, <2>3, <1>0 DEF TypeOK
<1>11. CASE Reconcile
    <2>1. /\ UNCHANGED <<target, toRun, pc, at, outcome, still, aborted>>
          /\ phase = "down" /\ phase' = "returned" /\ ~aborted /\ still = {}
        BY <1>11 DEF Reconcile, memory, ItemsSettleOnce
    <2>2. \A k \in StepKeys : steps'[k] # "in_progress"
        <3>1. CASE deriveRunStatus = "in_progress"
            BY <3>1, <1>11, CloseEffect DEF Reconcile
        <3>2. CASE deriveRunStatus # "in_progress"
            BY <3>2, <1>11 DEF Reconcile, deriveRunStatus, StepIs
        <3> QED BY <3>1, <3>2
    <2> QED BY <2>1, <2>2, <1>0
<1> QED BY <1>1, <1>2, <1>3, <1>4, <1>5, <1>6, <1>7, <1>8, <1>9, <1>10, <1>11 DEF Next, Settle, Commands

LEMMA NothingIsLostNext ==
    ASSUME TypeOK, ItemsSettleOnce, NothingIsLost, OneAtATime, [Next]_vars
    PROVE  NothingIsLost'
<1>0. StepKeys' = StepKeys /\ BodyOf' = BodyOf /\ kind' = kind
    BY KindStays
<1> USE DEF NothingIsLost
<1>1. CASE UNCHANGED vars
    BY <1>1, <1>0 DEF vars, memory, log
<1>2. ASSUME NEW i \in Items, ItemStep(i) PROVE NothingIsLost'
    <2>1. ASSUME NEW o, Settles(i, o), outputs \subseteq outputs', history \subseteq history',
                 o = "ok" /\ ~aborted /\ kind # "parallel" => i \in history',
                 o = "ok" /\ ~aborted /\ kind = "parallel" /\ i \notin Optional => <<i, 1>> \in outputs'
          PROVE  NothingIsLost'
        <3>1. /\ LaneClaims(o) \subseteq toRun /\ toRun' = toRun \ LaneClaims(o)
              /\ pc'[i] = "settled" /\ outcome'[i] = o
              /\ \A j \in Items \ {i} : /\ pc'[j] = IF j \in LaneClaims(o) THEN "boundary" ELSE pc[j]
                                        /\ outcome'[j] = outcome[j]
              /\ results' = IF o = "ok" THEN results \union {i} ELSE results
              /\ UNCHANGED <<phase, still, aborted>>
            BY <2>1, LaneEffect DEF Settles
        <3>2. results \subseteq results'
            BY <3>1
        <3>3. ASSUME phase = "walking", NEW j \in Items
              PROVE  j \in results' \/ j \in toRun' \/ pc'[j] # "out" \/ \E k \in still : k[1] = j
            BY <3>1, <3>2, <3>3
        <3>4. \A j \in Items : outcome'[j] = "ok" => j \in results'
            BY <3>1, <3>2
        <3>5. ~aborted /\ kind # "parallel" => results' \subseteq history'
            BY <3>1, <2>1
        <3>6. ~aborted /\ kind = "parallel" => \A j \in results' \ Optional : <<j, 1>> \in outputs'
            BY <3>1, <2>1
        <3> QED BY <3>1, <3>3, <3>4, <3>5, <3>6, <1>0
    <2>2. ASSUME UNCHANGED <<phase, still, aborted, outcome, results, toRun>>, outputs \subseteq outputs',
                 history' = history, NEW p \in PCs \ {"out"}, pc' = [pc EXCEPT ![i] = p]
          PROVE  NothingIsLost'
        <3>1. \A j \in Items : pc[j] # "out" => pc'[j] # "out"
            BY <2>2 DEF TypeOK
        <3> QED BY <3>1, <2>2, <1>0
    <2>3. CASE Settles(i, "cancelled") /\ UNCHANGED <<steps, outputs, history>>
        BY <2>1, <2>3
    <2>4. CASE pc' = [pc EXCEPT ![i] = "executing"]
               /\ UNCHANGED <<phase, still, aborted, outcome, stopped, results, toRun, at, outputs, history>>
        BY <2>2, <2>4 DEF PCs
    <2>5. ASSUME NEW o \in {"ok", "failed", "blocked", "crashed", "cancelled"}, EndStep(i, o)
          PROVE  NothingIsLost'
        <3>1. /\ UNCHANGED <<kind, phase, still, aborted, history>> /\ o \in MaySettle(i)
              /\ outputs' = IF o = "ok" /\ ~aborted THEN outputs \union {StepKey(i)} ELSE outputs
              /\ \/ /\ pc' = [pc EXCEPT ![i] = "boundary"]
                    /\ UNCHANGED <<outcome, stopped, results, toRun>>
                 \/ /\ pc' = [pc EXCEPT ![i] = "checkpointing"]
                    /\ UNCHANGED <<outcome, stopped, results, toRun, at>>
                 \/ o \in {"ok", "failed"} /\ kind = "parallel" /\ Settles(i, "ok")
                 \/ o \notin {"ok", "failed"} /\ Settles(i, o)
            BY <2>5, EndCases
        <3>2. outputs \subseteq outputs'
            BY <3>1
        <3>3. CASE o \in {"ok", "failed"} /\ kind = "parallel" /\ Settles(i, "ok")
            <4>1. ~aborted /\ i \notin Optional => <<i, 1>> \in outputs'
                <5>1. StepKey(i) = <<i, 1>>
                    BY <3>3, StepKeyType, Sizes DEF TypeOK
                <5>2. o = "failed" => i \in Optional
                    BY <3>1, MaySettleCases
                <5> QED BY <5>1, <5>2, <3>1, <3>3
            <4> QED BY <4>1, <3>1, <3>2, <3>3, <2>1
        <3>4. CASE o \notin {"ok", "failed"} /\ Settles(i, o)
            BY <3>1, <3>2, <3>4, <2>1
        <3> QED BY <3>1, <3>2, <3>3, <3>4, <2>2 DEF PCs
    <2>6. CASE /\ pc[i] = "checkpointing" /\ Settles(i, "ok")
               /\ history' = IF aborted THEN history ELSE history \union {i}
               /\ UNCHANGED <<steps, outputs>>
        <3>1. kind # "parallel"
            BY <2>6 DEF ItemsSettleOnce
        <3> QED BY <3>1, <2>6, <2>1
    <2>7. \/ Settles(i, "cancelled") /\ UNCHANGED <<steps, outputs, history>>
          \/ /\ pc' = [pc EXCEPT ![i] = "executing"]
             /\ UNCHANGED <<phase, still, aborted, outcome, stopped, results, toRun, at, outputs, history>>
          \/ \E o \in {"ok", "failed", "blocked", "crashed", "cancelled"} : EndStep(i, o)
          \/ /\ pc[i] = "checkpointing" /\ Settles(i, "ok")
             /\ history' = IF aborted THEN history ELSE history \union {i}
             /\ UNCHANGED <<steps, outputs>>
        <3> HIDE DEF NothingIsLost
        <3> QED BY <1>2, ItemCases
    <2> QED BY <2>3, <2>4, <2>5, <2>6, <2>7
<1>3. CASE SettleCancelled \/ SettleBlocked \/ CrashRun \/ CompleteRun \/ Crash
    <2>1. Drops /\ phase' # "walking"
        BY <1>3, DropsEffect DEF SettleCancelled, SettleBlocked, CrashRun, CompleteRun, Crash, Returns
    <2> QED BY <2>1 DEF Drops
<1>4. CASE SettleCrashed \/ CompleteNode \/ \E k \in StepKeys : AbandonBlocked(k)
    <2>1. /\ UNCHANGED <<outcome, results, aborted, outputs, history>>
          /\ phase' \in {"draining", "completing"}
        BY <1>4 DEF SettleCrashed, CompleteNode, AbandonBlocked, memory, log
    <2> QED BY <2>1, <1>0
<1>5. ASSUME NEW k \in StepKeys, Answer(k) PROVE NothingIsLost'
    <2>1. /\ Starts(k, reentryItems(k), reentryClaim(k)) /\ still' = stillBlocked(k)
          /\ steps[k] = "blocked" /\ UNCHANGED <<outputs, history>>
          /\ results' = CASE kind = "sequential" -> history \intersect 1..(k[1] - 1)
                          [] kind # "sequential" -> Recovered \ {k[1]}
        BY <1>5, StartEffect DEF Answer
    <2>2. ASSUME NEW i \in Items PROVE i \in results' \/ i \in reentryItems(k) \/ \E l \in still' : l[1] = i
        <3>1. CASE kind = "sequential"
            <4>1. 1..(k[1] - 1) \subseteq history
                BY <2>1, <3>1 DEF OneAtATime
            <4>2. results' = history \intersect 1..(k[1] - 1) /\ reentryItems(k) = k[1]..N
                BY <2>1, <3>1 DEF reentryItems
            <4>3. i \in 1..(k[1] - 1) \/ i \in k[1]..N
                BY ItemsOfCall, Sizes DEF Items, TypeOK
            <4> QED BY <4>1, <4>2, <4>3
        <3>2. CASE kind # "sequential" /\ i \notin Recovered /\ i # k[1]
            <4>1. reentryItems(k) = {k[1]} \union extraToRun(k)
                BY <3>2 DEF reentryItems
            <4>2. CASE SiblingKey(i) \in pendingBlocks(k)
                <5>1. SiblingKey(i)[1] = i
                    BY DEF SiblingKey
                <5>2. SiblingKey(i) \in stillBlocked(k)
                    BY <5>1, <4>2, <3>2 DEF stillBlocked
                <5> QED BY <5>1, <5>2, <2>1
            <4>3. CASE SiblingKey(i) \notin pendingBlocks(k)
                BY <4>1, <4>3, <3>2 DEF extraToRun
            <4> QED BY <4>2, <4>3
        <3>3. CASE kind # "sequential" /\ (i \in Recovered \/ i = k[1])
            BY <3>3, <2>1, ItemsOfCall
        <3> QED BY <3>1, <3>2, <3>3
    <2>3. kind # "parallel" => results' \subseteq history
        BY <2>1 DEF Recovered
    <2>4. kind = "parallel" => \A i \in results' : <<i, 1>> \in outputs
        BY <2>1 DEF Recovered
    <2> QED BY <2>1, <2>2, <2>3, <2>4, <1>0, ItemsOfCall DEF Starts
<1>6. CASE Resume
    <2>1. results' = Items \ freshItems /\ UNCHANGED <<outputs, history>>
        BY <1>6 DEF Resume, log
    <2>2. kind # "parallel" => results' \subseteq history
        <3>1. kind = "sequential" => results' \subseteq history
            <4>1. ASSUME kind = "sequential", NEW i \in results' PROVE i \in history
                <5>1. i \in Items /\ 1..i \subseteq history
                    BY <4>1, <2>1 DEF freshItems, fromFirstMissing
                <5>2. i \in 1..i
                    BY <5>1, Sizes DEF TypeOK, Items
                <5> QED BY <5>1, <5>2
            <4> QED BY <4>1
        <3>2. kind = "foreach" => results' \subseteq history
            BY <2>1 DEF freshItems
        <3> QED BY <3>1, <3>2, Sizes DEF TypeOK
    <2>3. kind = "parallel" => results' = {}
        BY <2>1 DEF freshItems
    <2>4. \A i \in Items : outcome'[i] = "none"
        BY <1>6 DEF Resume, StartCall, ItemsSettleOnce
    <2>5. phase' = "walking" => \A i \in Items : i \in results' \/ i \in toRun' \/ pc'[i] # "out"
        <3>1. ASSUME phase' = "walking"
              PROVE  Starts(Fresh, freshItems, First(laneCount, freshItems))
            BY <1>6, <3>1, StartEffect DEF Resume, log
        <3> QED BY <3>1, <2>1 DEF Starts
    <2> QED BY <2>1, <2>2, <2>3, <2>4, <2>5, <1>0
<1>7. CASE Cancel
    <2>1. /\ UNCHANGED <<phase, toRun, pc, outcome, results, still, outputs, history>>
          /\ aborted' = (phase # "returned")
        BY <1>7 DEF Cancel, memory
    <2>2. ~aborted' => results' = {}
        BY <2>1 DEF ItemsSettleOnce
    <2> QED BY <2>1, <2>2, <1>0
<1>8. CASE Reconcile
    BY <1>8, <1>0 DEF Reconcile, memory
<1> QED BY <1>1, <1>2, <1>3, <1>4, <1>5, <1>6, <1>7, <1>8 DEF Next, Settle, Commands

\* A sequential foreach takes up its first missing item, with all that come after it
\* (concurrent-nodes.ts, runForeachSequential).
LEMMA SequentialFresh ==
    ASSUME TypeOK, kind = "sequential"
    PROVE  LET C == First(laneCount, freshItems)
           IN  \/ freshItems = {} /\ C = {}
               \/ \E f \in Items : C = {f} /\ freshItems \ C = (f + 1)..N
                                   /\ f \notin history /\ 1..(f - 1) \subseteq history
<1> DEFINE C == First(laneCount, freshItems)
<1>1. /\ freshItems = {i \in Items : ~(1..i \subseteq history)} /\ laneCount = 1
      /\ N \in Nat /\ Items = 1..N
    BY Sizes DEF TypeOK, freshItems, fromFirstMissing, Items
<1>2. freshItems \in SUBSET Nat
    BY <1>1
<1>3. C \subseteq freshItems /\ (freshItems # {} => C # {})
    <2>1. laneCount \in Nat \ {0}
        BY <1>1
    <2> QED BY <2>1, <1>2, FirstIsSome
<1>4. \A f \in C : f \in freshItems /\ \A j \in freshItems : f <= j
    BY <1>1, <1>2, FirstIsLeast
<1> HIDE DEF C
<1>5. ASSUME NEW f \in C
      PROVE  /\ C = {f} /\ freshItems \ C = (f + 1)..N /\ f \in Items
             /\ f \notin history /\ 1..(f - 1) \subseteq history
    <2>1. f \in 1..N /\ ~(1..f \subseteq history) /\ f \in freshItems
        BY <1>1, <1>4
    <2>2. \A g \in C : g = f
        <3>1. ASSUME NEW g \in C PROVE g = f
            <4>1. g \in freshItems /\ g <= f /\ f <= g
                BY <1>4
            <4>2. g \in Nat /\ f \in Nat
                BY <1>2, <2>1, <4>1
            <4> QED BY <4>1, <4>2
        <3> QED BY <3>1
    <2>3. 1..(f - 1) \subseteq history
        <3>1. CASE f = 1
            BY <3>1
        <3>2. CASE f # 1
            <4>1. f - 1 \in Items /\ ~(f <= f - 1)
                BY <1>1, <2>1, <3>2
            <4>2. f - 1 \notin freshItems
                BY <4>1, <1>4
            <4> QED BY <4>1, <4>2, <1>1
        <3> QED BY <3>1, <3>2
    <2>4. f \notin history
        <3>1. \A j \in 1..f : j \in 1..(f - 1) \/ j = f
            BY <2>1
        <3> QED BY <3>1, <2>1, <2>3
    <2>5. ASSUME NEW j \in 1..N PROVE j \in freshItems <=> f <= j
        <3>1. f <= j => f \in 1..j
            BY <2>1
        <3>2. f <= j => j \in freshItems
            BY <3>1, <2>4, <1>1
        <3>3. j \in freshItems => f <= j
            BY <1>4
        <3> QED BY <3>2, <3>3
    <2>6. C = {f}
        BY <2>2
    <2>7. ASSUME NEW j PROVE j \in freshItems \ {f} <=> j \in (f + 1)..N
        <3>1. CASE j \in 1..N
            BY <3>1, <2>1, <2>5
        <3>2. CASE j \notin 1..N
            BY <3>2, <2>1, <1>1
        <3> QED BY <3>1, <3>2
    <2> QED BY <2>1, <2>3, <2>4, <2>6, <2>7, <1>1
<1>6. CASE C = {}
    BY <1>3, <1>6 DEF C
<1>7. CASE C # {}
    BY <1>5, <1>7 DEF C
<1> QED BY <1>6, <1>7 DEF C

LEMMA OneAtATimeNext ==
    ASSUME TypeOK, ItemsSettleOnce, LanesKeepGoing, OpenStepsAreHeld, OneAtATime, [Next]_vars
    PROVE  OneAtATime'
<1>0. StepKeys' = StepKeys /\ BodyOf' = BodyOf /\ kind' = kind
    BY KindStays
<1> SUFFICES ASSUME kind = "sequential" PROVE OneAtATime'
    BY <1>0 DEF OneAtATime
<1>k. \A k \in StepKeys : k[1] \in Items /\ k[2] \in 1..BodyOf /\ k = <<k[1], k[2]>>
    BY ItemsOfCall
<1>n. N \in Nat /\ Items = 1..N /\ \A i \in Items : i \in Nat
    BY Sizes DEF TypeOK, Items
\* What the log says of the items, while nothing new is recorded but ends.
<1> DEFINE Log == /\ \A j \in history : 1..j \subseteq history
                  /\ \A k \in StepKeys : steps[k] # "todo" => 1..(k[1] - 1) \subseteq history
                  /\ \A k \in StepKeys : steps[k] = "blocked" => k[1] \notin history
                  /\ \A k, l \in StepKeys : steps[k] = "blocked" /\ steps[l] = "blocked" => k = l
           Memory == /\ \A i, j \in Items : Working(i) /\ Working(j) => i = j
                     /\ stopped => \A i \in Items : ~Working(i)
                     /\ \A i \in Items : Working(i) => toRun = (i + 1)..N /\ i \notin history
                     /\ ~aborted => \A i \in Items : Working(i) => 1..(i - 1) \subseteq history
           Held == phase = "walking" => \A k \in StepKeys : steps[k] = "blocked" => outcome[k[1]] = "blocked"
<1>p. /\ OneAtATime <=> Log /\ Memory /\ Held
      /\ OneAtATime' <=> Log' /\ Memory' /\ Held'
    BY <1>0 DEF OneAtATime
<1>h. Log /\ Memory /\ Held
    BY <1>p
<1>1. CASE UNCHANGED vars
    <2>1. Log' /\ Memory' /\ Held'
        BY <1>1, <1>0, <1>h DEF vars, memory, log, Working
    <2> QED BY <2>1, <1>p
\* Steps that change without opening any.
<1>2. ASSUME history' = history,
             \A k \in StepKeys : steps'[k] # steps[k] => steps[k] # "todo" /\ steps'[k] # "blocked"
      PROVE  Log'
    BY <1>2, <1>0, <1>h
\* One item is worked on, and whatever comes after it is left.
<1>m. ASSUME NEW f \in Items, \A j \in Items : Working(j)' <=> j = f, toRun' = (f + 1)..N, ~stopped',
             f \notin history', ~aborted' => 1..(f - 1) \subseteq history'
      PROVE  Memory'
    BY <1>m
<1>3. ASSUME NEW i \in Items, ItemStep(i) PROVE OneAtATime'
    <2>1. /\ StepKey(i) = <<i, at[i]>> /\ StepKey(i) \in StepKeys
          /\ UNCHANGED <<kind, phase, target, still, report, aborted, nodeDone, terminal>>
          /\ phase = "walking" /\ outcome[i] = "none" /\ i \notin toRun /\ Working(i)
        <3>1. Working(i)
            BY <1>3 DEF ItemStep, StartStep, EndStep, CheckpointItem, Working
        <3> QED BY <3>1, <1>3, ItemCases, StepKeyType DEF ItemsSettleOnce, Working, TypeOK
    <2>2. /\ \A j \in Items \ {i} : ~Working(j)
          /\ ~stopped /\ toRun = (i + 1)..N /\ i \notin history
          /\ ~aborted => 1..(i - 1) \subseteq history
        BY <2>1, <1>h
    <2>3. \A k \in StepKeys : steps[k] # "blocked"
        <3>1. ASSUME NEW k \in StepKeys, steps[k] = "blocked" PROVE FALSE
            <4>1. outcome[k[1]] = "blocked" /\ k[1] \in Items
                BY <3>1, <2>1, <1>h, <1>k
            <4> QED BY <4>1, <2>2 DEF LanesKeepGoing
        <3> QED BY <3>1
    \* The item settles: the lane claims the next one, or is stopped.
    <2>4. ASSUME NEW o, Settles(i, o), o = "ok" /\ ~aborted => i \in history',
                 history' \subseteq history \union {i}, history \subseteq history'
          PROVE  Memory'
        <3>1. /\ LaneClaims(o) \subseteq toRun /\ toRun' = toRun \ LaneClaims(o)
              /\ LaneClaims(o) # {} => ~stopped /\ ~Stops(o)
              /\ pc'[i] = "settled"
              /\ \A j \in Items \ {i} : pc'[j] = IF j \in LaneClaims(o) THEN "boundary" ELSE pc[j]
              /\ stopped' = (stopped \/ Stops(o))
            BY <2>4, LaneEffect DEF Settles
        <3>2. \A j \in Items : Working(j)' <=> j \in LaneClaims(o) /\ j # i
            BY <3>1, <2>2 DEF Working
        <3>3. CASE LaneClaims(o) = {}
            BY <3>2, <3>3
        <3>4. CASE LaneClaims(o) # {}
            <4>1. ~Stops(o) /\ ~stopped' /\ o = "ok"
                BY <3>1, <3>4 DEF Stops
            <4>2. LaneClaims(o) = First(1, (i + 1)..N)
                BY <4>1, <2>2 DEF LaneClaims
            <4>3. i + 1 \in Nat /\ LaneClaims(o) = {i + 1} /\ i + 1 <= N
                <5>1. i + 1 \in Nat /\ N \in Nat
                    BY <1>n
                <5>2. LaneClaims(o) = IF i + 1 <= N THEN {i + 1} ELSE {}
                    BY <5>1, <4>2, FirstOfRange
                <5> QED BY <5>1, <5>2, <3>4
            <4>4. i + 1 \in Items /\ \A j \in Items : Working(j)' <=> j = i + 1
                BY <3>2, <4>3, <1>n
            <4>5. toRun' = (i + 1 + 1)..N
                BY <3>1, <4>3, <2>2, <1>n
            <4>6. i + 1 \notin history'
                <5>1. i + 1 \in history => i \in history
                    <6>1. i \in 1..(i + 1)
                        BY <1>n
                    <6> QED BY <6>1, <1>h
                <5> QED BY <5>1, <2>2, <2>4, <1>n
            <4>7. ~aborted => 1..i \subseteq history'
                <5>1. \A h \in 1..i : h = i \/ h \in 1..(i - 1)
                    BY <1>n
                <5> QED BY <5>1, <2>2, <2>4, <4>1
            <4>8. PICK f \in Items : f = i + 1
                BY <4>4
            <4>9. f - 1 = i
                BY <4>8, <1>n
            <4>10. \A j \in Items : Working(j)' <=> j = f
                BY <4>4, <4>8
            <4>11. toRun' = (f + 1)..N /\ f \notin history' /\ (~aborted' => 1..(f - 1) \subseteq history')
                BY <4>5, <4>6, <4>7, <4>8, <4>9, <2>1
            <4> HIDE DEF Memory
            <4> QED BY <4>1, <4>10, <4>11, <1>m
        <3> QED BY <3>3, <3>4
    \* The item goes on.
    <2>5. ASSUME NEW p \in PCs, pc' = [pc EXCEPT ![i] = p], UNCHANGED <<outcome, stopped, toRun, history>>
          PROVE  Memory'
        <3>1. \A j \in Items \ {i} : ~Working(j)'
            BY <2>5, <2>2 DEF Working, TypeOK
        <3> QED BY <3>1, <2>1, <2>2, <2>5
    <2>6. CASE Settles(i, "cancelled") /\ UNCHANGED <<steps, outputs, history>>
        <3>1. Memory'
            BY <2>4, <2>6
        <3>2. Log' /\ Held'
            BY <2>6, <1>2, <2>3, <1>0
        <3> QED BY <3>1, <3>2, <1>p
    <2>7. CASE /\ pc' = [pc EXCEPT ![i] = "executing"]
               /\ IF Reentered(i) THEN UNCHANGED steps ELSE Record(StepKey(i), "in_progress")
               /\ UNCHANGED <<outcome, stopped, results, toRun, at, outputs, history>>
        <3>1. Memory'
            BY <2>5, <2>7 DEF PCs
        <3>2. \A k \in StepKeys : steps'[k] # "blocked"
            BY <2>7, <2>3, <2>1 DEF Record, TypeOK
        <3>3. \A k \in StepKeys : steps'[k] # "todo" => 1..(k[1] - 1) \subseteq history
            <4>1. steps' # steps => ~aborted
                BY <2>7 DEF Record
            <4>2. \A k \in StepKeys : steps'[k] # steps[k] => k = StepKey(i)
                BY <2>7, <2>1 DEF Record, TypeOK
            <4> QED BY <4>1, <4>2, <2>1, <2>2, <1>h
        <3>4. Log'
            BY <3>2, <3>3, <2>7, <1>0, <1>h
        <3> QED BY <3>1, <3>2, <3>4, <1>p, <1>0
    <2>8. ASSUME NEW o \in {"ok", "failed", "blocked", "crashed", "cancelled"}, EndStep(i, o)
          PROVE  OneAtATime'
        <3>1. /\ history' = history
              /\ \/ UNCHANGED steps
                 \/ ~aborted /\ o \in {"ok", "failed"} /\ \E s \in {"completed", "crashed"} :
                            steps' = [steps EXCEPT ![StepKey(i)] = s]
                 \/ ~aborted /\ o = "blocked" /\ steps' = [steps EXCEPT ![StepKey(i)] = "blocked"]
              /\ \/ pc' = [pc EXCEPT ![i] = "boundary"] /\ UNCHANGED <<outcome, stopped, results, toRun>>
                 \/ pc' = [pc EXCEPT ![i] = "checkpointing"] /\ UNCHANGED <<outcome, stopped, results, toRun>>
                 \/ o \notin {"ok", "failed"} /\ Settles(i, o)
            BY <2>8, EndCases
        <3>2. Memory'
            BY <3>1, <2>4, <2>5 DEF PCs
        <3>3. \A k \in StepKeys : steps'[k] # steps[k] => k = StepKey(i) /\ ~aborted
            BY <3>1, <2>1 DEF TypeOK
        <3>4. \A k \in StepKeys : steps'[k] = "blocked" => k = StepKey(i) /\ o = "blocked"
            BY <3>1, <2>1, <2>3 DEF TypeOK
        <3>5. Log'
            <4>1. \A k \in StepKeys : steps'[k] # "todo" => 1..(k[1] - 1) \subseteq history
                BY <3>3, <2>1, <2>2, <1>h
            <4>2. \A k \in StepKeys : steps'[k] = "blocked" => k[1] \notin history
                BY <3>4, <2>1, <2>2
            <4>3. \A k, l \in StepKeys : steps'[k] = "blocked" /\ steps'[l] = "blocked" => k = l
                BY <3>4
            <4> QED BY <4>1, <4>2, <4>3, <3>1, <1>0, <1>h
        <3>6. o = "blocked" => outcome'[i] = "blocked"
            <4>1. o = "blocked" => Settles(i, o)
                BY <2>8, EndCases
            <4> QED BY <4>1, LaneEffect DEF Settles
        <3>7. Held'
            BY <3>4, <3>6, <2>1, <1>0
        <3> QED BY <3>2, <3>5, <3>7, <1>p
    <2>9. CASE /\ Settles(i, "ok") /\ UNCHANGED <<steps, outputs>>
               /\ history' = IF aborted THEN history ELSE history \union {i}
        <3>1. Memory'
            BY <2>4, <2>9
        <3>2. \A k \in StepKeys : steps'[k] # "blocked"
            BY <2>3, <2>9
        <3>3. \A j \in history' : 1..j \subseteq history'
            <4>1. ASSUME NEW j \in history', NEW h \in 1..j PROVE h \in history'
                <5>1. CASE j \in history
                    BY <5>1, <4>1, <1>h, <2>9
                <5>2. CASE j = i /\ ~aborted
                    <6>1. h = i \/ h \in 1..(i - 1)
                        BY <5>2, <4>1, <1>n
                    <6> QED BY <6>1, <5>2, <2>2, <2>9
                <5> QED BY <5>1, <5>2, <4>1, <2>9
            <4> QED BY <4>1
        <3>4. Log'
            BY <3>2, <3>3, <2>9, <1>0, <1>h
        <3> QED BY <3>1, <3>2, <3>4, <1>p, <1>0
    <2>10. \/ Settles(i, "cancelled") /\ UNCHANGED <<steps, outputs, history>>
           \/ /\ pc' = [pc EXCEPT ![i] = "executing"]
              /\ IF Reentered(i) THEN UNCHANGED steps ELSE Record(StepKey(i), "in_progress")
              /\ UNCHANGED <<outcome, stopped, results, toRun, at, outputs, history>>
           \/ \E o \in {"ok", "failed", "blocked", "crashed", "cancelled"} : EndStep(i, o)
           \/ /\ Settles(i, "ok") /\ UNCHANGED <<steps, outputs>>
              /\ history' = IF aborted THEN history ELSE history \union {i}
        BY <1>3, ItemCases
    <2> QED BY <2>6, <2>7, <2>8, <2>9, <2>10
<1>4. CASE SettleCancelled \/ SettleBlocked \/ CrashRun \/ CompleteRun \/ Crash
    <2>1. Drops /\ phase' # "walking"
        BY <1>4, DropsEffect DEF SettleCancelled, SettleBlocked, CrashRun, CompleteRun, Crash, Returns
    <2>2. history' = history /\ (UNCHANGED steps \/ steps' = closeOpen("crashed"))
        BY <1>4 DEF SettleCancelled, SettleBlocked, CrashRun, CompleteRun, Crash, log
    <2>3. \A k \in StepKeys : steps'[k] # steps[k] => steps[k] # "todo" /\ steps'[k] # "blocked"
        BY <2>2, CloseEffect
    <2>4. Log'
        BY <2>2, <2>3, <1>2
    <2>5. \A i \in Items : ~Working(i)'
        BY <2>1 DEF Drops, Working
    <2> QED BY <2>1, <2>4, <2>5, <1>p
<1>5. CASE SettleCrashed \/ CompleteNode \/ \E k \in StepKeys : AbandonBlocked(k)
    <2>1. /\ UNCHANGED <<toRun, pc, outcome, stopped, aborted, history>> /\ phase' \in {"draining", "completing"}
          /\ UNCHANGED steps \/ \E k \in StepKeys : k \in still /\ Record(k, "cancelled")
        BY <1>5 DEF SettleCrashed, CompleteNode, AbandonBlocked, memory, log
    <2>2. \A k \in StepKeys : steps'[k] # steps[k] => steps[k] # "todo" /\ steps'[k] # "blocked"
        BY <2>1 DEF Record, OpenStepsAreHeld, TypeOK
    <2>3. Log'
        BY <2>1, <2>2, <1>2
    <2>4. Memory'
        BY <2>1, <1>h DEF Working
    <2> QED BY <2>1, <2>3, <2>4, <1>p
\* A call starts over an item, and whatever comes after it.
<1>6. ASSUME NEW step, NEW f \in Items, NEW S, NEW C, Starts(step, S, C), C = {f}, S \ C = (f + 1)..N,
             f \notin history, 1..(f - 1) \subseteq history
      PROVE  Memory'
    <2>1. \A j \in Items : Working(j)' <=> j = f
        BY <1>6 DEF Starts, Working
    <2>2. toRun' = (f + 1)..N /\ ~stopped' /\ f \notin history' /\ 1..(f - 1) \subseteq history'
        BY <1>6 DEF Starts
    <2> QED BY <2>1, <2>2, <1>m
<1>7. ASSUME NEW k \in StepKeys, Answer(k) PROVE OneAtATime'
    <2>1. /\ Starts(k, reentryItems(k), reentryClaim(k))
          /\ steps[k] = "blocked" /\ steps' = [steps EXCEPT ![k] = "in_progress"]
        BY <1>7, StartEffect DEF Answer
    <2>2. \A l \in StepKeys : l # k => steps'[l] = steps[l]
        BY <2>1
    <2>3. steps'[k] = "in_progress"
        BY <2>1 DEF TypeOK
    <2>4. \A l \in StepKeys : steps'[l] # "blocked"
        BY <2>1, <2>2, <2>3, <1>h
    <2>5. Log'
        BY <2>1, <2>2, <2>3, <1>2 DEF Starts
    <2>6. reentryItems(k) = k[1]..N /\ reentryClaim(k) = {k[1]}
        BY DEF reentryItems, reentryClaim
    <2>7. (k[1]..N) \ {k[1]} = (k[1] + 1)..N
        BY <1>k, <1>n
    <2>8. k[1] \notin history /\ 1..(k[1] - 1) \subseteq history /\ k[1] \in Items
        BY <2>1, <1>h, <1>k
    <2>9. Memory'
        BY <2>1, <2>6, <2>7, <2>8, <1>6
    <2> QED BY <2>4, <2>5, <2>9, <1>p, <1>0
<1>8. CASE Resume
    <2>1. UNCHANGED <<steps, history>> /\ \A k \in StepKeys : steps[k] # "blocked"
        BY <1>8 DEF Resume, deriveRunStatus, StepIs, log
    <2>2. Log' /\ Held'
        BY <2>1, <1>2, <1>0
    <2>3. Memory'
        <3>1. CASE StartCall(Fresh, freshItems, First(laneCount, freshItems))
            <4>1. Starts(Fresh, freshItems, First(laneCount, freshItems))
                BY <1>8, <3>1, StartEffect DEF Resume, log
            <4>2. CASE freshItems = {} /\ First(laneCount, freshItems) = {}
                <5>1. \A i \in Items : ~Working(i)'
                    BY <4>1, <4>2 DEF Starts, Working
                <5> QED BY <5>1
            <4> QED BY <4>1, <4>2, <1>6, SequentialFresh
        <3>2. CASE phase = "returned" /\ UNCHANGED <<target, toRun, pc, outcome, stopped>>
            <4>1. \A i \in Items : ~Working(i)'
                BY <3>2 DEF ItemsSettleOnce, Working
            <4> QED BY <4>1
        <3> QED BY <1>8, <3>1, <3>2 DEF Resume
    <2> QED BY <2>2, <2>3, <1>p
<1>9. CASE Cancel
    <2>1. /\ UNCHANGED <<phase, toRun, pc, outcome, stopped, history>>
          /\ steps' = closeOpen("cancelled") /\ aborted' = (phase # "returned") /\ ~aborted
        BY <1>9 DEF Cancel, memory
    <2>2. /\ \A k \in StepKeys : steps'[k] # steps[k] => steps[k] # "todo" /\ steps'[k] # "blocked"
          /\ \A k \in StepKeys : steps'[k] # "blocked"
        BY <2>1, CloseEffect
    <2>3. Log' /\ Held'
        BY <2>1, <2>2, <1>2, <1>0
    <2>4. Memory'
        BY <2>1, <1>h DEF Working
    <2> QED BY <2>3, <2>4, <1>p
<1>10. CASE Reconcile
    <2>1. /\ UNCHANGED <<toRun, pc, outcome, stopped, aborted, history>> /\ phase' = "returned"
          /\ UNCHANGED steps \/ steps' = closeOpen("crashed")
        BY <1>10 DEF Reconcile, memory
    <2>2. \A k \in StepKeys : steps'[k] # steps[k] => steps[k] # "todo" /\ steps'[k] # "blocked"
        BY <2>1, CloseEffect
    <2>3. Log' /\ Memory'
        BY <2>1, <2>2, <1>2, <1>h DEF Working
    <2> QED BY <2>1, <2>3, <1>p
<1> QED BY <1>1, <1>3, <1>4, <1>5, <1>7, <1>8, <1>9, <1>10 DEF Next, Settle, Commands

LEMMA NothingTwiceNext ==
    ASSUME TypeOK, ItemsSettleOnce, StepsInOrder, OneAtATime, NothingTwice, [Next]_vars
    PROVE  NothingTwice'
<1>0. StepKeys' = StepKeys /\ BodyOf' = BodyOf /\ kind' = kind
    BY KindStays
<1>k. \A k \in StepKeys : k[1] \in Items /\ k[2] \in 1..BodyOf /\ k = <<k[1], k[2]>>
    BY ItemsOfCall
<1>n. N \in Nat /\ Items = 1..N /\ \A i \in Items : i \in Nat
    BY Sizes DEF TypeOK, Items
<1>p. kind = "parallel" => \A i \in Items : <<i, 1>> \in StepKeys
    BY Sizes DEF TypeOK, StepKeys
<1> DEFINE Waits(i) == i \in toRun \/ pc[i] = "boundary"
\* The same items are ahead, or fewer, and nothing of theirs was done or has blocked.
<1>s. ASSUME target' = target,
             kind # "parallel" => \A j \in Items : Ahead(j)' => Ahead(j) /\ (j \in history' => j \in history),
             kind = "parallel" => \A j \in Items : Waits(j)' => /\ Waits(j)
                                        /\ steps'[<<j, 1>>] \in {steps[<<j, 1>>], "cancelled", "crashed"}
      PROVE  NothingTwice'
    BY <1>s, <1>0 DEF NothingTwice
<1>e. ASSUME \A i \in Items : ~Ahead(i)' PROVE NothingTwice'
    BY <1>e, <1>0 DEF NothingTwice, Ahead, Working
<1>1. CASE UNCHANGED vars
    BY <1>1, <1>0, <1>s DEF vars, memory, log, Ahead, Working
<1>2. ASSUME NEW i \in Items, ItemStep(i) PROVE NothingTwice'
    <2>1. /\ StepKey(i) = <<i, at[i]>> /\ StepKey(i) \in StepKeys /\ target' = target
          /\ i \notin toRun /\ Working(i) /\ Ahead(i)
          /\ kind = "parallel" => at[i] = BodyOf /\ at[i] = 1
        <3>1. Working(i)
            BY <1>2 DEF ItemStep, StartStep, EndStep, CheckpointItem, Working
        <3>2. kind = "parallel" => at[i] = BodyOf /\ at[i] = 1
            BY Sizes DEF TypeOK
        <3> QED BY <3>1, <3>2, <1>2, ItemCases, StepKeyType DEF ItemsSettleOnce, Working, TypeOK, Ahead
    <2>2. ASSUME NEW o, Settles(i, o), history' \subseteq history \union {i},
                 \A k \in StepKeys : k # StepKey(i) => steps'[k] = steps[k]
          PROVE  NothingTwice'
        <3>1. /\ LaneClaims(o) \subseteq toRun /\ toRun' = toRun \ LaneClaims(o) /\ pc'[i] = "settled"
              /\ \A j \in Items \ {i} : pc'[j] = IF j \in LaneClaims(o) THEN "boundary" ELSE pc[j]
            BY <2>2, LaneEffect DEF Settles
        <3>2. ~Ahead(i)' /\ ~Waits(i)'
            BY <3>1, <2>1 DEF Ahead, Working
        <3>3. \A j \in Items \ {i} : (Ahead(j)' => Ahead(j)) /\ (Waits(j)' => Waits(j))
            BY <3>1 DEF Ahead, Working
        <3>4. kind = "parallel" => \A j \in Items \ {i} : steps'[<<j, 1>>] = steps[<<j, 1>>]
            <4>1. \A j \in Items \ {i} : <<j, 1>> # StepKey(i)
                BY <2>1
            <4> QED BY <4>1, <2>2, <1>p
        <3> HIDE DEF Waits
        <3>5. kind # "parallel" => \A j \in Items : Ahead(j)' => Ahead(j) /\ (j \in history' => j \in history)
            BY <3>2, <3>3, <2>2
        <3>6. kind = "parallel" => \A j \in Items : Waits(j)' => /\ Waits(j)
                                        /\ steps'[<<j, 1>>] \in {steps[<<j, 1>>], "cancelled", "crashed"}
            BY <3>2, <3>3, <3>4
        <3> QED BY <3>5, <3>6, <2>1, <1>s
    <2>3. ASSUME NEW p \in {"boundary", "executing", "checkpointing"}, pc' = [pc EXCEPT ![i] = p],
                 p = "boundary" => kind # "parallel", toRun' = toRun, history' = history,
                 \A k \in StepKeys : k # StepKey(i) => steps'[k] = steps[k]
          PROVE  NothingTwice'
        <3>1. \A j \in Items \ {i} : pc'[j] = pc[j]
            BY <2>3 DEF TypeOK
        <3>2. pc'[i] = p
            BY <2>3 DEF TypeOK
        <3>3. \A j \in Items : Ahead(j)' => Ahead(j)
            BY <3>1, <2>1, <2>3 DEF Ahead, Working
        <3>4. kind = "parallel" => \A j \in Items : Waits(j)' => Waits(j) /\ j # i
            BY <3>1, <3>2, <2>1, <2>3
        <3>5. kind = "parallel" => \A j \in Items \ {i} : steps'[<<j, 1>>] = steps[<<j, 1>>]
            <4>1. \A j \in Items \ {i} : <<j, 1>> # StepKey(i)
                BY <2>1
            <4> QED BY <4>1, <2>3, <1>p
        <3> HIDE DEF Waits
        <3> QED BY <3>3, <3>4, <3>5, <2>1, <2>3, <1>s
    <2>4. CASE Settles(i, "cancelled") /\ UNCHANGED <<steps, outputs, history>>
        BY <2>2, <2>4
    <2>5. CASE /\ pc' = [pc EXCEPT ![i] = "executing"]
               /\ IF Reentered(i) THEN UNCHANGED steps ELSE Record(StepKey(i), "in_progress")
               /\ UNCHANGED <<outcome, stopped, results, toRun, at, outputs, history>>
        <3>1. \A k \in StepKeys : k # StepKey(i) => steps'[k] = steps[k]
            BY <2>5, <2>1 DEF Record, TypeOK
        <3> QED BY <3>1, <2>3, <2>5
    <2>6. ASSUME NEW o \in {"ok", "failed", "blocked", "crashed", "cancelled"}, EndStep(i, o)
          PROVE  NothingTwice'
        <3>1. /\ history' = history
              /\ UNCHANGED steps \/ \E s \in StepStates : steps' = [steps EXCEPT ![StepKey(i)] = s]
              /\ \/ at[i] < BodyOf /\ pc' = [pc EXCEPT ![i] = "boundary"] /\ UNCHANGED <<outcome, stopped, results, toRun>>
                 \/ pc' = [pc EXCEPT ![i] = "checkpointing"] /\ UNCHANGED <<outcome, stopped, results, toRun>>
                 \/ \E r \in {o, "ok"} : Settles(i, r)
            BY <2>6, EndCases DEF StepStates
        <3>2. \A k \in StepKeys : k # StepKey(i) => steps'[k] = steps[k]
            BY <3>1, <2>1 DEF TypeOK
        <3>3. at[i] < BodyOf => kind # "parallel"
            BY <2>1, Sizes DEF TypeOK
        <3> QED BY <3>1, <3>2, <3>3, <2>2, <2>3
    <2>7. CASE /\ Settles(i, "ok") /\ UNCHANGED <<steps, outputs>>
               /\ history' = IF aborted THEN history ELSE history \union {i}
        BY <2>2, <2>7
    <2> QED BY <1>2, <2>4, <2>5, <2>6, <2>7, ItemCases
<1>3. CASE SettleCancelled \/ SettleBlocked \/ CrashRun \/ CompleteRun \/ Crash
    <2>1. Drops
        BY <1>3, DropsEffect DEF SettleCancelled, SettleBlocked, CrashRun, CompleteRun, Crash, Returns
    <2> QED BY <2>1, <1>e DEF Drops, Ahead, Working
<1>4. CASE SettleCrashed \/ CompleteNode \/ (\E k \in StepKeys : AbandonBlocked(k)) \/ Cancel \/ Reconcile
    <2>1. /\ UNCHANGED <<target, toRun, pc, history>>
          /\ \/ UNCHANGED steps
             \/ \E k \in StepKeys : Record(k, "cancelled")
             \/ \E s \in {"cancelled", "crashed"} : steps' = closeOpen(s)
        BY <1>4 DEF SettleCrashed, CompleteNode, AbandonBlocked, Cancel, Reconcile, memory, log
    <2>2. \A k \in StepKeys : steps'[k] \in {steps[k], "cancelled", "crashed"}
        <3>1. CASE \E s \in {"cancelled", "crashed"} : steps' = closeOpen(s)
            BY <3>1, CloseEffect
        <3> QED BY <3>1, <2>1 DEF Record, TypeOK
    <2>3. \A j \in Items : (Ahead(j)' <=> Ahead(j)) /\ (Waits(j)' <=> Waits(j))
        BY <2>1 DEF Ahead, Working
    <2> HIDE DEF Waits
    <2> QED BY <2>1, <2>2, <2>3, <1>s, <1>p
<1>5. ASSUME NEW step, NEW S, NEW C, Starts(step, S, C), C \subseteq S
      PROVE  \A i \in Items : /\ Ahead(i)' <=> i \in S
                              /\ Waits(i)' <=> i \in S
    BY <1>5 DEF Starts, Ahead, Working
<1>6. ASSUME NEW k \in StepKeys, Answer(k) PROVE NothingTwice'
    <2>1. /\ Starts(k, reentryItems(k), reentryClaim(k)) /\ target' = k /\ history' = history
          /\ steps[k] = "blocked" /\ steps' = [steps EXCEPT ![k] = "in_progress"]
        BY <1>6, StartEffect DEF Answer, Starts
    <2>2. \A i \in Items : (Ahead(i)' <=> i \in reentryItems(k)) /\ (Waits(i)' <=> i \in reentryItems(k))
        BY <2>1, <1>5, ItemsOfCall
    <2>3. CASE kind = "sequential"
        <3>1. k[1] \notin history
            BY <2>1, <2>3 DEF OneAtATime
        <3>2. ASSUME NEW i \in Items, i \in reentryItems(k), i \in history PROVE FALSE
            <4>1. i \in k[1]..N
                BY <2>3, <3>2 DEF reentryItems
            <4>2. k[1] \in 1..i
                BY <4>1, <1>k, <1>n
            <4> QED BY <4>2, <3>1, <3>2, <2>3 DEF OneAtATime
        <3> QED BY <2>1, <2>2, <2>3, <3>2, <1>0 DEF NothingTwice
    <2>4. CASE kind = "foreach"
        <3>1. \A i \in Items : i \in reentryItems(k) /\ i # k[1] => i \notin history
            BY <2>4 DEF reentryItems, extraToRun, Recovered
        <3> QED BY <2>1, <2>2, <2>4, <3>1, <1>0 DEF NothingTwice
    <2>5. CASE kind = "parallel"
        <3>1. ASSUME NEW i \in Items, i \in reentryItems(k), <<i, 1>> # k
              PROVE  steps'[<<i, 1>>] \notin {"blocked", "completed"}
            <4>1. i # k[1]
                <5>1. k[2] = 1
                    BY <2>5, <1>k, Sizes DEF TypeOK
                <5> QED BY <5>1, <3>1, <1>k
            <4>2. <<i, 1>> \notin outputs /\ <<i, 1>> \notin pendingBlocks(k)
                BY <4>1, <3>1, <2>5 DEF reentryItems, extraToRun, Recovered, SiblingKey
            <4>3. steps[<<i, 1>>] \notin {"blocked", "completed"}
                BY <4>2, <3>1, <1>p, <2>5 DEF pendingBlocks, StepsInOrder
            <4> QED BY <4>3, <3>1, <2>1, <1>p, <2>5 DEF TypeOK
        <3> QED BY <2>1, <2>2, <2>5, <3>1, <1>0 DEF NothingTwice
    <2> QED BY <2>3, <2>4, <2>5, Sizes DEF TypeOK
<1>7. CASE Resume
    <2>1. CASE StartCall(Fresh, freshItems, First(laneCount, freshItems))
        <3>1. /\ Starts(Fresh, freshItems, First(laneCount, freshItems))
              /\ target' = Fresh /\ history' = history /\ steps' = steps
              /\ \A k \in StepKeys : steps[k] # "blocked"
            BY <1>7, <2>1, StartEffect DEF Resume, log, Starts, deriveRunStatus, StepIs
        <3>2. \A i \in Items : (Ahead(i)' <=> i \in freshItems) /\ (Waits(i)' <=> i \in freshItems)
            BY <3>1, <1>5, ItemsOfCall
        <3>3. CASE kind = "sequential"
            <4>1. ASSUME NEW i \in freshItems, i \in history PROVE FALSE
                <5>1. PICK f \in Items : /\ i = f \/ i \in (f + 1)..N
                                         /\ f \notin history
                    BY <4>1, <3>3, SequentialFresh
                <5>2. f \in 1..i
                    BY <5>1, <1>n
                <5> QED BY <5>1, <5>2, <4>1, <3>3 DEF OneAtATime
            <4> QED BY <3>1, <3>2, <3>3, <4>1, <1>0 DEF NothingTwice
        <3>4. CASE kind = "foreach"
            <4>1. \A i \in freshItems : i \notin history
                BY <3>4 DEF freshItems
            <4> QED BY <3>1, <3>2, <3>4, <4>1, <1>0 DEF NothingTwice
        <3>5. CASE kind = "parallel"
            BY <3>1, <3>5, <1>0, <1>p DEF NothingTwice
        <3> QED BY <3>3, <3>4, <3>5, Sizes DEF TypeOK
    <2>2. CASE phase = "returned" /\ UNCHANGED <<toRun, pc>>
        BY <2>2, <1>e DEF ItemsSettleOnce, Ahead, Working
    <2> QED BY <1>7, <2>1, <2>2 DEF Resume
<1> QED BY <1>1, <1>2, <1>3, <1>4, <1>6, <1>7 DEF Next, Settle, Commands

\* When the lanes are done and nothing is left to answer, the output is whole (concurrent-nodes.ts,
\* settleConcurrent; scheduler.ts, runForeach).
LEMMA ResultsAreWhole ==
    ASSUME TypeOK, ItemsSettleOnce, LanesKeepGoing, NothingIsLost, StepsInOrder, OpenStepsAreHeld,
           LanesDone, ~Some("cancelled"), ~Some("crashed"), ~Some("blocked"), still = {}
    PROVE  /\ results = Items
           /\ ~aborted => /\ kind # "parallel" => history = Items
                          /\ \A i \in Items \ Optional : \A s \in 1..BodyOf : <<i, s>> \in outputs
<1>1. \A i \in Items : i \in results
    <2>1. toRun = {}
        BY NothingUnderWay
    <2>2. \A i \in Items : pc[i] = "settled" => outcome[i] = "ok"
        BY DEF ItemsSettleOnce, Some, TypeOK, Outcomes
    <2> QED BY <2>1, <2>2 DEF NothingIsLost, LanesDone
<1>2. results = Items
    BY <1>1 DEF TypeOK
<1>3. ~aborted /\ kind # "parallel" => history = Items
    BY <1>2 DEF NothingIsLost, TypeOK
<1>4. ASSUME ~aborted PROVE \A i \in Items \ Optional : \A s \in 1..BodyOf : <<i, s>> \in outputs
    <2>1. CASE kind = "parallel"
        <3>1. \A s \in 1..BodyOf : s = 1
            BY <2>1, Sizes DEF TypeOK
        <3> QED BY <3>1, <2>1, <1>2, <1>4 DEF NothingIsLost
    <2>2. CASE kind # "parallel"
        BY <2>2, <1>3, <1>4 DEF StepsInOrder
    <2> QED BY <2>1, <2>2
<1> QED BY <1>2, <1>3, <1>4

\* Between calls no step is in progress, whatever a call left behind.
LEMMA NothingInProgress ==
    ASSUME TypeOK, ItemsSettleOnce, OpenStepsAreHeld, phase = "returned"
    PROVE  \A k \in StepKeys : steps[k] # "in_progress"
<1>1. ASSUME NEW k \in StepKeys, steps[k] = "in_progress" PROVE FALSE
    <2>1. k[1] \in Items
        BY ItemsOfCall
    <2>2. pc[k[1]] = "out" /\ outcome[k[1]] = "none" /\ toRun = {}
        BY <2>1 DEF ItemsSettleOnce, TypeOK, PCs, Outcomes
    <2> QED BY <2>2, <1>1 DEF OpenStepsAreHeld
<1> QED BY <1>1

LEMMA ReportsTheLogNext ==
    ASSUME TypeOK, ItemsSettleOnce, LanesKeepGoing, NothingIsLost, StepsInOrder, OpenStepsAreHeld,
           ReportsTheLog, [Next]_vars
    PROVE  ReportsTheLog'
<1>0. StepKeys' = StepKeys /\ BodyOf' = BodyOf /\ kind' = kind
    BY KindStays
<1>k. \A k \in StepKeys : k[1] \in Items /\ k[2] \in 1..BodyOf /\ k = <<k[1], k[2]>>
    BY ItemsOfCall
<1>1. CASE UNCHANGED vars
    BY <1>1, <1>0 DEF ReportsTheLog, StepIs, Recovered, vars, log, memory
<1>2. CASE phase' \notin {"completing", "returned"}
    BY <1>2 DEF ReportsTheLog
<1>3. ASSUME NEW i \in Items, ItemStep(i) PROVE ReportsTheLog'
    <2>1. Working(i) /\ phase' = phase
        BY <1>3, ItemCases DEF ItemStep, StartStep, EndStep, CheckpointItem, Working
    <2>2. phase' = "walking"
        BY <2>1 DEF ItemsSettleOnce
    <2> QED BY <2>2, <1>2
<1>4. CASE SettleCancelled
    <2>1. phase' = "returned" /\ report' = "cancelled" /\ aborted'
        BY <1>4 DEF SettleCancelled, Returns, LanesKeepGoing
    <2> QED BY <2>1 DEF ReportsTheLog
<1>5. CASE CrashRun
    <2>1. /\ phase' = "returned" /\ report' = "crashed" /\ aborted' = aborted
          /\ ~aborted => steps' = closeOpen("crashed") /\ terminal' = "crashed"
        BY <1>5 DEF CrashRun, Returns
    <2>2. ~aborted => \A k \in StepKeys : steps'[k] \notin {"in_progress", "blocked"}
        BY <2>1, CloseEffect
    <2> QED BY <2>1, <2>2, <1>0 DEF ReportsTheLog
<1>6. CASE SettleBlocked
    <2>1. /\ phase' = "returned" /\ report' = "blocked" /\ aborted' = aborted /\ steps' = steps
          /\ phase = "walking"
        BY <1>6 DEF SettleBlocked, LanesDone, Returns, log
    <2>2. ~aborted => \E k \in StepKeys : steps[k] = "blocked"
        <3>1. CASE Some("blocked")
            BY <3>1, <2>1, StepKeyType DEF Some, OpenStepsAreHeld
        <3>2. CASE still # {}
            BY <3>2 DEF OpenStepsAreHeld, TypeOK
        <3> QED BY <3>1, <3>2, <1>6 DEF SettleBlocked
    <2>3. ~aborted => StepIs("blocked")'
        BY <2>1, <2>2, <1>0 DEF StepIs
    <2> QED BY <2>1, <2>3 DEF ReportsTheLog
<1>7. CASE CompleteNode
    <2>1. /\ phase' = "completing" /\ UNCHANGED <<steps, outputs, history>>
          /\ LanesDone /\ ~Some("cancelled") /\ ~Some("crashed") /\ ~Some("blocked") /\ still = {}
        BY <1>7 DEF CompleteNode
    <2>2. \A k \in StepKeys : steps[k] # "in_progress"
        BY <2>1, NothingUnderWay
    <2>3. ASSUME NEW k \in StepKeys, steps[k] = "blocked" PROVE k[1] \in Recovered
        <3>1. ~aborted /\ k[1] \in Items \ Optional
            BY <2>3, <1>k DEF OpenStepsAreHeld, StepsInOrder
        <3>2. /\ kind # "parallel" => history = Items
              /\ \A s \in 1..BodyOf : <<k[1], s>> \in outputs
            BY <3>1, <2>1, ResultsAreWhole
        <3>3. 1 \in 1..BodyOf
            BY Sizes DEF TypeOK
        <3> QED BY <3>1, <3>2, <3>3 DEF Recovered
    <2>4. Recovered' = Recovered
        BY <2>1, <1>0 DEF Recovered
    <2> QED BY <2>1, <2>2, <2>3, <2>4, <1>0 DEF ReportsTheLog
<1>8. CASE CompleteRun
    <2>1. /\ phase = "completing" /\ phase' = "returned" /\ aborted' = aborted
          /\ UNCHANGED <<steps, outputs, history>>
          /\ report' = IF aborted THEN "cancelled" ELSE "completed"
          /\ ~aborted => terminal' = "completed"
        BY <1>8 DEF CompleteRun, Returns
    <2>2. Recovered' = Recovered
        BY <2>1, <1>0 DEF Recovered
    <2> QED BY <2>1, <2>2, <1>0 DEF ReportsTheLog
<1>9. CASE Resume
    <2>1. /\ phase' \in {"walking", "completing"} /\ steps' = steps
          /\ \A k \in StepKeys : steps[k] \notin {"in_progress", "blocked"}
        BY <1>9 DEF Resume, StartCall, deriveRunStatus, StepIs, log
    <2> QED BY <2>1, <1>0 DEF ReportsTheLog
<1>10. CASE Cancel
    <2>1. /\ phase' = phase /\ UNCHANGED <<outputs, history>> /\ terminal' = "cancelled"
          /\ steps' = closeOpen("cancelled")
          /\ phase = "returned" => report' = "cancelled"
        BY <1>10 DEF Cancel
    <2>2. \A k \in StepKeys : steps'[k] \notin {"in_progress", "blocked"}
        BY <2>1, CloseEffect
    <2> QED BY <2>1, <2>2, <1>0 DEF ReportsTheLog
<1>11. CASE Reconcile
    <2>1. phase' = "returned" /\ report' = "none"
        BY <1>11 DEF Reconcile, ItemsSettleOnce
    <2> QED BY <2>1 DEF ReportsTheLog
<1>12. CASE SettleCrashed \/ Crash \/ (\E k \in StepKeys : AbandonBlocked(k) \/ Answer(k))
    BY <1>12, <1>2 DEF SettleCrashed, Crash, AbandonBlocked, Answer, StartCall
<1> QED BY <1>1, <1>3, <1>4, <1>5, <1>6, <1>7, <1>8, <1>9, <1>10, <1>11, <1>12
       DEF Next, Settle, Commands

-----------------------------------------------------------------------------
(* The invariant, and what follows from it.                                 *)

LEMMA InitInv == Init => IInv
<1> SUFFICES ASSUME Init PROVE IInv
    OBVIOUS
<1> DEFINE C == First(laneCount, Items)
<1>1. TypeOK
    BY TypeInit
<1>2. /\ kind \in {"sequential", "foreach", "parallel"} /\ C \subseteq Items
      /\ Items # {} => C # {}
    <2>1. laneCount \in Nat \ {0} /\ Items \in SUBSET Nat
        BY <1>1, Sizes DEF TypeOK
    <2> QED BY <2>1, <1>1, FirstIsSome, Sizes DEF TypeOK
<1>3. kind = "sequential" => C = {1} /\ Items \ C = (1 + 1)..N /\ 1 \in Items
    <2>1. N \in Nat \ {0} /\ Items = 1..N
        BY <1>1, Sizes, FanOutAssumption DEF TypeOK, Items
    <2>2. First(1, 1..N) = {1}
        <3>1. 1 \in Nat /\ N \in Nat /\ 1 <= N
            BY <2>1
        <3>2. First(1, 1..N) = IF 1 <= N THEN {1} ELSE {}
            BY <3>1, FirstOfRange
        <3> QED BY <3>1, <3>2
    <2>3. (1..N) \ {1} = (1 + 1)..N
        BY <2>1
    <2> QED BY <2>1, <2>2, <2>3, <1>1, Sizes DEF TypeOK
<1>4. /\ phase = "walking" /\ target = Fresh /\ toRun = Items \ C /\ ~stopped /\ ~aborted
      /\ \A i \in Items : /\ pc[i] = IF i \in C THEN "boundary" ELSE "out"
                          /\ at[i] = 1 /\ outcome[i] = "none"
      /\ \A k \in StepKeys : steps[k] = "todo"
      /\ results = {} /\ still = {} /\ history = {} /\ outputs = {} /\ report = "none"
    BY DEF Init
<1> HIDE DEF C
<1>5. \A i \in Items : Working(i) <=> i \in C
    BY <1>4 DEF Working
<1>6. ItemsSettleOnce /\ LanesKeepGoing /\ NothingIsLost
    BY <1>2, <1>4, <1>5 DEF ItemsSettleOnce, LanesKeepGoing, NothingIsLost, Some
<1>7. StepsInOrder
    <2>1. \A i \in Items : \A s \in 1..(at[i] - 1) : FALSE
        BY <1>4
    <2> QED BY <2>1, <1>4 DEF StepsInOrder
<1>8. OpenStepsAreHeld
    BY <1>4 DEF OpenStepsAreHeld
<1>9. OneAtATime
    <2> SUFFICES ASSUME kind = "sequential" PROVE OneAtATime
        BY DEF OneAtATime
    <2>1. \A i \in Items : Working(i) <=> i = 1
        BY <1>3, <1>5
    <2>2. \A s \in 1..(1 - 1) : FALSE
        OBVIOUS
    <2> QED BY <2>1, <2>2, <1>3, <1>4 DEF OneAtATime
<1>10. NothingTwice /\ ReportsTheLog
    <2>1. kind = "parallel" => \A i \in Items : <<i, 1>> \in StepKeys
        BY <1>1, Sizes DEF TypeOK, StepKeys
    <2> QED BY <2>1, <1>4 DEF NothingTwice, ReportsTheLog
<1> QED BY <1>1, <1>6, <1>7, <1>8, <1>9, <1>10 DEF IInv

LEMMA NextInv == IInv /\ [Next]_vars => IInv'
BY TypeNext, ItemsSettleOnceNext, LanesKeepGoingNext, NothingIsLostNext, StepsInOrderNext,
   OpenStepsAreHeldNext, OneAtATimeNext, NothingTwiceNext, ReportsTheLogNext DEF IInv

\* Whatever the items, the lanes, the calls, the crashes and the cancellations: what a call of
\* the engine has in memory agrees with what the log records (scheduler.ts, concurrent-nodes.ts).
THEOREM Inductive == Spec => []IInv
BY InitInv, NextInv, PTL DEF Spec

\* What a command reports is the status the next one derives from the log, unless a step that is
\* blocked belongs to an item re-entry takes for done (run-status.ts, deriveRunStatus; commands.ts).
THEOREM ReportsAreTrue == Spec => []ReportMatchesStatusOtherwise
<1>1. IInv => ReportMatchesStatusOtherwise
    <2> SUFFICES ASSUME IInv, ~BlockedButRecovered, phase = "returned", report # "none"
                 PROVE  deriveRunStatus = IF aborted THEN "cancelled" ELSE report
        BY DEF ReportMatchesStatusOtherwise, ReportMatchesStatus
    <2> USE DEF IInv
    <2>1. ~StepIs("in_progress")
        BY NothingInProgress DEF StepIs
    <2>2. CASE aborted
        <3>1. terminal = "cancelled" /\ ~StepIs("blocked")
            BY <2>2 DEF OpenStepsAreHeld, StepIs
        <3> QED BY <2>1, <2>2, <3>1 DEF deriveRunStatus
    <2>3. CASE ~aborted /\ report = "blocked"
        BY <2>1, <2>3 DEF ReportsTheLog, deriveRunStatus
    <2>4. CASE ~aborted /\ report \in {"crashed", "cancelled"}
        <3>1. terminal = report /\ ~StepIs("blocked")
            BY <2>4 DEF ReportsTheLog, StepIs
        <3> QED BY <2>1, <2>4, <3>1 DEF deriveRunStatus
    <2>5. CASE ~aborted /\ report = "completed"
        <3>1. terminal = report /\ ~StepIs("blocked")
            BY <2>5 DEF ReportsTheLog, StepIs, BlockedButRecovered
        <3> QED BY <2>1, <2>5, <3>1 DEF deriveRunStatus
    <2> QED BY <2>2, <2>3, <2>4, <2>5 DEF TypeOK
<1> QED BY <1>1, Inductive, PTL

\* A step is put in progress by the lane that has its item, or by its answer.
LEMMA StepOpens ==
    ASSUME TypeOK, ItemsSettleOnce, Next, NEW k \in StepKeys, steps'[k] = "in_progress",
           steps[k] # "in_progress"
    PROVE  \/ /\ target' = target /\ k # target
              /\ k[1] \in Items /\ at[k[1]] = k[2] /\ pc[k[1]] = "boundary"
           \/ /\ phase = "returned" /\ target' = k
<1>k. k[1] \in Items /\ k[2] \in 1..BodyOf /\ k = <<k[1], k[2]>>
    BY ItemsOfCall
<1>1. ASSUME NEW i \in Items, ItemStep(i)
      PROVE  target' = target /\ k # target /\ at[k[1]] = k[2] /\ pc[k[1]] = "boundary"
    <2>0. StepKey(i) \in StepKeys /\ StepKey(i) = <<i, at[i]>>
        BY StepKeyType
    <2>1. ASSUME NEW o \in {"ok", "failed", "blocked", "crashed", "cancelled"}, EndStep(i, o)
          PROVE  FALSE
        <3>1. \/ UNCHANGED steps
              \/ \E s \in {"completed", "crashed", "blocked"} : steps' = [steps EXCEPT ![StepKey(i)] = s]
            BY <2>1, EndCases
        <3> QED BY <3>1, <2>0 DEF TypeOK
    <2>2. /\ pc[i] = "boundary" /\ target' = target /\ ~Reentered(i)
          /\ Record(StepKey(i), "in_progress")
        BY <1>1, <2>1, ItemCases
    <2>3. k = StepKey(i)
        BY <2>0, <2>2 DEF Record, TypeOK
    <2> QED BY <2>0, <2>2, <2>3, <1>k DEF Reentered
<1>2. ASSUME NEW l \in StepKeys, Answer(l) PROVE phase = "returned" /\ target' = k
    <2>1. /\ phase = "returned" /\ target' = l
          /\ steps' = [steps EXCEPT ![l] = "in_progress"]
        BY <1>2 DEF Answer, StartCall
    <2> QED BY <2>1 DEF TypeOK
<1>3. CASE Settle \/ Resume \/ Cancel \/ Crash \/ Reconcile
    <2>1. \/ UNCHANGED steps
          \/ \E l \in StepKeys : Record(l, "cancelled")
          \/ \E s \in {"cancelled", "crashed"} : steps' = closeOpen(s)
        BY <1>3 DEF Settle, SettleCancelled, SettleCrashed, CrashRun, SettleBlocked, CompleteNode,
                    CompleteRun, AbandonBlocked, Resume, Cancel, Crash, Reconcile, log
    <2>2. ASSUME NEW s \in {"cancelled", "crashed"}, steps' = closeOpen(s) PROVE FALSE
        BY <2>2, CloseEffect
    <2>3. ASSUME NEW l \in StepKeys, Record(l, "cancelled") PROVE FALSE
        BY <2>3 DEF Record, TypeOK
    <2> QED BY <2>1, <2>2, <2>3
<1> QED BY <1>k, <1>1, <1>2, <1>3 DEF Next, Commands

\* Answering one arm of a parallel leaves every other blocked arm as it is
\* (concurrent-nodes.ts, re-entry: "leaves every OTHER still-blocked sibling untouched").
THEOREM BlockedArmsStay == Spec => BlockedArmsUntouched
<1> DEFINE A == kind = "parallel" => \A k \in StepKeys : OthersUntouched(k)
<1>1. ASSUME IInv, [Next]_vars PROVE [A]_vars
    <2> SUFFICES ASSUME Next, kind = "parallel", NEW k \in StepKeys,
                        steps[k] = "blocked", steps'[k] = "in_progress"
                 PROVE  phase = "returned" /\ target' = k
        BY <1>1 DEF OthersUntouched
    <2>0. TypeOK /\ ItemsSettleOnce /\ NothingTwice
        BY <1>1 DEF IInv
    <2>1. k[1] \in Items /\ k = <<k[1], 1>>
        <3>1. k[2] = 1
            BY <2>0, ItemsOfCall, Sizes DEF TypeOK
        <3> QED BY <3>1, <2>0, ItemsOfCall
    <2>2. ~(k # target /\ pc[k[1]] = "boundary")
        BY <2>0, <2>1 DEF NothingTwice
    <2> QED BY <2>0, <2>2, StepOpens
<1>2. []IInv /\ [][Next]_vars => [][A]_vars
    BY <1>1, PTL
<1> QED BY <1>2, Inductive, PTL DEF Spec, BlockedArmsUntouched

\* No step of a checkpointed foreach item starts again, nor a completed arm while its siblings are
\* answered (concurrent-nodes.ts, runForeachSequential, extraToRun).
THEOREM CompletedWorkStays == Spec => CompletedWorkIsKept
<1> DEFINE A == \A k \in StepKeys : Kept(k) => steps'[k] # "in_progress"
<1>1. ASSUME IInv, [Next]_vars PROVE [A]_vars
    <2> SUFFICES ASSUME Next, NEW k \in StepKeys, Kept(k), steps'[k] = "in_progress"
                 PROVE  FALSE
        BY <1>1
    <2>1. TypeOK /\ ItemsSettleOnce /\ NothingTwice
        BY <1>1 DEF IInv
    <2>2. steps[k] # "in_progress"
        BY DEF Kept
    <2>3. CASE phase = "returned" /\ target' = k
        BY <2>1, <2>3 DEF Kept, ItemsSettleOnce
    <2>4. CASE target' = target /\ k # target /\ k[1] \in Items /\ at[k[1]] = k[2] /\ pc[k[1]] = "boundary"
        <3>1. CASE kind = "parallel"
            <4>1. k = <<k[1], 1>>
                <5>1. k[2] = 1
                    BY <2>1, <3>1, ItemsOfCall, Sizes DEF TypeOK
                <5> QED BY <5>1, <2>1, ItemsOfCall
            <4> QED BY <4>1, <2>1, <2>4, <3>1 DEF Kept, NothingTwice
        <3>2. CASE kind # "parallel"
            BY <2>1, <2>4, <3>2 DEF Kept, NothingTwice, Ahead, Working
        <3> QED BY <3>1, <3>2
    <2> QED BY <2>1, <2>2, <2>3, <2>4, StepOpens
<1>2. []IInv /\ [][Next]_vars => [][A]_vars
    BY <1>1, PTL
<1> QED BY <1>2, Inductive, PTL DEF Spec, CompletedWorkIsKept

\* The construct's node-completed is recorded only when every item has its place in the output and
\* every required step its own (scheduler.ts, runForeach; concurrent-nodes.ts, settleConcurrent).
THEOREM OutputsAreWhole == Spec => OutputIsWhole
<1> DEFINE A == nodeDone' /\ ~nodeDone =>
                    /\ results = Items
                    /\ \A i \in Items \ Optional : \A s \in 1..BodyOf : <<i, s>> \in outputs
                    /\ kind # "parallel" => history = Items
<1>1. ASSUME IInv, [Next]_vars PROVE [A]_vars
    <2> SUFFICES ASSUME Next, nodeDone', ~nodeDone PROVE A
        BY <1>1
    <2>1. \/ CompleteNode
          \/ nodeDone' = nodeDone
        <3>1. ASSUME NEW i \in Items, ItemStep(i) PROVE nodeDone' = nodeDone
            BY <3>1, <1>1, ItemCases DEF IInv
        <3> QED BY <3>1 DEF Next, Settle, SettleCancelled, SettleCrashed, CrashRun, SettleBlocked,
                   CompleteRun, AbandonBlocked, Commands, Resume, Cancel, Answer, Crash, Reconcile, log
    <2>2. /\ LanesDone /\ ~Some("cancelled") /\ ~Some("crashed") /\ ~Some("blocked") /\ still = {}
          /\ ~aborted
        BY <2>1 DEF CompleteNode
    <2> QED BY <2>2, <1>1, ResultsAreWhole DEF IInv
<1>2. []IInv /\ [][Next]_vars => [][A]_vars
    BY <1>1, PTL
<1> QED BY <1>2, Inductive, PTL DEF Spec, OutputIsWhole

\* Drain, then crash: once an item of a fresh round crashed, no lane claims another one
\* (scheduler.ts, runLanes).
THEOREM DrainsOnly == Spec => DrainClaimsNothing
<1> DEFINE A == target = Fresh /\ Some("crashed")' =>
                    \A i \in Items : pc[i] = "out" => pc'[i] = "out"
<1>1. ASSUME IInv, [Next]_vars PROVE [A]_vars
    <2> SUFFICES ASSUME Next, target = Fresh, Some("crashed")', NEW j \in Items, pc[j] = "out"
                 PROVE  pc'[j] = "out"
        BY <1>1
    <2>0. TypeOK /\ LanesKeepGoing
        BY <1>1 DEF IInv
    <2>1. ASSUME NEW i \in Items, ItemStep(i) PROVE pc'[j] = "out"
        <3>1. j # i
            BY <2>1 DEF ItemStep, StartStep, EndStep, CheckpointItem
        <3>2. ASSUME NEW o, Settles(i, o) PROVE pc'[j] = "out"
            <4>1. /\ LaneClaims(o) # {} => ~stopped /\ ~Stops(o)
                  /\ outcome'[i] = o
                  /\ \A h \in Items \ {i} : /\ pc'[h] = IF h \in LaneClaims(o) THEN "boundary" ELSE pc[h]
                                            /\ outcome'[h] = outcome[h]
                BY <2>0, <3>2, LaneEffect DEF Settles
            <4>2. Some("crashed") \/ o = "crashed"
                BY <4>1 DEF Some
            <4>3. stopped \/ Stops(o)
                BY <4>2, <2>0 DEF LanesKeepGoing, Stops
            <4> QED BY <4>1, <4>3, <3>1
        <3>3. (\E o \in Outcomes : Settles(i, o)) \/ \E p \in PCs : pc' = [pc EXCEPT ![i] = p]
            <4>1. ASSUME NEW o \in {"ok", "failed", "blocked", "crashed", "cancelled"}, EndStep(i, o)
                  PROVE  (\E q \in Outcomes : Settles(i, q)) \/ \E p \in PCs : pc' = [pc EXCEPT ![i] = p]
                BY <2>0, <4>1, EndCases DEF PCs, Outcomes
            <4> QED BY <2>0, <2>1, <4>1, ItemCases DEF PCs, Outcomes
        <3> QED BY <3>1, <3>2, <3>3, <2>0 DEF TypeOK
    <2>2. CASE SettleCancelled \/ SettleBlocked \/ CrashRun \/ CompleteRun \/ Crash
        <3>1. Drops
            BY <2>2, DropsEffect DEF SettleCancelled, SettleBlocked, CrashRun, CompleteRun, Crash, Returns
        <3> QED BY <3>1 DEF Drops
    <2>3. CASE SettleCrashed \/ CompleteNode \/ (\E k \in StepKeys : AbandonBlocked(k)) \/ Cancel \/ Reconcile
        BY <2>3 DEF SettleCrashed, CompleteNode, AbandonBlocked, Cancel, Reconcile, memory
    <2>4. ASSUME NEW k \in StepKeys \union {Fresh}, NEW S, NEW C, StartCall(k, S, C) PROVE FALSE
        BY <2>4 DEF StartCall, Some
    <2>5. CASE Commands /\ ~Cancel
        BY <2>4, <2>5 DEF Commands, Resume, Answer
    <2> QED BY <2>1, <2>2, <2>3, <2>5 DEF Next, Settle, Commands
<1>2. []IInv /\ [][Next]_vars => [][A]_vars
    BY <1>1, PTL
<1> QED BY <1>2, Inductive, PTL DEF Spec, DrainClaimsNothing

-----------------------------------------------------------------------------
(* What commit() promises the fan-out, for every definition, ceiling and    *)
(* pair of node paths: steps that may be under way together are isolated.   *)
(* The walk of isolation.ts goes down the definition, an overlap is a       *)
(* matter of two paths: the proof finds, at the segment where the paths     *)
(* part, the construct above the step that the walk found.                  *)

Names(S) == {s[1] : s \in S}

\* The scopes along a path are the prefixes of its names (node-path.ts, staticKeyOf).
LEMMA ScopesAlongPath ==
    ASSUME NEW S, NEW p \in Seq(S), NEW n \in 0..Len(p)
    PROVE  /\ ScopeAfter(p, n) \in Seq(Names(S))
           /\ Len(ScopeAfter(p, n)) = n
           /\ \A i \in 1..n : ScopeAfter(p, n)[i] = p[i][1]
           /\ \A m \in 0..n : SubSeq(ScopeAfter(p, n), 1, m) = ScopeAfter(p, m)
<1> DEFINE T == Names(S)
           names == ScopeOf(p)
<1>1. names \in Seq(T) /\ Len(names) = Len(p) /\ \A i \in 1..Len(p) : names[i] = p[i][1]
    BY DEF ScopeOf, Names
<1> HIDE DEF names, T
<1>2. ASSUME NEW k \in 0..Len(p)
      PROVE  /\ ScopeAfter(p, k) \in Seq(T)
             /\ Len(ScopeAfter(p, k)) = k
             /\ \A i \in 1..k : ScopeAfter(p, k)[i] = names[i]
    <2>1. ScopeAfter(p, k) = SubSeq(names, 1, k)
        BY DEF ScopeAfter, names
    <2>2. \A i \in 1..k : names[i] \in T
        BY <1>1
    <2>3. /\ SubSeq(names, 1, k) \in Seq(T)
          /\ Len(SubSeq(names, 1, k)) = IF 1 <= k THEN k - 1 + 1 ELSE 0
          /\ \A i \in 1..k - 1 + 1 : SubSeq(names, 1, k)[i] = names[1 + i - 1]
        BY <2>2, SubSeqProperties
    <2> QED BY <2>1, <2>3
<1>3. ASSUME NEW m \in 0..n
      PROVE  SubSeq(ScopeAfter(p, n), 1, m) = ScopeAfter(p, m)
    <2> DEFINE s == ScopeAfter(p, n)
    <2>1. s \in Seq(T) /\ Len(s) = n /\ \A i \in 1..n : s[i] = names[i]
        BY <1>2
    <2> HIDE DEF s
    <2>2. \A i \in 1..m : s[i] \in T
        BY <2>1
    <2>3. /\ SubSeq(s, 1, m) \in Seq(T)
          /\ Len(SubSeq(s, 1, m)) = IF 1 <= m THEN m - 1 + 1 ELSE 0
          /\ \A i \in 1..m - 1 + 1 : SubSeq(s, 1, m)[i] = s[1 + i - 1]
        BY <2>2, SubSeqProperties
    <2>. m \in 0..Len(p)
        OBVIOUS
    <2>4. /\ ScopeAfter(p, m) \in Seq(T) /\ Len(ScopeAfter(p, m)) = m
          /\ \A i \in 1..m : ScopeAfter(p, m)[i] = names[i]
        BY <1>2
    <2>5. SubSeq(s, 1, m) = ScopeAfter(p, m)
        BY <2>1, <2>3, <2>4, SeqEqual
    <2> QED BY <2>5 DEF s
<1>4. n \in 0..Len(p)
    OBVIOUS
<1>5. ScopeAfter(p, n) \in Seq(T) /\ Len(ScopeAfter(p, n)) = n
    BY <1>2, <1>4
<1>6. ASSUME NEW i \in 1..n PROVE ScopeAfter(p, n)[i] = p[i][1]
    BY <1>1, <1>2, <1>4
<1> QED BY <1>3, <1>5, <1>6 DEF T

\* A construct of concurrent items or arms above an execution is one the walk passed on its way
\* to the step's scope (isolation.ts, resolveNode).
LEMMA WalkFindsConstruct ==
    ASSUME NEW def, NEW S, NEW p \in Seq(S), p # <<>>,
           NEW n \in 1..Len(p) - 1, NEW node, IsNodeAt(def, p, n, node), Overlapping(node)
    PROVE  Isolated(def, ScopeAfter(p, Len(p) - 1))
<1> DEFINE scope == ScopeAfter(p, Len(p) - 1)
<1>1. Len(p) \in Nat /\ Len(p) - 1 \in 0..Len(p) /\ n - 1 \in 0..Len(p) - 1
    OBVIOUS
<1>2. Len(scope) = Len(p) - 1 /\ scope[n] = p[n][1] /\ SubSeq(scope, 1, n - 1) = ScopeAfter(p, n - 1)
    BY <1>1, ScopesAlongPath
<1>3. PICK i \in DOMAIN def[ScopeAfter(p, n - 1)] : def[ScopeAfter(p, n - 1)][i] = node /\ node.name = p[n][1]
    BY DEF IsNodeAt
<1> HIDE DEF scope
<1>4. Isolated(def, scope)
    BY <1>2, <1>3 DEF Isolated
<1> QED BY <1>4 DEF scope

\* Paths that are one up to a segment lead to one scope there.
LEMMA OneScopeBefore ==
    ASSUME NEW S, NEW p \in Seq(S), NEW q \in Seq(S), NEW n, Part(p, q, n)
    PROVE  /\ \A i \in 1..n - 1 : p[i] = q[i]
           /\ \A m \in 0..n - 1 : ScopeAfter(p, m) = ScopeAfter(q, m)
<1> DEFINE k == n - 1
<1>1. k \in 0..Len(p) /\ k \in 0..Len(q) /\ SubSeq(p, 1, k) = SubSeq(q, 1, k)
    BY DEF Part
<1> HIDE DEF k
<1>2. ASSUME NEW r \in Seq(S), k \in 0..Len(r)
      PROVE  \A i \in 1..k : SubSeq(r, 1, k)[i] = r[i]
    <2>1. \A i \in 1..k : r[i] \in S
        BY <1>2
    <2>2. /\ SubSeq(r, 1, k) \in Seq(S)
          /\ Len(SubSeq(r, 1, k)) = IF 1 <= k THEN k - 1 + 1 ELSE 0
          /\ \A i \in 1..k - 1 + 1 : SubSeq(r, 1, k)[i] = r[1 + i - 1]
        BY <1>1, <2>1, SubSeqProperties
    <2> QED BY <1>2, <2>2
<1>3. \A i \in 1..k : p[i] = q[i]
    BY <1>1, <1>2
<1>4. ASSUME NEW m \in 0..k PROVE ScopeAfter(p, m) = ScopeAfter(q, m)
    <2> DEFINE T == Names(S)
               a == ScopeAfter(p, m)
               b == ScopeAfter(q, m)
    <2>1. /\ a \in Seq(T) /\ Len(a) = m /\ \A i \in 1..m : a[i] = p[i][1]
          /\ b \in Seq(T) /\ Len(b) = m /\ \A i \in 1..m : b[i] = q[i][1]
        BY <1>1, ScopesAlongPath
    <2>2. \A i \in 1..m : p[i] = q[i]
        BY <1>1, <1>3
    <2> HIDE DEF T, a, b
    <2>3. a = b
        BY <2>1, <2>2, SeqEqual
    <2> QED BY <2>3 DEF a, b
<1> QED BY <1>3, <1>4 DEF k

\* Overlap is mutual.
LEMMA AtOnceIsMutual ==
    ASSUME NEW def, NEW S, NEW p \in Seq(S), NEW q \in Seq(S), AtOnce(def, p, q)
    PROVE  AtOnce(def, q, p)
<1>1. ASSUME NEW n, Part(p, q, n) PROVE Part(q, p, n)
    BY <1>1 DEF Part
<1>2. CASE ItemsAtOnce(def, p, q)
    <2>1. PICK n \in 1..Len(p), node \in NodesOf(def) :
            /\ Part(p, q, n) /\ IsItem(p[n]) /\ IsItem(q[n]) /\ p[n][1] = q[n][1]
            /\ IsNodeAt(def, p, n, node) /\ node.kind = "foreach" /\ node.concurrency > 1
        BY <1>2 DEF ItemsAtOnce
    <2>2. n \in 1..Len(q) /\ n - 1 \in 0..n - 1
        BY <2>1 DEF Part
    <2>. ScopeAfter(p, n - 1) = ScopeAfter(q, n - 1)
        BY <2>1, <2>2, OneScopeBefore
    <2>3. IsNodeAt(def, q, n, node)
        BY <2>1, <2>2 DEF IsNodeAt
    <2> QED BY <1>1, <2>1, <2>2, <2>3 DEF AtOnce, ItemsAtOnce
<1>3. CASE ArmsAtOnce(def, p, q)
    <2>1. PICK node \in NodesOf(def) :
            /\ Part(p, q, Len(p)) /\ Len(q) = Len(p) /\ Len(p) > 1
            /\ IsNodeAt(def, p, Len(p) - 1, node) /\ node.kind = "parallel"
        BY <1>3 DEF ArmsAtOnce
    <2>2. /\ p[Len(p) - 1] = q[Len(p) - 1]
          /\ ScopeAfter(p, Len(p) - 1 - 1) = ScopeAfter(q, Len(p) - 1 - 1)
        BY <2>1, OneScopeBefore
    <2>3. IsNodeAt(def, q, Len(q) - 1, node)
        BY <2>1, <2>2 DEF IsNodeAt
    <2> QED BY <1>1, <2>1, <2>3 DEF AtOnce, ArmsAtOnce
<1> QED BY <1>2, <1>3 DEF AtOnce

\* An execution that can be under way together with another is one the walk tags and checks
\* (isolation.ts, resolveStep).
LEMMA OverlapIsChecked ==
    ASSUME NEW def, NEW ceiling, commit(def, ceiling),
           NEW S, NEW p \in Seq(S), NEW q \in Seq(S), NEW step,
           IsExecution(def, p, step), Agent(step), AtOnce(def, p, q)
    PROVE  /\ Isolated(def, ScopeAfter(p, Len(p) - 1))
           /\ ~step.asks /\ step.resumable.by # "string"
<1>1. p # <<>> /\ p[Len(p)] = Plain(step.name)
    BY DEF IsExecution
<1>2. ~IsItem(p[Len(p)])
    BY <1>1 DEF Plain, IsItem
<1>3. \E d \in 1..Len(p) - 1, node \in NodesOf(def) : IsNodeAt(def, p, d, node) /\ Overlapping(node)
    <2>1. CASE ItemsAtOnce(def, p, q)
        <3>1. PICK n \in 1..Len(p), node \in NodesOf(def) :
                IsItem(p[n]) /\ IsNodeAt(def, p, n, node) /\ node.kind = "foreach" /\ node.concurrency > 1
            BY <2>1 DEF ItemsAtOnce
        <3>2. n # Len(p)
            BY <1>2, <3>1
        <3> QED BY <3>1, <3>2 DEF Overlapping
    <2>2. CASE ArmsAtOnce(def, p, q)
        BY <2>2 DEF ArmsAtOnce, Overlapping
    <2> QED BY <2>1, <2>2 DEF AtOnce
<1>4. Isolated(def, ScopeAfter(p, Len(p) - 1))
    BY <1>1, <1>3, WalkFindsConstruct
<1>5. MayOverlap(step)
    <2>1. resolveIsolation(def)
        BY DEF commit
    <2>2. PICK i \in DOMAIN def[ScopeAfter(p, Len(p) - 1)] : def[ScopeAfter(p, Len(p) - 1)][i] = step
        BY DEF IsExecution, IsNodeAt
    <2> QED BY <1>4, <2>1, <2>2 DEF resolveIsolation, IsExecution
<1> QED BY <1>4, <1>5 DEF MayOverlap

\* Arms of a parallel have names of their own: steps of one name that can be under way at once are
\* those of two items (create-workflow.ts, parallel).
LEMMA NamesakesAreItems ==
    ASSUME NEW def, NEW p, NEW q, NEW step, NEW other,
           IsExecution(def, p, step), IsExecution(def, q, other), step.name = other.name,
           AtOnce(def, p, q)
    PROVE  ItemsAtOnce(def, p, q)
<1> SUFFICES ASSUME ArmsAtOnce(def, p, q) PROVE FALSE
    BY DEF AtOnce
<1>1. p[Len(p)] = Plain(step.name) /\ q[Len(q)] = Plain(other.name)
    BY DEF IsExecution
<1>2. Len(q) = Len(p) /\ p[Len(p)] # q[Len(p)]
    BY DEF ArmsAtOnce, Part
<1> QED BY <1>1, <1>2

\* A committed workflow leaves no agent step in the parent's session, asking in it, or on a static
\* resume key, that can be under way together with another execution (isolation.ts).  Two that
\* come to one resume file at once do so by a function, or are items of a concurrent foreach known
\* by one name: these commit() accepts, and only the claim of pi-agent.ts keeps them apart.
THEOREM CommitIsolatesOverlap ==
    ASSUME NEW def, NEW ceiling, commit(def, ceiling),
           NEW S, NEW p \in Seq(S), NEW q \in Seq(S), NEW step, NEW other, NEW returned
    PROVE  /\ OverlapIsIsolated(def, p, q, step)
           /\ LeftToTheClaim(def, p, step, q, other, returned)
<1>1. OverlapIsIsolated(def, p, q, step)
    BY OverlapIsChecked DEF OverlapIsIsolated
<1>2. LeftToTheClaim(def, p, step, q, other, returned)
    <2> SUFFICES ASSUME IsExecution(def, p, step), IsExecution(def, q, other), AtOnce(def, p, q),
                        OneFile(step, p, other, q, returned),
                        step.resumable.by # "function", other.resumable.by # "function",
                        Continues(step), Continues(other)
                 PROVE  /\ step.resumable.by = "name" /\ other.resumable.by = "name"
                        /\ step.name = other.name /\ ItemsAtOnce(def, p, q)
        BY DEF LeftToTheClaim, OneFile
    <2>1. step.resumable.by # "string" /\ other.resumable.by # "string"
        BY OverlapIsChecked, AtOnceIsMutual DEF Continues
    <2>2. step.name = other.name
        BY <2>1 DEF OneFile, resolveResumeKey
    <2>3. ItemsAtOnce(def, p, q)
        BY <2>2, NamesakesAreItems
    <2> QED BY <2>1, <2>2, <2>3 DEF Continues
<1> QED BY <1>1, <1>2
=============================================================================
