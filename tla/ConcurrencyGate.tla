---------------------------- MODULE ConcurrencyGate ----------------------------
(***************************************************************************)
(* The run-wide ceiling on steps that execute at once                      *)
(* (createConcurrencyGate, src/engine/scheduler.ts): a semaphore that      *)
(* wakes its waiters first come, first served.  runStepNode takes a slot   *)
(* before a step executes and gives it back when it settles.  Resolving a  *)
(* waiter's promise and the waiter going on are two steps: the slot is     *)
(* counted at the first, the step is marked in flight at the second.       *)
(***************************************************************************)
EXTENDS Integers, Sequences, FiniteSets

CONSTANTS
    Steps,      \* the steps that compete for the slots
    Limit       \* workflow.maxConcurrency, as the author wrote it

ASSUME GateAssumption == Limit \in Int

VARIABLES
    active,     \* the gate's counter
    queue,      \* steps that wait in acquire(), the longest-waiting first
    granted,    \* steps whose acquire() has resolved, but that have not gone on yet
    inFlight    \* RunState.inFlight: the steps that execute

vars == <<active, queue, granted, inFlight>>

capacity == IF Limit > 1 THEN Limit ELSE 1

\* The steps that wait.
Waiting == {queue[n] : n \in DOMAIN queue}

Holders == granted \union inFlight

TypeOK ==
    /\ active \in Nat
    /\ queue \in Seq(Steps)
    /\ granted \subseteq Steps
    /\ inFlight \subseteq Steps

Init == active = 0 /\ queue = <<>> /\ granted = {} /\ inFlight = {}

\* Bug in acquire: one slot too many.
AcquireOneMore(s) ==
    /\ active <= capacity
    /\ active' = active + 1
    /\ granted' = granted \union {s}
    /\ UNCHANGED <<queue, inFlight>>

acquire(s) ==
    \/ /\ active < capacity
       /\ active' = active + 1
       /\ granted' = granted \union {s}
       /\ UNCHANGED <<queue, inFlight>>
    \/ /\ active >= capacity
       /\ queue' = Append(queue, s)
       /\ UNCHANGED <<active, granted, inFlight>>

\* runStepNode goes on after its await.
Enter(s) ==
    /\ s \in granted
    /\ granted' = granted \ {s}
    /\ inFlight' = inFlight \union {s}
    /\ UNCHANGED <<active, queue>>

\* Bug in release: the waiter is not woken.
ReleaseSilently(s) ==
    /\ s \in inFlight
    /\ active' = active - 1
    /\ inFlight' = inFlight \ {s}
    /\ UNCHANGED <<queue, granted>>

\* Bug in release: the queue is popped, not shifted.
WakeNewest(s) ==
    /\ s \in inFlight
    /\ inFlight' = inFlight \ {s}
    /\ \/ queue = <<>> /\ active' = active - 1 /\ UNCHANGED <<queue, granted>>
       \/ /\ queue # <<>>
          /\ granted' = granted \union {queue[Len(queue)]}
          /\ queue' = SubSeq(queue, 1, Len(queue) - 1)
          /\ UNCHANGED active

\* The slot given back goes to the longest-waiting step, if any, in the same stretch.
release(s) ==
    /\ s \in inFlight
    /\ inFlight' = inFlight \ {s}
    /\ \/ /\ queue = <<>>
          /\ active' = active - 1
          /\ UNCHANGED <<queue, granted>>
       \/ /\ queue # <<>>
          /\ active' = (active - 1) + 1
          /\ granted' = granted \union {Head(queue)}
          /\ queue' = Tail(queue)

Next ==
    \/ \E s \in Steps \ (Holders \union Waiting) : acquire(s)
    \/ \E s \in Steps : Enter(s)
    \/ \E s \in Steps : release(s)

Spec == Init /\ [][Next]_vars

-----------------------------------------------------------------------------
\* The counter is the number of steps that hold a slot, and never passes the ceiling.
CeilingHolds == active = Cardinality(Holders) /\ active <= capacity

\* No slot is idle while a step waits for one: release loses no wake-up.
NoIdleSlot == queue # <<>> => active = capacity

\* A step waits once, and not for a slot it already holds.
WaitsOnce ==
    /\ \A m, n \in DOMAIN queue : queue[m] = queue[n] => m = n
    /\ Waiting \intersect Holders = {}

\* A step that waits is not overtaken: whoever gets a slot next is at the head.
FirstComeFirstServed ==
    [][\A s \in granted' \ granted : queue # <<>> => s = Head(queue)]_vars

=============================================================================
