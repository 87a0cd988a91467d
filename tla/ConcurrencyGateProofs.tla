------------------------- MODULE ConcurrencyGateProofs -------------------------
(***************************************************************************)
(* Proofs about ConcurrencyGate, for any set of steps and any limit.       *)
(*                                                                         *)
(* The counter says how many steps hold a slot only because a step neither *)
(* waits while it holds one nor is granted one while it executes, and a    *)
(* new step cannot overtake only because no slot is idle while one waits:  *)
(* the properties are inductive together.                                  *)
(***************************************************************************)
EXTENDS ConcurrencyGate, FiniteSetTheorems, SequenceTheorems, TLAPS

\* A granted step has not gone on yet.
GrantedOrInFlight == granted \intersect inFlight = {}

IInv ==
    /\ TypeOK
    /\ IsFiniteSet(Holders)
    /\ GrantedOrInFlight
    /\ CeilingHolds
    /\ NoIdleSlot
    /\ WaitsOnce

\* The ceiling is a positive number whatever the author wrote.
LEMMA CapacityIsPositive == capacity \in Nat /\ capacity >= 1
  BY GateAssumption DEF capacity

\* A step that is neither waiting nor holding a slot takes a free one.
LEMMA AcquireFree ==
    ASSUME IInv, NEW s \in Steps \ (Holders \union Waiting),
           active < capacity, active' = active + 1,
           granted' = granted \union {s}, UNCHANGED <<queue, inFlight>>
    PROVE  IInv'
  <1>1. Holders' = Holders \union {s}
    BY DEF Holders
  <1>2. IsFiniteSet(Holders') /\ Cardinality(Holders') = Cardinality(Holders) + 1
    BY <1>1, FS_AddElement DEF IInv
  <1>3. queue = <<>>
    BY CapacityIsPositive DEF IInv, NoIdleSlot, TypeOK
  <1>4. TypeOK' /\ GrantedOrInFlight'
    BY DEF IInv, TypeOK, GrantedOrInFlight, Holders
  <1>5. CeilingHolds' /\ NoIdleSlot'
    BY <1>2, <1>3, CapacityIsPositive DEF IInv, CeilingHolds, NoIdleSlot, TypeOK, capacity
  <1>6. WaitsOnce'
    BY <1>3 DEF WaitsOnce, Waiting
  <1> QED
    BY <1>2, <1>4, <1>5, <1>6 DEF IInv

\* It waits at the end of the queue when there is none.
LEMMA AcquireQueued ==
    ASSUME IInv, NEW s \in Steps \ (Holders \union Waiting),
           active >= capacity, queue' = Append(queue, s),
           UNCHANGED <<active, granted, inFlight>>
    PROVE  IInv'
  <1>1. queue \in Seq(Steps) /\ queue' \in Seq(Steps) /\ Len(queue') = Len(queue) + 1
    BY AppendProperties DEF IInv, TypeOK
  <1>2. \A n \in DOMAIN queue' :
            queue'[n] = IF n = Len(queue) + 1 THEN s ELSE queue[n]
    BY <1>1, AppendProperties
  <1>3. DOMAIN queue = 1..Len(queue) /\ DOMAIN queue' = 1..(Len(queue) + 1)
    BY <1>1, LenProperties
  <1>4. Holders' = Holders
    BY DEF Holders
  <1>5. TypeOK' /\ GrantedOrInFlight' /\ IsFiniteSet(Holders') /\ CeilingHolds'
    BY <1>1, <1>4 DEF IInv, TypeOK, GrantedOrInFlight, CeilingHolds, capacity
  <1>6. NoIdleSlot'
    BY CapacityIsPositive DEF IInv, CeilingHolds, NoIdleSlot, TypeOK, capacity
  <1>7. \A n \in DOMAIN queue : n \in DOMAIN queue' /\ queue[n] # s /\ Len(queue) \in Nat
    BY <1>1, <1>3 DEF Waiting
  <1>8. \A m, n \in DOMAIN queue' : queue'[m] = queue'[n] => m = n
    BY <1>2, <1>3, <1>7 DEF IInv, WaitsOnce
  <1>9. Waiting' \intersect Holders' = {}
    <2> SUFFICES ASSUME NEW n \in DOMAIN queue' PROVE queue'[n] \notin Holders
      BY <1>4 DEF Waiting
    <2>1. CASE n \in DOMAIN queue
      BY <2>1, <1>2, <1>3, <1>7 DEF IInv, WaitsOnce, Waiting
    <2>2. CASE n \notin DOMAIN queue
      BY <2>2, <1>1, <1>2, <1>3
    <2> QED
      BY <2>1, <2>2
  <1> QED
    BY <1>5, <1>6, <1>8, <1>9 DEF IInv, WaitsOnce

\* Going on moves a step from the granted ones to those that execute.
LEMMA EnterKeeps ==
    ASSUME IInv, NEW s \in Steps, Enter(s)
    PROVE  IInv'
  <1>1. Holders' = Holders
    BY DEF Enter, Holders
  <1> QED
    BY <1>1 DEF Enter, IInv, TypeOK, GrantedOrInFlight, CeilingHolds, NoIdleSlot,
                WaitsOnce, Waiting, capacity

\* A slot given back while nobody waits is free.
LEMMA ReleaseIdle ==
    ASSUME IInv, NEW s \in Steps, s \in inFlight, inFlight' = inFlight \ {s},
           queue = <<>>, active' = active - 1, UNCHANGED <<queue, granted>>
    PROVE  IInv'
  <1>1. Holders' = Holders \ {s}
    BY DEF IInv, GrantedOrInFlight, Holders
  <1>2. s \in Holders
    BY DEF Holders
  <1>3. IsFiniteSet(Holders') /\ Cardinality(Holders') = Cardinality(Holders) - 1
    BY <1>1, <1>2, FS_RemoveElement DEF IInv
  <1>4. Cardinality(Holders') \in Nat
    BY <1>3, FS_CardinalityType
  <1>5. active' \in Nat /\ CeilingHolds'
    BY <1>3, <1>4, CapacityIsPositive DEF IInv, CeilingHolds, TypeOK, capacity
  <1>6. TypeOK' /\ GrantedOrInFlight' /\ NoIdleSlot' /\ WaitsOnce'
    BY <1>5 DEF IInv, TypeOK, GrantedOrInFlight, NoIdleSlot, WaitsOnce, Waiting
  <1> QED
    BY <1>3, <1>5, <1>6 DEF IInv

\* Otherwise it goes to the head of the queue.
LEMMA ReleaseWakes ==
    ASSUME IInv, NEW s \in Steps, s \in inFlight, inFlight' = inFlight \ {s},
           queue # <<>>, active' = (active - 1) + 1,
           granted' = granted \union {Head(queue)}, queue' = Tail(queue)
    PROVE  IInv'
  <1> DEFINE h == Head(queue)
  <1>1. queue \in Seq(Steps) /\ queue' \in Seq(Steps) /\ Len(queue') = Len(queue) - 1
    BY HeadTailProperties DEF IInv, TypeOK
  <1>2. DOMAIN queue = 1..Len(queue) /\ DOMAIN queue' = 1..(Len(queue) - 1)
    BY <1>1, LenProperties
  <1>3. Len(queue) \in Nat /\ Len(queue) >= 1
    BY <1>1, EmptySeq, LenProperties
  <1>4. h = queue[1] /\ h \in Steps /\ 1 \in DOMAIN queue
    BY <1>1, <1>2, <1>3
  <1>5. \A n \in DOMAIN queue' : queue'[n] = queue[n + 1] /\ n + 1 \in DOMAIN queue
    BY <1>1, <1>2, <1>3
  <1>6. h \notin Holders
    BY <1>4 DEF IInv, WaitsOnce, Waiting
  <1>7. Holders' = (Holders \ {s}) \union {h}
    BY <1>6 DEF IInv, GrantedOrInFlight, Holders
  <1>8. IsFiniteSet(Holders') /\ Cardinality(Holders') = Cardinality(Holders)
    <2>1. s \in Holders
      BY DEF Holders
    <2>2. IsFiniteSet(Holders \ {s})
          /\ Cardinality(Holders \ {s}) = Cardinality(Holders) - 1
      BY <2>1, FS_RemoveElement DEF IInv
    <2>3. Cardinality(Holders) \in Nat
      BY FS_CardinalityType DEF IInv
    <2>4. h \notin Holders \ {s}
      BY <1>6
    <2> HIDE DEF h
    <2>5. IsFiniteSet((Holders \ {s}) \union {h})
          /\ Cardinality((Holders \ {s}) \union {h}) = Cardinality(Holders \ {s}) + 1
      BY <2>2, <2>4, FS_AddElement
    <2> QED
      BY <2>2, <2>3, <2>5, <1>7
  <1>9. active' = active
    BY DEF IInv, TypeOK
  <1>10. TypeOK' /\ GrantedOrInFlight'
    BY <1>1, <1>4, <1>6, <1>9 DEF IInv, TypeOK, GrantedOrInFlight, Holders
  <1>11. CeilingHolds' /\ NoIdleSlot'
    BY <1>8, <1>9 DEF IInv, CeilingHolds, NoIdleSlot, capacity
  <1>12. \A m, n \in DOMAIN queue' : queue'[m] = queue'[n] => m = n
    <2> SUFFICES ASSUME NEW m \in DOMAIN queue', NEW n \in DOMAIN queue',
                        queue'[m] = queue'[n]
                 PROVE  m = n
      OBVIOUS
    <2>1. m + 1 = n + 1
      BY <1>5 DEF IInv, WaitsOnce
    <2> QED
      BY <2>1, <1>2, <1>3
  <1>13. Waiting' \intersect Holders' = {}
    <2> SUFFICES ASSUME NEW n \in DOMAIN queue' PROVE queue'[n] \notin Holders'
      BY DEF Waiting
    <2>1. queue'[n] \in Waiting /\ queue'[n] \notin Holders
      BY <1>5 DEF IInv, WaitsOnce, Waiting
    <2>2. queue'[n] # h
      <3>1. n + 1 # 1
        BY <1>2, <1>3
      <3> QED
        BY <3>1, <1>4, <1>5 DEF IInv, WaitsOnce
    <2> QED
      BY <2>1, <2>2, <1>7
  <1> QED
    BY <1>8, <1>10, <1>11, <1>12, <1>13 DEF IInv, WaitsOnce

\* Every step keeps the invariant.
THEOREM Inductive == Spec => []IInv
  <1>1. Init => IInv
    <2> SUFFICES ASSUME Init PROVE IInv
      OBVIOUS
    <2>1. Holders = {} /\ Waiting = {} /\ queue \in Seq(Steps)
      BY DEF Init, Holders, Waiting
    <2>2. IsFiniteSet(Holders) /\ Cardinality(Holders) = 0
      BY <2>1, FS_EmptySet
    <2> QED
      BY <2>1, <2>2, CapacityIsPositive
      DEF Init, IInv, TypeOK, GrantedOrInFlight, CeilingHolds, NoIdleSlot, WaitsOnce
  <1>2. IInv /\ [Next]_vars => IInv'
    <2> SUFFICES ASSUME IInv, [Next]_vars PROVE IInv'
      OBVIOUS
    <2>1. ASSUME NEW s \in Steps \ (Holders \union Waiting), acquire(s) PROVE IInv'
      BY <2>1, AcquireFree, AcquireQueued DEF acquire
    <2>2. ASSUME NEW s \in Steps, Enter(s) PROVE IInv'
      BY <2>2, EnterKeeps
    <2>3. ASSUME NEW s \in Steps, release(s) PROVE IInv'
      BY <2>3, ReleaseIdle, ReleaseWakes DEF release
    <2>4. CASE UNCHANGED vars
      BY <2>4 DEF vars, IInv, TypeOK, GrantedOrInFlight, CeilingHolds, NoIdleSlot,
                  WaitsOnce, Waiting, Holders, capacity
    <2> QED
      BY <2>1, <2>2, <2>3, <2>4 DEF Next
  <1> QED
    BY <1>1, <1>2, PTL DEF Spec

\* The gate's variables keep their types.
THEOREM TypeCorrect == Spec => []TypeOK
  BY Inductive, PTL DEF IInv

\* No more steps hold a slot than the author allowed, and the counter is exact.
THEOREM CeilingIsHeld == Spec => []CeilingHolds
  BY Inductive, PTL DEF IInv

\* A released slot is never left idle while a step waits: no wake-up is lost.
THEOREM NoWakeupIsLost == Spec => []NoIdleSlot
  BY Inductive, PTL DEF IInv

\* No step is in the queue twice, or while it holds a slot.
THEOREM NobodyWaitsTwice == Spec => []WaitsOnce
  BY Inductive, PTL DEF IInv

\* Slots are granted in the order in which steps asked for them.
THEOREM GrantsAreInOrder == Spec => FirstComeFirstServed
  <1>1. IInv /\ [Next]_vars =>
            [\A s \in granted' \ granted : queue # <<>> => s = Head(queue)]_vars
    <2> SUFFICES ASSUME IInv, Next,
                        NEW s \in granted' \ granted, queue # <<>>
                 PROVE  s = Head(queue)
      OBVIOUS
    <2>1. ASSUME NEW r \in Steps, acquire(r) PROVE FALSE
      BY <2>1, CapacityIsPositive DEF acquire, IInv, NoIdleSlot, TypeOK
    <2>2. ASSUME NEW r \in Steps, Enter(r) PROVE FALSE
      BY <2>2 DEF Enter
    <2>3. ASSUME NEW r \in Steps, release(r) PROVE s = Head(queue)
      BY <2>3 DEF release
    <2> QED
      BY <2>1, <2>2, <2>3 DEF Next
  <1> QED
    BY <1>1, Inductive, PTL DEF Spec, FirstComeFirstServed

=============================================================================
