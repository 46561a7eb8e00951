------------------------ MODULE BoundedExecutorProof ------------------------
(***************************************************************************)
(* What the pool promises for any number of calls, finalizers and workers: *)
(* its bookkeeping is exact, and a drained pool stays quiet.               *)
(***************************************************************************)
EXTENDS BoundedExecutor, FiniteSetTheorems, TLAPS

IInv == TypeOK /\ QueueOK /\ GateOK /\ PermitsAccounted /\ DrainedStaysQuiet

\* How the number of calls with a property changes when one call changes.
LEMMA CountMoves ==
  ASSUME NEW S, NEW T, NEW c, IsFiniteSet(S)
  PROVE  /\ T = S => Cardinality(T) = Cardinality(S)
         /\ c \notin S /\ T = S \cup {c} => Cardinality(T) = Cardinality(S) + 1
         /\ c \in S /\ T = S \ {c} => /\ Cardinality(T) = Cardinality(S) - 1
                                      /\ Cardinality(S) \in Nat \ {0}
         /\ Cardinality(S) \in Nat
<1>1. Cardinality(S) \in Nat
  BY FS_CardinalityType
<1>2. ASSUME c \notin S PROVE Cardinality(S \cup {c}) = Cardinality(S) + 1
  BY <1>2, FS_AddElement
<1>3. ASSUME c \in S PROVE /\ Cardinality(S \ {c}) = Cardinality(S) - 1
                          /\ Cardinality(S) \in Nat \ {0}
  BY <1>1, <1>3, FS_RemoveElement, FS_EmptySet
<1>. QED  BY <1>1, <1>2, <1>3

\* What stays of a queue with distinct entries when a new one is appended.
LEMMA DistinctAppend ==
  ASSUME NEW S, NEW q \in Seq(S), NEW e \in S,
         \A i, j \in 1..Len(q) : q[i] = q[j] => i = j,
         \A i \in 1..Len(q) : q[i] # e
  PROVE  /\ \A i \in 1..Len(Append(q, e)) :
               \/ i \in 1..Len(q) /\ Append(q, e)[i] = q[i]
               \/ i = Len(q) + 1 /\ Append(q, e)[i] = e
         /\ \A i, j \in 1..Len(Append(q, e)) : Append(q, e)[i] = Append(q, e)[j] => i = j
<1>1. \A i \in 1..Len(Append(q, e)) :
         \/ i \in 1..Len(q) /\ Append(q, e)[i] = q[i]
         \/ i = Len(q) + 1 /\ Append(q, e)[i] = e
  OBVIOUS
<1>. QED  BY <1>1, Zenon

LEMMA FiniteCounts == ASSUME TypeOK PROVE IsFiniteSet(Pending) /\ IsFiniteSet(Holding)
BY PoolAssumption, FS_Subset DEF Pending, Holding

LEMMA CapacityType == Capacity \in Nat
BY PoolAssumption DEF Capacity

LEMMA InitIInv == Init => IInv
<1>. SUFFICES ASSUME Init PROVE IInv
  OBVIOUS
<1>1. Pending = {} /\ Holding = {}
  BY DEF Init, Pending, Holding, Counted
<1>2. Cardinality({}) = 0
  BY FS_EmptySet
<1>3. TypeOK
  <2>1. owner \in [pc : OwnerStates, f : Finalizers \cup {NoFinalizer}]
    BY DEF Init, OwnerStates
  <2>2. queue \in Seq(Calls \cup Finalizers)
    BY DEF Init
  <2>. QED  BY <2>1, <2>2, CapacityType DEF Init, TypeOK, CallStates, FinStates
<1>4. QueueOK /\ GateOK
  BY DEF Init, QueueOK, GateOK
<1>5. PermitsAccounted /\ DrainedStaysQuiet
  BY <1>1, <1>2, CapacityType DEF Init, PermitsAccounted, DrainedStaysQuiet
<1>. QED
  BY <1>3, <1>4, <1>5 DEF IInv

\* Acquire takes a permit: the call starts to hold one and is not yet counted.
LEMMA AcquireStep == ASSUME IInv, NEW c \in Calls, Acquire(c) PROVE IInv'
<1>. USE DEF IInv
<1>1. TypeOK'
  BY DEF Acquire, TypeOK, CallStates, gate
<1>2. Pending' = Pending /\ c \notin Holding /\ Holding' = Holding \cup {c}
  BY DEF Acquire, TypeOK, Pending, Holding, Counted
<1>3. PermitsAccounted'
  BY <1>2, FiniteCounts, CountMoves, CapacityType DEF Acquire, TypeOK, PermitsAccounted
<1>4. QueueOK' /\ GateOK' /\ DrainedStaysQuiet'
  BY <1>2 DEF Acquire, TypeOK, QueueOK, GateOK, DrainedStaysQuiet, gate
<1>. QED  BY <1>1, <1>3, <1>4

\* Enter refuses or counts; it counts only while the gate is open, so not while
\* the owner holds the pool drained.
LEMMA EnterStep == ASSUME IInv, NEW c \in Calls, Enter(c) PROVE IInv'
<1>. USE DEF IInv
<1>1. c \in Holding /\ c \notin Pending
  BY DEF Enter, Holding, Pending, Counted
<1>2. CASE closed \/ ~accepting
  <2>1. Pending' = Pending /\ Holding' = Holding \ {c}
    BY <1>2 DEF Enter, TypeOK, Pending, Holding, Counted
  <2>2. TypeOK'
    BY <1>2 DEF Enter, TypeOK, CallStates, gate
  <2>3. /\ Cardinality(Holding') = Cardinality(Holding) - 1
        /\ Cardinality(Pending') = Cardinality(Pending)
        /\ Cardinality(Holding) \in Nat
    BY <1>1, <2>1, FiniteCounts, CountMoves
  <2>5. PermitsAccounted'
    BY <1>2, <2>3, CapacityType DEF Enter, TypeOK, PermitsAccounted
  <2>4. QueueOK' /\ GateOK' /\ DrainedStaysQuiet'
    BY <1>2, <2>1 DEF Enter, TypeOK, QueueOK, GateOK, DrainedStaysQuiet, gate
  <2>. QED  BY <2>2, <2>4, <2>5
<1>3. CASE ~(closed \/ ~accepting)
  <2>1. Pending' = Pending \cup {c} /\ Holding' = Holding
    BY <1>3 DEF Enter, TypeOK, Pending, Holding, Counted
  <2>2. TypeOK'
    BY <1>3 DEF Enter, TypeOK, CallStates, gate
  <2>3. PermitsAccounted'
    BY <1>1, <1>3, <2>1, FiniteCounts, CountMoves, CapacityType
    DEF Enter, TypeOK, PermitsAccounted
  <2>4. QueueOK' /\ GateOK' /\ DrainedStaysQuiet'
    BY <1>3 DEF Enter, TypeOK, QueueOK, GateOK, DrainedStaysQuiet, gate
  <2>. QED  BY <2>2, <2>3, <2>4
<1>. QED  BY <1>2, <1>3

\* Enqueue moves a counted call into the queue, or to its compensation.
LEMMA EnqueueStep == ASSUME IInv, NEW c \in Calls, Enqueue(c) PROVE IInv'
<1>. USE DEF IInv
<1>1. Pending' = Pending /\ Holding' = Holding
  BY DEF Enqueue, TypeOK, Pending, Holding, Counted
<1>2. TypeOK'
  BY DEF Enqueue, TypeOK, CallStates, gate
<1>3. PermitsAccounted' /\ DrainedStaysQuiet' /\ GateOK'
  BY <1>1 DEF Enqueue, PermitsAccounted, DrainedStaysQuiet, GateOK, gate
<1>4. \A i \in 1..Len(queue) : queue[i] # c
  BY PoolAssumption DEF Enqueue, QueueOK
<1>5. QueueOK'
  <2>1. CASE innerClosed
    BY <1>4, <2>1 DEF Enqueue, TypeOK, QueueOK, gate
  <2>2. CASE ~innerClosed
    <3>1. /\ queue' = Append(queue, c) /\ queue \in Seq(Calls \cup Finalizers)
          /\ c \notin Finalizers /\ fin' = fin /\ call' = [call EXCEPT ![c] = "queued"]
      BY <2>2, PoolAssumption DEF Enqueue, TypeOK, gate
    <3>2. /\ \A i \in 1..Len(queue') : \/ i \in 1..Len(queue) /\ queue'[i] = queue[i]
                                       \/ queue'[i] = c
          /\ \A i, j \in 1..Len(queue') : queue'[i] = queue'[j] => i = j
      BY <1>4, <3>1, DistinctAppend DEF QueueOK
    <3>3. \A i \in 1..Len(queue') : queue'[i] \in Calls => call'[queue'[i]] = "queued"
      BY <1>4, <3>1, <3>2 DEF TypeOK, QueueOK
    <3>4. \A i \in 1..Len(queue') : queue'[i] \in Finalizers => fin'[queue'[i]] = "queued"
      BY <3>1, <3>2 DEF QueueOK
    <3>. QED  BY <3>2, <3>3, <3>4 DEF QueueOK
  <2>. QED  BY <2>1, <2>2
<1>. QED  BY <1>2, <1>3, <1>5

\* Start runs the oldest job; no second copy of it stays in the queue.
LEMMA StartStep == ASSUME IInv, Start PROVE IInv'
<1>. USE DEF IInv
<1>1. /\ Head(queue) = queue[1] /\ 1 \in 1..Len(queue)
      /\ Head(queue) \in Calls \cup Finalizers
      /\ Len(queue') = Len(queue) - 1
      /\ \A i \in 1..Len(queue') : queue'[i] = queue[i + 1] /\ i + 1 \in 1..Len(queue)
  BY DEF Start, TypeOK
<1>2. \A i \in 1..Len(queue') : queue'[i] # Head(queue)
  BY <1>1 DEF QueueOK
<1>3. TypeOK'
  BY <1>1 DEF Start, TypeOK, CallStates, FinStates
<1>4. CASE Head(queue) \in Calls
  <2>1. Pending' = Pending /\ Holding' = Holding
    BY <1>1, <1>4 DEF Start, TypeOK, QueueOK, Pending, Holding, Counted
  <2>2. PermitsAccounted' /\ DrainedStaysQuiet' /\ GateOK'
    BY <1>4, <2>1 DEF Start, PermitsAccounted, DrainedStaysQuiet, GateOK
  <2>3. \A i, j \in 1..Len(queue') : queue'[i] = queue'[j] => i = j
    BY <1>1 DEF QueueOK
  <2>4. QueueOK'
    BY <1>1, <1>2, <1>4, <2>3 DEF Start, TypeOK, QueueOK
  <2>. QED  BY <1>3, <2>2, <2>4
<1>5. CASE Head(queue) \in Finalizers
  <2>1. Head(queue) \notin Calls
    BY <1>5, PoolAssumption
  <2>2. Pending' = Pending /\ Holding' = Holding
    BY <2>1 DEF Start, Pending, Holding
  <2>3. PermitsAccounted' /\ DrainedStaysQuiet'
    BY <2>1, <2>2 DEF Start, PermitsAccounted, DrainedStaysQuiet
  <2>4. GateOK'
    BY <1>1, <1>5, <2>1 DEF Start, TypeOK, QueueOK, GateOK
  <2>5. \A i, j \in 1..Len(queue') : queue'[i] = queue'[j] => i = j
    BY <1>1 DEF QueueOK
  <2>6. QueueOK'
    BY <1>1, <1>2, <2>1, <2>5 DEF Start, TypeOK, QueueOK
  <2>. QED  BY <1>3, <2>3, <2>4, <2>6
<1>. QED  BY <1>1, <1>4, <1>5

LEMMA FinishStep == ASSUME IInv, NEW c \in Calls, Finish(c) PROVE IInv'
<1>. USE DEF IInv
<1>1. Pending' = Pending /\ Holding' = Holding
  BY DEF Finish, TypeOK, Pending, Holding, Counted
<1>2. TypeOK'
  BY DEF Finish, TypeOK, CallStates, gate
<1>. QED
  BY <1>1, <1>2
  DEF Finish, TypeOK, QueueOK, PermitsAccounted, DrainedStaysQuiet, GateOK, gate

\* The done-callback uncounts; a drained pool has nothing left to uncount.
LEMMA UncountStep == ASSUME IInv, NEW c \in Calls, Uncount(c) PROVE IInv'
<1>. USE DEF IInv
<1>1. c \in Pending /\ Pending' = Pending \ {c} /\ Holding' = Holding
  BY DEF Uncount, TypeOK, Pending, Holding, Counted
<1>2. /\ Cardinality(Pending') = Cardinality(Pending) - 1
      /\ Cardinality(Pending) \in Nat \ {0}
  BY <1>1, FiniteCounts, CountMoves
<1>3. TypeOK'
  BY <1>2 DEF Uncount, TypeOK, CallStates, gate, PermitsAccounted
<1>4. PermitsAccounted'
  BY <1>1, <1>2 DEF Uncount, TypeOK, PermitsAccounted
<1>5. QueueOK' /\ GateOK' /\ DrainedStaysQuiet'
  BY <1>1 DEF Uncount, TypeOK, QueueOK, GateOK, DrainedStaysQuiet, gate
<1>. QED  BY <1>3, <1>4, <1>5

LEMMA ReleaseStep == ASSUME IInv, NEW c \in Calls, Release(c) PROVE IInv'
<1>. USE DEF IInv
<1>1. c \in Holding /\ Holding' = Holding \ {c} /\ Pending' = Pending
  BY DEF Release, TypeOK, Pending, Holding, Counted
<1>2. /\ Cardinality(Holding') = Cardinality(Holding) - 1
      /\ Cardinality(Holding) \in Nat \ {0}
  BY <1>1, FiniteCounts, CountMoves
<1>3. TypeOK'
  BY DEF Release, TypeOK, CallStates, gate
<1>4. PermitsAccounted'
  BY <1>1, <1>2, CapacityType DEF Release, TypeOK, PermitsAccounted
<1>5. QueueOK' /\ GateOK' /\ DrainedStaysQuiet'
  BY <1>1 DEF Release, TypeOK, QueueOK, GateOK, DrainedStaysQuiet, gate
<1>. QED  BY <1>3, <1>4, <1>5

\* The owner's steps touch no call; only Drain concludes that nothing is pending.
LEMMA OwnerStep == ASSUME IInv, Owner PROVE IInv'
<1>. USE DEF IInv
<1>1. CASE BlockNewWork
  BY <1>1 DEF BlockNewWork, OwnerAt, OwnerGoes, work, TypeOK, OwnerStates, QueueOK, GateOK,
     PermitsAccounted, DrainedStaysQuiet, Pending, Holding
<1>2. CASE Drain
  <2>1. Pending' = Pending /\ Holding' = Holding
    BY <1>2 DEF Drain, work, Pending, Holding
  <2>2. pending = 0 => Pending = {}
    BY FiniteCounts, FS_EmptySet DEF PermitsAccounted
  <2>3. TypeOK'
    BY <1>2 DEF Drain, OwnerAt, OwnerGoes, work, TypeOK, OwnerStates
  <2>. QED
    BY <1>2, <2>1, <2>2, <2>3 DEF Drain, OwnerAt, OwnerGoes, work, TypeOK, QueueOK, GateOK,
       PermitsAccounted, DrainedStaysQuiet
<1>3. ASSUME NEW f \in Finalizers, ClaimFinalizer(f) PROVE IInv'
  <2>1. Pending' = Pending /\ Holding' = Holding
    BY <1>3 DEF ClaimFinalizer, work, Pending, Holding
  <2>2. TypeOK'
    <3>1. owner' \in [pc : OwnerStates, f : Finalizers \cup {NoFinalizer}]
      BY <1>3 DEF ClaimFinalizer, OwnerAt, OwnerGoes, TypeOK, OwnerStates
    <3>2. fin' \in [Finalizers -> FinStates] /\ finalizerPending' \in BOOLEAN
      BY <1>3 DEF ClaimFinalizer, TypeOK, FinStates
    <3>. QED  BY <1>3, <3>1, <3>2 DEF ClaimFinalizer, work, TypeOK
  <2>3. QueueOK'
    BY <1>3 DEF ClaimFinalizer, work, TypeOK, QueueOK
  <2>4. GateOK'
    BY <1>3 DEF ClaimFinalizer, MayFinalize, OwnerAt, OwnerGoes, work, TypeOK, GateOK
  <2>. QED
    BY <1>3, <2>1, <2>2, <2>3, <2>4 DEF ClaimFinalizer, OwnerAt, OwnerGoes, work, TypeOK,
       PermitsAccounted, DrainedStaysQuiet
<1>4. CASE SubmitFinalizer
  <2>1. Pending' = Pending /\ Holding' = Holding
    BY <1>4 DEF SubmitFinalizer, Pending, Holding
  <2>2. owner.f \in Finalizers /\ fin[owner.f] = "claimed" /\ owner.f \notin Calls
    BY <1>4, PoolAssumption DEF SubmitFinalizer, OwnerAt, GateOK
  <2>3. TypeOK'
    <3>1. owner' \in [pc : OwnerStates, f : Finalizers \cup {NoFinalizer}]
      BY <1>4 DEF SubmitFinalizer, OwnerAt, OwnerGoes, TypeOK, OwnerStates
    <3>2. fin' \in [Finalizers -> FinStates]
      BY <1>4, <2>2 DEF SubmitFinalizer, TypeOK, FinStates
    <3>3. queue' \in Seq(Calls \cup Finalizers)
      BY <1>4, <2>2 DEF SubmitFinalizer, TypeOK
    <3>. QED  BY <1>4, <3>1, <3>2, <3>3 DEF SubmitFinalizer, TypeOK
  <2>4. \A i \in 1..Len(queue) : queue[i] # owner.f
    BY <2>2 DEF QueueOK
  <2>5. QueueOK'
    <3>1. CASE innerClosed
      BY <1>4, <3>1 DEF SubmitFinalizer, QueueOK
    <3>2. CASE ~innerClosed
      <4>1. /\ queue' = Append(queue, owner.f) /\ queue \in Seq(Calls \cup Finalizers)
            /\ call' = call /\ fin' = [fin EXCEPT ![owner.f] = "queued"]
        BY <1>4, <3>2 DEF SubmitFinalizer, TypeOK
      <4>2. /\ \A i \in 1..Len(queue') : \/ i \in 1..Len(queue) /\ queue'[i] = queue[i]
                                         \/ queue'[i] = owner.f
            /\ \A i, j \in 1..Len(queue') : queue'[i] = queue'[j] => i = j
        BY <2>2, <2>4, <4>1, DistinctAppend DEF QueueOK
      <4>3. \A i \in 1..Len(queue') : queue'[i] \in Finalizers => fin'[queue'[i]] = "queued"
        BY <2>2, <2>4, <4>1, <4>2 DEF TypeOK, QueueOK
      <4>4. \A i \in 1..Len(queue') : queue'[i] \in Calls => call'[queue'[i]] = "queued"
        BY <2>2, <4>1, <4>2 DEF QueueOK
      <4>. QED  BY <4>2, <4>3, <4>4 DEF QueueOK
    <3>. QED  BY <3>1, <3>2
  <2>6. GateOK'
    BY <1>4, <2>2 DEF SubmitFinalizer, OwnerAt, OwnerGoes, TypeOK, GateOK
  <2>. QED
    BY <1>4, <2>1, <2>3, <2>5, <2>6 DEF SubmitFinalizer, OwnerAt, OwnerGoes, TypeOK,
       PermitsAccounted, DrainedStaysQuiet
<1>5. CASE AwaitFinalizer \/ ClearFinalizer \/ ResumeNewWork
  <2>1. Pending' = Pending /\ Holding' = Holding
    BY <1>5 DEF AwaitFinalizer, ClearFinalizer, ResumeNewWork, work, Pending, Holding
  <2>2. owner' \in [pc : OwnerStates, f : Finalizers \cup {NoFinalizer}]
    BY <1>5 DEF AwaitFinalizer, ClearFinalizer, ResumeNewWork, OwnerGoes, TypeOK, OwnerStates
  <2>3. TypeOK'
    BY <1>5, <2>2 DEF AwaitFinalizer, ClearFinalizer, ResumeNewWork, work, TypeOK
  <2>4. QueueOK' /\ PermitsAccounted'
    BY <1>5, <2>1 DEF AwaitFinalizer, ClearFinalizer, ResumeNewWork, work, QueueOK, PermitsAccounted
  <2>5. /\ owner'.pc \in {"clearing", "quiesced", "resuming", "idle"}
        /\ owner'.pc \in {"clearing", "quiesced"} => owner.pc \in {"waiting", "clearing"}
        /\ owner'.pc # "idle" => owner.pc # "idle" /\ accepting' = accepting
        /\ fin' = fin
    BY <1>5 DEF AwaitFinalizer, ClearFinalizer, ResumeNewWork, OwnerAt, OwnerGoes, TypeOK, OwnerStates
  <2>. QED  BY <2>1, <2>3, <2>4, <2>5 DEF GateOK, DrainedStaysQuiet
<1>. QED  BY <1>1, <1>2, <1>3, <1>4, <1>5 DEF Owner

LEMMA FinalizerJobStep ==
  ASSUME IInv, NEW f \in Finalizers, FinishFinalizer(f) \/ FinalizerCompleted(f)
  PROVE  IInv'
<1>. USE DEF IInv
<1>1. Pending' = Pending /\ Holding' = Holding
  BY DEF FinishFinalizer, FinalizerCompleted, work, Pending, Holding
<1>2. TypeOK'
  BY DEF FinishFinalizer, FinalizerCompleted, work, TypeOK, FinStates
<1>3. QueueOK' /\ GateOK'
  BY DEF FinishFinalizer, FinalizerCompleted, work, TypeOK, QueueOK, GateOK
<1>. QED
  BY <1>1, <1>2, <1>3
  DEF FinishFinalizer, FinalizerCompleted, work, PermitsAccounted, DrainedStaysQuiet

\* Cancelled calls stay counted until their callback, so no figure changes here.
LEMMA ShutdownStep == ASSUME IInv, Shutdown PROVE IInv'
<1>. USE DEF IInv
<1>1. CASE CloseGate
  BY <1>1 DEF CloseGate, work, TypeOK, QueueOK, GateOK, PermitsAccounted, DrainedStaysQuiet,
     Pending, Holding
<1>2. ASSUME NEW cancel \in BOOLEAN, CloseInner(cancel) PROVE IInv'
  <2>1. CASE ~cancel
    BY <1>2, <2>1 DEF CloseInner, TypeOK, QueueOK, GateOK, PermitsAccounted, DrainedStaysQuiet,
       Pending, Holding
  <2>2. CASE cancel
    <3>1. Pending' = Pending /\ Holding' = Holding
      BY <1>2, <2>2 DEF CloseInner, TypeOK, Pending, Holding, Counted
    <3>2. call' \in [Calls -> CallStates] /\ fin' \in [Finalizers -> FinStates]
      BY <1>2, <2>2 DEF CloseInner, TypeOK, CallStates, FinStates
    <3>3. owner' \in [pc : OwnerStates, f : Finalizers \cup {NoFinalizer}]
      BY <1>2, <2>2 DEF CloseInner, OwnerAt, OwnerGoes, TypeOK, OwnerStates
    <3>4. queue' = << >> /\ Len(<< >>) = 0 /\ queue' \in Seq(Calls \cup Finalizers)
      BY <1>2, <2>2 DEF CloseInner
    <3>5. QueueOK'
      BY <3>4 DEF QueueOK
    <3>6. TypeOK'
      BY <1>2, <2>2, <3>2, <3>3, <3>4 DEF CloseInner, TypeOK
    <3>7. GateOK'
      BY <1>2, <2>2 DEF CloseInner, OwnerAt, OwnerGoes, TypeOK, GateOK
    <3>. QED
      BY <1>2, <2>2, <3>1, <3>5, <3>6, <3>7 DEF CloseInner, OwnerAt, OwnerGoes, TypeOK,
         PermitsAccounted, DrainedStaysQuiet
  <2>. QED  BY <2>1, <2>2
<1>. QED  BY <1>1, <1>2 DEF Shutdown

\* The bookkeeping, the queue and the gate are right in every reachable state.
THEOREM ExecutorInvariant == Spec => []IInv
<1>1. IInv /\ [Next]_vars => IInv'
  <2>1. IInv /\ UNCHANGED vars => IInv'
    BY DEF IInv, vars, TypeOK, QueueOK, GateOK, PermitsAccounted, DrainedStaysQuiet, Pending,
       Holding
  <2>. QED
    BY <2>1, AcquireStep, EnterStep, EnqueueStep, StartStep, FinishStep, UncountStep, ReleaseStep,
       OwnerStep, FinalizerJobStep, ShutdownStep DEF Next, Worker, Submitter
<1>. QED  BY InitIInv, <1>1, PTL DEF Spec

\* For any number of callers the semaphore and the counter match the jobs.
THEOREM PermitsAreAccounted == Spec => []PermitsAccounted
BY ExecutorInvariant, PTL DEF IInv

\* For any number of callers a drained pool stays quiet until it is resumed.
THEOREM DrainIsStable == Spec => []DrainedStaysQuiet
BY ExecutorInvariant, PTL DEF IInv

\* For any number of callers every variable keeps its range; the counters stay natural
\* numbers, so neither the semaphore nor _pending ever goes below zero.
THEOREM ExecutorTypes == Spec => []TypeOK
BY ExecutorInvariant, PTL DEF IInv
(***************************************************************************)
(* The pool is a restore participant, with one finalizer in its life.      *)
(***************************************************************************)

OneFinalizer == \A f, g \in Finalizers : f = g

\* Where the finalizer is while the owner and the flag _finalizer_pending know of it.
FinalizerKnown ==
  /\ Unfinished # {} => finalizerPending
  /\ owner.pc = "claimed" => finalizerPending
  /\ owner.pc \in {"waiting", "clearing"} => owner.f \in Finalizers
  /\ owner.pc = "clearing" => fin[owner.f] \in {"done", "over"}

RInv == IInv /\ FinalizerKnown

\* The calls of submit and the pool's threads do not lose the finalizer.
LEMMA WorkKeepsFinalizer ==
  ASSUME RInv, Worker \/ Submitter, OneFinalizer PROVE FinalizerKnown'
<1>. USE DEF RInv, IInv, FinalizerKnown, Unfinished
<1>1. CASE Submitter
  BY <1>1 DEF Submitter, Acquire, Enter, Enqueue, gate
<1>2. ASSUME NEW c \in Calls, Finish(c) \/ Uncount(c) \/ Release(c) PROVE FinalizerKnown'
  BY <1>2 DEF Finish, Uncount, Release, gate
<1>3. CASE Start
  <2>1. Head(queue) \in Calls \cup Finalizers /\ Head(queue) = queue[1] /\ 1 \in 1..Len(queue)
    BY <1>3 DEF Start, TypeOK
  <2>2. Head(queue) \notin Calls => Head(queue) \in Finalizers /\ fin[Head(queue)] = "queued"
    BY <2>1 DEF QueueOK
  <2>. QED  BY <1>3, <2>1, <2>2 DEF Start, TypeOK
<1>4. ASSUME NEW f \in Finalizers, FinishFinalizer(f) PROVE FinalizerKnown'
  BY <1>4 DEF FinishFinalizer, TypeOK, OneFinalizer
<1>5. ASSUME NEW f \in Finalizers, FinalizerCompleted(f) PROVE FinalizerKnown'
  BY <1>5 DEF FinalizerCompleted, TypeOK, OneFinalizer, GateOK
<1>. QED  BY <1>1, <1>2, <1>3, <1>4, <1>5 DEF Worker

\* Nor do the owner and shutdown.
LEMMA OwnerKeepsFinalizer ==
  ASSUME RInv, Owner \/ Shutdown, OneFinalizer PROVE FinalizerKnown'
<1>. USE DEF RInv, IInv, FinalizerKnown, Unfinished
<1>1. CASE BlockNewWork \/ Drain \/ ResumeNewWork
  BY <1>1 DEF BlockNewWork, Drain, ResumeNewWork, OwnerAt, OwnerGoes, TypeOK, OwnerStates, work
<1>2. ASSUME NEW f \in Finalizers, ClaimFinalizer(f) PROVE FinalizerKnown'
  BY <1>2 DEF ClaimFinalizer, OwnerAt, OwnerGoes, TypeOK, OwnerStates, OneFinalizer
<1>3. CASE SubmitFinalizer
  BY <1>3 DEF SubmitFinalizer, OwnerAt, OwnerGoes, TypeOK, OwnerStates, GateOK, OneFinalizer
<1>4. CASE AwaitFinalizer
  BY <1>4 DEF AwaitFinalizer, OwnerAt, OwnerGoes, TypeOK, OwnerStates, OneFinalizer
<1>5. CASE ClearFinalizer
  BY <1>5 DEF ClearFinalizer, OwnerAt, OwnerGoes, TypeOK, OwnerStates, OneFinalizer
<1>6. CASE CloseGate
  BY <1>6 DEF CloseGate
<1>7. ASSUME NEW cancel \in BOOLEAN, CloseInner(cancel) PROVE FinalizerKnown'
  <2>1. owner' = owner \/ owner'.pc = "resuming"
    BY <1>7 DEF CloseInner, OwnerGoes, TypeOK
  <2>2. CASE ~cancel
    BY <1>7, <2>2 DEF CloseInner
  <2>3. CASE cancel
    <3>1. \A f \in Finalizers : fin'[f] = IF fin[f] = "queued" THEN "over" ELSE fin[f]
      BY <1>7, <2>3 DEF CloseInner
    <3>2. Unfinished' # {} => finalizerPending'
      BY <1>7, <2>3, <3>1 DEF CloseInner, OneFinalizer
    <3>3. owner.pc = "claimed" => finalizerPending'
      BY <1>7, <2>3 DEF CloseInner, OneFinalizer, GateOK
    <3>. QED  BY <2>1, <3>1, <3>2, <3>3
  <2>. QED  BY <2>2, <2>3
<1>. QED  BY <1>1, <1>2, <1>3, <1>4, <1>5, <1>6, <1>7 DEF Owner, Shutdown

LEMMA FinalizerIsKnown == ASSUME OneFinalizer PROVE Spec => []RInv
<1>1. Init => FinalizerKnown
  BY DEF Init, FinalizerKnown, Unfinished
<1>2. RInv /\ UNCHANGED vars => FinalizerKnown'
  BY DEF RInv, FinalizerKnown, Unfinished, vars
<1>3. RInv /\ [Next]_vars => FinalizerKnown'
  BY <1>2, WorkKeepsFinalizer, OwnerKeepsFinalizer DEF Next
<1>. QED  BY <1>1, <1>3, ExecutorInvariant, PTL DEF Spec, RInv

\* What the calls do is Take, End or invisible.
LEMMA CallsImplement ==
  ASSUME RInv, NEW c \in Calls,
         Acquire(c) \/ Enter(c) \/ Enqueue(c) \/ Finish(c) \/ Uncount(c) \/ Release(c)
  PROVE  [Abstract!Next]_(Abstract!vars)
<1>. USE DEF RInv, IInv, TypeOK, CallStates, Pending, Counted, gate, GateState, Unfinished, Quiet
<1>1. CASE Enter(c) /\ ~closed /\ accepting
  BY <1>1 DEF Enter, Abstract!Next, Abstract!Take
<1>2. CASE Uncount(c)
  BY <1>2 DEF Uncount, Abstract!Next, Abstract!End
<1>3. CASE Acquire(c) \/ Enqueue(c) \/ Finish(c) \/ Release(c) \/ (Enter(c) /\ (closed \/ ~accepting))
  BY <1>3 DEF Acquire, Enqueue, Finish, Release, Enter, Abstract!vars
<1>. QED  BY <1>1, <1>2, <1>3

\* A worker's step on a finalizer ends it or is invisible.
LEMMA FinalizerImplements ==
  ASSUME RInv, OneFinalizer,
         Start \/ (\E f \in Finalizers : FinishFinalizer(f) \/ FinalizerCompleted(f))
  PROVE  [Abstract!Next]_(Abstract!vars)
<1>. USE DEF RInv, IInv, GateState, Unfinished, Quiet
<1>1. CASE Start
  <2>1. Head(queue) \in Calls \cup Finalizers /\ Head(queue) = queue[1] /\ 1 \in 1..Len(queue)
    BY <1>1 DEF Start, TypeOK
  <2>2. /\ Head(queue) \in Calls => call[Head(queue)] = "queued"
        /\ Head(queue) \in Finalizers => fin[Head(queue)] = "queued"
    BY <2>1 DEF QueueOK
  <2>3. Pending' = Pending /\ Unfinished' = Unfinished
    BY <1>1, <2>1, <2>2 DEF Start, TypeOK, Pending, Counted
  <2>. QED  BY <1>1, <2>3 DEF Start, Abstract!vars
<1>2. ASSUME NEW f \in Finalizers, FinishFinalizer(f) PROVE Abstract!Next
  <2>1. f \in Unfinished /\ Unfinished' = Unfinished \ {f} /\ Pending' = Pending
    BY <1>2 DEF FinishFinalizer, TypeOK, Pending, work
  <2>. QED  BY <1>2, <2>1 DEF FinishFinalizer, Abstract!Next, Abstract!EndFinal
<1>3. ASSUME NEW f \in Finalizers, FinalizerCompleted(f) PROVE UNCHANGED Abstract!vars
  <2>1. Unfinished' = Unfinished /\ Pending' = Pending
    BY <1>3 DEF FinalizerCompleted, TypeOK, Pending, work
  <2>. QED  BY <1>3, <2>1 DEF FinalizerCompleted, Abstract!vars
<1>. QED  BY <1>1, <1>2, <1>3

\* Each step of the owner's protocol is the step of the same name, a GiveUp or invisible.
LEMMA OwnerImplements ==
  ASSUME RInv, OneFinalizer, Owner PROVE [Abstract!Next]_(Abstract!vars)
<1>. USE DEF RInv, IInv
<1>0. Owner => Pending' = Pending
  BY DEF Owner, BlockNewWork, Drain, ClaimFinalizer, SubmitFinalizer, AwaitFinalizer,
         ClearFinalizer, ResumeNewWork, work, Pending
<1>1. CASE BlockNewWork
  <2>1. Unfinished' = Unfinished /\ ~Quiet /\ ~Quiet' /\ ~closed /\ ~closed' /\ ~accepting'
    BY <1>1 DEF BlockNewWork, OwnerAt, OwnerGoes, Unfinished, Quiet, TypeOK
  <2>. QED  BY <1>0, <2>1 DEF GateState, Quiet, Abstract!vars, Abstract!Next, Abstract!Block
<1>2. CASE Drain
  <2>1. Unfinished' = Unfinished /\ GateState' = GateState /\ ~Quiet /\ GateState # "open"
    BY <1>2 DEF Drain, OwnerAt, GateState, Unfinished, Quiet, GateOK
  <2>2. pending = 0 => Pending = {}
    BY FiniteCounts, FS_EmptySet DEF PermitsAccounted
  <2>3. Quiet' => pending = 0
    BY <1>2 DEF Drain, OwnerGoes, Quiet, TypeOK
  <2>. QED  BY <1>0, <2>1, <2>2, <2>3 DEF Quiet, Abstract!vars, Abstract!Next, Abstract!Settle
<1>3. ASSUME NEW f \in Finalizers, ClaimFinalizer(f) PROVE [Abstract!Next]_(Abstract!vars)
  <2>1. Unfinished' = Unfinished /\ GateState' = GateState /\ Quiet
    BY <1>3 DEF ClaimFinalizer, OwnerAt, GateState, Unfinished, Quiet, TypeOK
  <2>. QED  BY <1>0, <2>1 DEF Quiet, Abstract!vars, Abstract!Next, Abstract!GiveUp
<1>4. CASE SubmitFinalizer
  <2>1. owner.f \in Finalizers /\ fin[owner.f] = "claimed" /\ GateState' = GateState /\ Quiet
    BY <1>4 DEF SubmitFinalizer, OwnerAt, GateOK, GateState, Quiet
  <2>2. CASE innerClosed
    <3>1. Unfinished' = Unfinished /\ ~Quiet'
      BY <1>4, <2>2 DEF SubmitFinalizer, OwnerGoes, Unfinished, Quiet, TypeOK
    <3>. QED  BY <1>0, <2>1, <3>1 DEF Quiet, Abstract!Next, Abstract!GiveUp
  <2>3. CASE ~innerClosed
    <3>1. /\ owner.f \notin Unfinished /\ Unfinished' = Unfinished \cup {owner.f}
          /\ Quiet'
      BY <1>4, <2>1, <2>3 DEF SubmitFinalizer, OwnerGoes, Unfinished, Quiet, TypeOK
    <3>. QED  BY <1>0, <2>1, <3>1 DEF Quiet, Abstract!Next, Abstract!Finalize
  <2>. QED  BY <2>2, <2>3
<1>5. CASE AwaitFinalizer \/ ClearFinalizer
  <2>1. Unfinished' = Unfinished /\ GateState' = GateState /\ Quiet
    BY <1>5 DEF AwaitFinalizer, ClearFinalizer, OwnerAt, GateState, Unfinished, Quiet
  <2>. QED  BY <1>0, <2>1 DEF Quiet, Abstract!vars, Abstract!Next, Abstract!GiveUp
<1>6. CASE ResumeNewWork
  <2>1. /\ Unfinished' = Unfinished /\ Unfinished = {} /\ ~Quiet'
        /\ GateState = "shut" /\ GateState' = "open"
    BY <1>6 DEF ResumeNewWork, GateOK, GateState, Unfinished, Quiet, FinalizerKnown
  <2>. QED  BY <1>0, <2>1 DEF Quiet, Abstract!Next, Abstract!Reopen
<1>. QED  BY <1>1, <1>2, <1>3, <1>4, <1>5, <1>6 DEF Owner

\* Shutdown shuts the gate for good and may cancel the finalizer.
LEMMA ShutdownImplements ==
  ASSUME RInv, OneFinalizer, Shutdown PROVE [Abstract!Next]_(Abstract!vars)
<1>. USE DEF RInv, IInv
<1>1. CASE CloseGate
  <2>1. /\ Unfinished' = Unfinished /\ Pending' = Pending /\ Quiet' = Quiet
        /\ GateState' = "over"
    BY <1>1 DEF CloseGate, work, GateState, Unfinished, Quiet, Pending
  <2>. QED  BY <2>1 DEF Abstract!Next, Abstract!ShutDown
<1>2. ASSUME NEW cancel \in BOOLEAN, CloseInner(cancel) PROVE [Abstract!Next]_(Abstract!vars)
  <2>1. GateState' = GateState
    BY <1>2 DEF CloseInner, GateState
  <2>2. CASE ~cancel
    BY <1>2, <2>1, <2>2 DEF CloseInner, Abstract!vars, Unfinished, Quiet, Pending
  <2>3. CASE cancel
    <3>1. Pending' = Pending
      BY <1>2, <2>3 DEF CloseInner, TypeOK, Pending, Counted
    <3>2. \A f \in Finalizers : fin'[f] = IF fin[f] = "queued" THEN "over" ELSE fin[f]
      BY <1>2, <2>3 DEF CloseInner
    <3>3. Quiet' = Quiet \/ Quiet' = FALSE
      <4>1. owner' = owner \/ owner'.pc = "resuming"
        BY <1>2 DEF CloseInner, OwnerGoes, TypeOK
      <4>. QED  BY <4>1 DEF Quiet
    <3>4. CASE \E f \in Finalizers : fin[f] = "queued"
      <4>1. PICK f \in Finalizers : fin[f] = "queued"
        BY <3>4
      <4>2. f \in Unfinished /\ Unfinished' = Unfinished \ {f}
        BY <3>2, <4>1 DEF Unfinished, OneFinalizer
      <4>. QED  BY <2>1, <3>1, <3>3, <4>2 DEF Abstract!Next, Abstract!EndFinal
    <3>5. CASE ~(\E f \in Finalizers : fin[f] = "queued")
      <4>1. Unfinished' = Unfinished
        BY <3>2, <3>5 DEF Unfinished
      <4>2. owner' = owner
        BY <1>2, <2>3, <3>5 DEF CloseInner, OwnerAt
      <4>. QED  BY <2>1, <3>1, <4>1, <4>2 DEF Abstract!vars, Quiet
    <3>. QED  BY <3>4, <3>5
  <2>. QED  BY <2>2, <2>3
<1>. QED  BY <1>1, <1>2 DEF Shutdown

\* The executor implements what restore_lifecycle.py expects of a participant: work is
\* taken only through the open gate, quiet is answered only when nothing is left, and the
\* gate does not reopen over an unfinished finalizer, for any number of calls.
THEOREM ExecutorIsParticipant == ASSUME OneFinalizer PROVE Spec => Abstract!Safety
<1>1. Init => Abstract!Init
  BY DEF Init, Abstract!Init, GateState, Pending, Counted, Unfinished, Quiet
<1>2. RInv /\ [Next]_vars => [Abstract!Next]_(Abstract!vars)
  <2>1. UNCHANGED vars => UNCHANGED Abstract!vars
    BY DEF vars, Abstract!vars, GateState, Pending, Unfinished, Quiet
  <2>. QED
    BY <2>1, CallsImplement, FinalizerImplements, OwnerImplements, ShutdownImplements
    DEF Next, Worker, Submitter
<1>. QED  BY <1>1, <1>2, FinalizerIsKnown, PTL DEF Spec, Abstract!Safety
=============================================================================
