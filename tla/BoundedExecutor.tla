-------------------------- MODULE BoundedExecutor --------------------------
(***************************************************************************)
(* bounded_executor.py: a thread pool that rejects work instead of letting *)
(* its queue grow, and the gate by which a database restore stops it:      *)
(* block_new_work, drain, run_owner_finalizer, resume_new_work, called in  *)
(* that order by the restore's lifecycle adapter (the owner).  A call of   *)
(* submit is one member of Calls from its semaphore acquisition until the  *)
(* done-callback has released the permit; it can then be made again.       *)
(***************************************************************************)
EXTENDS Naturals, Sequences, FiniteSets

CONSTANTS Calls,          \* calls of submit that can be in progress at once
          Finalizers,     \* calls of run_owner_finalizer, made by the owner
          MaxWorkers,
          MaximumPending

ASSUME PoolAssumption ==
  /\ IsFiniteSet(Calls)
  /\ Calls \cap Finalizers = {}
  /\ MaxWorkers \in Nat \ {0}
  /\ MaximumPending \in Nat

VARIABLES closed, accepting, pending, finalizerPending, \* guarded by _condition
          innerClosed,     \* the inner ThreadPoolExecutor is shut down
          free,    \* permits left in _capacity
          queue,   \* work queue of the inner ThreadPoolExecutor
          call,    \* progress of each call of submit
          fin,     \* progress of each finalizer
          owner    \* progress of the owner's quiesce, and the finalizer it runs

vars == <<closed, accepting, pending, finalizerPending, innerClosed, free, queue, call, fin, owner>>
gate == <<closed, accepting, finalizerPending, innerClosed, owner, fin>>
work == <<pending, free, queue, call>>

Capacity == IF MaxWorkers >= MaximumPending THEN MaxWorkers ELSE MaximumPending

CallStates == {"idle", "acquired", "counted", "queued", "running", "done", "uncounted"}
Counted == {"counted", "queued", "running", "done"}
FinStates == {"idle", "claimed", "queued", "running", "done", "over"}
OwnerStates == {"idle", "blocked", "drained", "claimed", "waiting", "clearing", "quiesced", "resuming"}
NoFinalizer == "none"

Pending == {c \in Calls : call[c] \in Counted}
Holding == {c \in Calls : call[c] # "idle"}
Busy == {c \in Calls : call[c] = "running"} \cup {f \in Finalizers : fin[f] \in {"running", "done"}}

Init == /\ closed = FALSE /\ innerClosed = FALSE /\ accepting = TRUE /\ finalizerPending = FALSE
        /\ pending = 0 /\ free = Capacity /\ queue = << >>
        /\ call = [c \in Calls |-> "idle"]
        /\ fin = [f \in Finalizers |-> "idle"]
        /\ owner = [pc |-> "idle", f |-> NoFinalizer]

\* submit: the permit is taken outside the condition, without blocking.
Acquire(c) == /\ call[c] = "idle" /\ free > 0
              /\ free' = free - 1
              /\ call' = [call EXCEPT ![c] = "acquired"]
              /\ UNCHANGED <<gate, pending, queue>>

\* Variants of Enter a change could introduce: the refusal keeps its permit; the
\* gate is read before the condition is taken.
EnterLeaking(c) == /\ call[c] = "acquired"
                   /\ IF closed \/ ~accepting
                      THEN call' = [call EXCEPT ![c] = "idle"] /\ UNCHANGED pending
                      ELSE call' = [call EXCEPT ![c] = "counted"] /\ pending' = pending + 1
                   /\ UNCHANGED <<gate, queue, free>>
EnterUnchecked(c) == /\ call[c] = "acquired"
                     /\ pending' = pending + 1
                     /\ call' = [call EXCEPT ![c] = "counted"]
                     /\ UNCHANGED <<gate, queue, free>>

\* submit: closed or blocked gives the permit back, otherwise the call counts.
Enter(c) == /\ call[c] = "acquired"
            /\ IF closed \/ ~accepting
               THEN /\ free' = free + 1
                    /\ call' = [call EXCEPT ![c] = "idle"]
                    /\ UNCHANGED pending
               ELSE /\ pending' = pending + 1
                    /\ call' = [call EXCEPT ![c] = "counted"]
                    /\ UNCHANGED free
            /\ UNCHANGED <<gate, queue>>

\* submit: hand over to the inner pool, which raises once it is shut down.
Enqueue(c) == /\ call[c] = "counted"
              /\ IF innerClosed
                 THEN /\ call' = [call EXCEPT ![c] = "done"]
                      /\ UNCHANGED queue
                 ELSE /\ call' = [call EXCEPT ![c] = "queued"]
                      /\ queue' = Append(queue, c)
              /\ UNCHANGED <<gate, pending, free>>

\* A worker of the inner pool takes the oldest job.
Start == /\ queue # << >> /\ Cardinality(Busy) < MaxWorkers
         /\ queue' = Tail(queue)
         /\ IF Head(queue) \in Calls
            THEN call' = [call EXCEPT ![Head(queue)] = "running"] /\ UNCHANGED fin
            ELSE fin' = [fin EXCEPT ![Head(queue)] = "running"] /\ UNCHANGED call
         /\ UNCHANGED <<closed, innerClosed, accepting, pending, finalizerPending, free, owner>>

Finish(c) == /\ call[c] = "running"
             /\ call' = [call EXCEPT ![c] = "done"]
             /\ UNCHANGED <<gate, pending, free, queue>>

\* _completed, or the compensation after a raise: first uncount, then release.
Uncount(c) == /\ call[c] = "done"
              /\ pending' = pending - 1
              /\ call' = [call EXCEPT ![c] = "uncounted"]
              /\ UNCHANGED <<gate, free, queue>>

\* Variant: the callback counts the job down a second time.
ReleaseCountingAgain(c) == /\ call[c] = "uncounted"
                           /\ free' = free + 1 /\ pending' = pending - 1
                           /\ call' = [call EXCEPT ![c] = "idle"]
                           /\ UNCHANGED <<gate, queue>>

Release(c) == /\ call[c] = "uncounted"
              /\ free' = free + 1
              /\ call' = [call EXCEPT ![c] = "idle"]
              /\ UNCHANGED <<gate, pending, queue>>
----------------------------------------------------------------------------
OwnerAt(pc) == owner.pc = pc
OwnerGoes(pc) == owner' = [owner EXCEPT !.pc = pc]

BlockNewWork == /\ OwnerAt("idle")
                /\ ~closed /\ ~finalizerPending
                /\ accepting' = FALSE
                /\ OwnerGoes("blocked")
                /\ UNCHANGED <<work, closed, finalizerPending, innerClosed, fin>>

Drain == /\ OwnerAt("blocked")
         /\ \/ pending = 0 /\ OwnerGoes("drained")
            \/ pending > 0 /\ OwnerGoes("resuming")      \* the timeout
         /\ UNCHANGED <<work, closed, accepting, finalizerPending, innerClosed, fin>>

MayFinalize == ~closed /\ ~accepting /\ pending = 0 /\ ~finalizerPending /\ MaxWorkers = 1

ClaimFinalizer(f) ==
  /\ OwnerAt("drained") /\ fin[f] = "idle"
  /\ IF MayFinalize
     THEN /\ finalizerPending' = TRUE
          /\ fin' = [fin EXCEPT ![f] = "claimed"]
          /\ owner' = [pc |-> "claimed", f |-> f]
     ELSE /\ OwnerGoes("resuming")
          /\ UNCHANGED <<finalizerPending, fin>>
  /\ UNCHANGED <<work, closed, accepting, innerClosed>>

\* A pool shut down in between raises here, and the claim is never withdrawn.
SubmitFinalizer ==
  /\ OwnerAt("claimed")
  /\ IF innerClosed
     THEN /\ OwnerGoes("resuming")
          /\ UNCHANGED <<queue, fin>>
     ELSE /\ queue' = Append(queue, owner.f)
          /\ fin' = [fin EXCEPT ![owner.f] = "queued"]
          /\ OwnerGoes("waiting")
  /\ UNCHANGED <<closed, accepting, pending, finalizerPending, innerClosed, free, call>>

FinishFinalizer(f) == /\ fin[f] = "running"
                      /\ fin' = [fin EXCEPT ![f] = "done"]
                      /\ UNCHANGED <<work, closed, accepting, finalizerPending, innerClosed, owner>>

\* _finalizer_completed runs on the worker after the future's waiters were woken.
FinalizerCompleted(f) ==
  /\ fin[f] = "done"
  /\ finalizerPending' = FALSE
  /\ fin' = [fin EXCEPT ![f] = "over"]
  /\ UNCHANGED <<work, closed, accepting, innerClosed, owner>>

\* future.result: the answer, or the timeout (also an exception) while the job lives on.
AwaitFinalizer ==
  /\ OwnerAt("waiting")
  /\ \/ fin[owner.f] \in {"done", "over"} /\ OwnerGoes("clearing")
     \/ OwnerGoes("resuming")
  /\ UNCHANGED <<work, closed, accepting, finalizerPending, innerClosed, fin>>

ClearFinalizer == /\ OwnerAt("clearing")
                  /\ finalizerPending' = FALSE
                  /\ \E ok \in BOOLEAN : OwnerGoes(IF ok THEN "quiesced" ELSE "resuming")
                  /\ UNCHANGED <<work, closed, accepting, innerClosed, fin>>

\* Variant: the gate reopens without asking for an unfinished finalizer.
ResumeAnyway == /\ owner.pc \in {"quiesced", "resuming"}
                /\ ~closed
                /\ accepting' = TRUE
                /\ owner' = [pc |-> "idle", f |-> NoFinalizer]
                /\ UNCHANGED <<work, closed, finalizerPending, innerClosed, fin>>

ResumeNewWork == /\ owner.pc \in {"quiesced", "resuming"}
                 /\ ~closed /\ ~finalizerPending
                 /\ accepting' = TRUE
                 /\ owner' = [pc |-> "idle", f |-> NoFinalizer]
                 /\ UNCHANGED <<work, closed, finalizerPending, innerClosed, fin>>

\* shutdown closes the gate first and the inner pool outside the condition.
CloseGate == /\ ~closed
             /\ closed' = TRUE /\ accepting' = FALSE
             /\ UNCHANGED <<work, finalizerPending, innerClosed, fin, owner>>

\* Variant: cancelled jobs vanish from the queue without their callbacks.
CloseInnerSilently(cancel) ==
  /\ closed /\ ~innerClosed
  /\ innerClosed' = TRUE
  /\ queue' = IF cancel THEN << >> ELSE queue
  /\ UNCHANGED <<closed, accepting, pending, finalizerPending, free, call, fin, owner>>

\* With cancel_futures the queued jobs end unrun; their callbacks run here, and
\* an owner waiting for a cancelled finalizer gets the cancellation.
CloseInner(cancel) ==
  /\ closed /\ ~innerClosed
  /\ innerClosed' = TRUE
  /\ IF ~cancel
     THEN UNCHANGED <<queue, call, fin, finalizerPending, owner>>
     ELSE LET dropped == {f \in Finalizers : fin[f] = "queued"}
          IN /\ queue' = << >>
             /\ call' = [c \in Calls |-> IF call[c] = "queued" THEN "done" ELSE call[c]]
             /\ fin' = [f \in Finalizers |-> IF f \in dropped THEN "over" ELSE fin[f]]
             /\ finalizerPending' = (finalizerPending /\ dropped = {})
             /\ IF OwnerAt("waiting") /\ owner.f \in dropped
                THEN OwnerGoes("resuming") ELSE UNCHANGED owner
  /\ UNCHANGED <<closed, accepting, pending, free>>
----------------------------------------------------------------------------
Worker == \/ Start
          \/ \E c \in Calls : Finish(c) \/ Uncount(c) \/ Release(c)
          \/ \E f \in Finalizers : FinishFinalizer(f) \/ FinalizerCompleted(f)

Submitter == \E c \in Calls : Acquire(c) \/ Enter(c) \/ Enqueue(c)

Owner == \/ BlockNewWork \/ Drain \/ SubmitFinalizer \/ AwaitFinalizer
         \/ ClearFinalizer \/ ResumeNewWork
         \/ \E f \in Finalizers : ClaimFinalizer(f)

Shutdown == CloseGate \/ \E cancel \in BOOLEAN : CloseInner(cancel)

Next == Worker \/ Submitter \/ Owner \/ Shutdown

Spec == Init /\ [][Next]_vars

\* Threads keep running, jobs end; nobody is obliged to submit, block or time out.
Fairness ==
  /\ WF_vars(Start)
  /\ \A c \in Calls : /\ WF_vars(Enter(c)) /\ WF_vars(Enqueue(c))
                      /\ WF_vars(Finish(c)) /\ WF_vars(Uncount(c)) /\ WF_vars(Release(c))
  /\ \A f \in Finalizers : WF_vars(FinishFinalizer(f)) /\ WF_vars(FinalizerCompleted(f))
FairSpec == Spec /\ Fairness
----------------------------------------------------------------------------
TypeOK ==
  /\ closed \in BOOLEAN /\ accepting \in BOOLEAN
  /\ finalizerPending \in BOOLEAN /\ innerClosed \in BOOLEAN
  /\ pending \in Nat /\ free \in Nat
  /\ queue \in Seq(Calls \cup Finalizers)
  /\ call \in [Calls -> CallStates]
  /\ fin \in [Finalizers -> FinStates]
  /\ owner \in [pc : OwnerStates, f : Finalizers \cup {NoFinalizer}]

\* The work queue holds exactly jobs that wait, each once.
QueueOK ==
  /\ \A i \in 1..Len(queue) : /\ queue[i] \in Calls => call[queue[i]] = "queued"
                              /\ queue[i] \in Finalizers => fin[queue[i]] = "queued"
  /\ \A i, j \in 1..Len(queue) : queue[i] = queue[j] => i = j

\* From block_new_work to resume_new_work the gate is shut, and only a claimed
\* finalizer is handed to the pool, which then has a single worker.
GateOK ==
  /\ owner.pc # "idle" => ~accepting
  /\ owner.pc = "claimed" => owner.f \in Finalizers /\ fin[owner.f] = "claimed"
  /\ \A f \in Finalizers : fin[f] # "idle" => MaxWorkers = 1

\* The semaphore and the counter agree with the calls on every path through
\* submit, its refusals, its compensation, cancellation and the done-callbacks:
\* no permit leaks and none is returned twice.
PermitsAccounted ==
  /\ free + Cardinality(Holding) = Capacity
  /\ pending = Cardinality(Pending)

\* Once drain has answered True, and until resume_new_work, no submitted job is
\* queued, running or about to be queued, however long a thread sat inside submit.
DrainedStaysQuiet ==
  owner.pc \in {"drained", "claimed", "waiting", "clearing", "quiesced"} => Pending = {}

\* Every counted job is eventually uncounted and gives its permit back, so a
\* blocked pool always drains, also across a shutdown.
JobsEnd == \A c \in Calls : call[c] \in Counted ~> call[c] = "idle"

\* The executor is a participant of a restore: submit, block_new_work, drain,
\* run_owner_finalizer, resume_new_work and shutdown together keep what the lifecycle
\* adapter relies on.  As long as an owner's finalizer is queued or running the gate stays
\* shut (test_timed_out_owner_finalizer_keeps_executor_blocked_until_it_finishes), which
\* holds for one finalizer in the executor's life.
GateState == IF closed THEN "over" ELSE IF accepting THEN "open" ELSE "shut"
Unfinished == {f \in Finalizers : fin[f] \in {"queued", "running"}}
Quiet == owner.pc \in {"drained", "claimed", "waiting", "clearing", "quiesced"}

Abstract == INSTANCE Participant WITH
  Jobs <- Calls, gate <- GateState, jobs <- Pending, final <- Unfinished, quiet <- Quiet

ImplementsParticipant == Abstract!Spec
============================================================================
