-------------------------- MODULE MetadataAnalysis --------------------------
(***************************************************************************)
(* The tempo analysis of tracks: metadata_analysis_service.py with its     *)
(* coordinator, its process supervisor and the rows of                     *)
(* metadata_analysis_runs.                                                 *)
(*                                                                         *)
(* The GUI thread ticks the coordinator every 100 ms and runs the          *)
(* operator's commands between two ticks.  analyze_track runs on a         *)
(* background thread.  A restore or a maintenance drains the service on    *)
(* its own thread by ticking, too: a tick is therefore cut at every point  *)
(* where it reads or writes what the other thread may change meanwhile     *)
(* (a spawn, a join, a file check and a transaction lie between them).     *)
(* One child process analyses one job; its last message waits in the pipe. *)
(* An exception ends the GUI's polling: app.py schedules the next tick     *)
(* after the present one has returned.                                     *)
(***************************************************************************)
EXTENDS Naturals, Sequences, FiniteSets

CONSTANTS Last,        \* runs are 1..Last, in the order of their ids
          MaxPending,  \* bound: length of the coordinator's queue
          Scenarios    \* how often each command and each fault may occur

Runs == 1..Last
NoRun == 0

Commands == {"analyze", "resumePending", "discard", "pause", "resume", "cancel", "cancelAll", "close"}
Faults == {"change", "fail", "die", "hang", "spawn", "busy", "unavailable", "restart", "restore"}

ASSUME AnalysisAssumption ==
  /\ Last \in Nat \ {0} /\ MaxPending \in Nat \ {0}
  /\ \A s \in Scenarios : s \in [Commands \cup Faults -> Nat]

VARIABLES row,       \* metadata_analysis_runs: status
          stored,    \* runs whose suggestions, ranges and metrics are in the database
          changed,   \* runs whose file no longer equals the run's snapshot
          pending,   \* the coordinator's queue
          current,   \* the coordinator's job
          coord,     \* state of the coordinator
          sup,       \* the supervisor: job, child process, cancellation requested
          thread,    \* progress of the two threads that tick
          starter,   \* progress of analyze_track
          gate,      \* accepting, closed, and whether the GUI still polls
          restore,   \* progress of the thread that drains the service
          todo       \* commands and faults that may still occur

vars == <<row, stored, changed, pending, current, coord, sup, thread, starter, gate, restore, todo>>
base == <<row, stored>>
queue == <<pending, current, coord>>

Statuses == {"none", "PENDING", "RUNNING", "COMPLETED", "FAILED", "CANCELLED"}
Ended == {"COMPLETED", "FAILED", "CANCELLED"}
Threads == {"gui", "drain"}
Children == {"none", "working", "hung", "result", "error", "gone"}

Idle == [pc |-> "idle", run |-> NoRun, result |-> "none", tick |-> TRUE]
NoJob == [job |-> NoRun, child |-> "none", cancelled |-> FALSE]

Init == /\ row \in [Runs -> {"none", "PENDING"}]       \* kept from an earlier session
        /\ \A r, q \in Runs : r < q /\ row[r] = "none" => row[q] = "none"
        /\ stored = {} /\ changed = {}
        /\ pending = << >> /\ current = NoRun /\ coord = "IDLE"
        /\ sup = NoJob /\ thread = [t \in Threads |-> Idle] /\ starter = [pc |-> "idle", run |-> NoRun]
        /\ gate = [accepting |-> TRUE, closed |-> FALSE, polling |-> TRUE]
        /\ restore = "idle" /\ todo \in Scenarios

Spend(what) == todo[what] > 0 /\ todo' = [todo EXCEPT ![what] = @ - 1]
At(t, pc) == thread[t].pc = pc
Goes(t, pc) == thread' = [thread EXCEPT ![t].pc = pc]
Job(t) == thread[t].run

\* An exception: the GUI's next tick is never scheduled, the drain gives up.
Raises(t) == /\ thread' = [thread EXCEPT ![t] = Idle]
             /\ gate' = IF t = "gui" /\ thread[t].tick THEN [gate EXCEPT !.polling = FALSE] ELSE gate
             /\ restore' = IF t = "drain" THEN "resume" ELSE restore

Returns(t) == thread' = [thread EXCEPT ![t] = Idle]
----------------------------------------------------------------------------
(* MetadataAnalysisCoordinator.tick                                        *)

MayTick(t) == /\ At(t, "idle") /\ coord # "CLOSED"
              /\ IF t = "gui" THEN gate.polling ELSE restore = "drain" /\ current # NoRun

\* With a job: MetadataAnalysisProcessSupervisor.poll reads its references.
TickPolls(t) ==
  /\ MayTick(t) /\ current # NoRun /\ sup.job # NoRun
  /\ thread' = [thread EXCEPT ![t] = [Idle EXCEPT !.pc = "read", !.run = sup.job]]
  /\ UNCHANGED <<base, changed, queue, sup, starter, gate, restore, todo>>

\* Without one: the oldest pending job, unless the service is paused or playback,
\* recovery, maintenance or production mode block it (then the tick does nothing).
TickStarts(t) ==
  /\ MayTick(t) /\ current = NoRun /\ coord # "PAUSED" /\ pending # << >>
  /\ thread' = [thread EXCEPT ![t] = [Idle EXCEPT !.pc = "take", !.run = Head(pending)]]
  /\ UNCHANGED <<base, changed, queue, sup, starter, gate, restore, todo>>

Take(t) ==
  /\ At(t, "take")
  /\ IF pending = << >>
     THEN Raises(t) /\ UNCHANGED pending
     ELSE /\ pending' = Tail(pending)
          /\ Goes(t, IF Job(t) \in changed THEN "reject" ELSE "mark")
          /\ UNCHANGED <<gate, restore>>
  /\ UNCHANGED <<base, changed, current, coord, sup, starter, todo>>

Reject(t) ==
  /\ At(t, "reject")
  /\ row' = [row EXCEPT ![Job(t)] = "FAILED"]
  /\ Returns(t)
  /\ UNCHANGED <<stored, changed, queue, sup, starter, gate, restore, todo>>

\* Variant: start forgets that only a PENDING run may be started.
MarkRunningAnyway(t) ==
  /\ At(t, "mark")
  /\ row' = [row EXCEPT ![Job(t)] = "RUNNING"] /\ Goes(t, "submit")
  /\ UNCHANGED <<stored, changed, queue, sup, starter, gate, restore, todo>>

MarkRunning(t) ==
  /\ At(t, "mark")
  /\ row' = IF row[Job(t)] = "PENDING" THEN [row EXCEPT ![Job(t)] = "RUNNING"] ELSE row
  /\ IF row'[Job(t)] = "RUNNING" THEN Goes(t, "submit") /\ UNCHANGED <<gate, restore>> ELSE Raises(t)
  /\ UNCHANGED <<stored, changed, queue, sup, starter, todo>>

\* supervisor.submit: one process at a time; a spawn that fails leaves its job behind.
Submit(t) ==
  /\ At(t, "submit")
  /\ \/ /\ sup.job = NoRun
        /\ sup' = [NoJob EXCEPT !.job = Job(t), !.child = "working"]
        /\ Goes(t, "started") /\ UNCHANGED <<gate, restore, todo>>
     \/ /\ sup.job = NoRun /\ Spend("spawn")
        /\ sup' = [NoJob EXCEPT !.job = Job(t)]
        /\ Raises(t)
     \/ sup.job # NoRun /\ Raises(t) /\ UNCHANGED <<sup, todo>>
  /\ UNCHANGED <<base, changed, queue, starter>>

Started(t) ==
  /\ At(t, "started")
  /\ current' = Job(t) /\ coord' = "RUNNING"
  /\ Returns(t)
  /\ UNCHANGED <<base, changed, pending, sup, starter, gate, restore, todo>>
----------------------------------------------------------------------------
(* MetadataAnalysisProcessSupervisor.poll, cancel and _release_process     *)

Answers(t, result) == thread' = [thread EXCEPT ![t].pc = "release", ![t].result = result]

\* Variant: without the time limit.
Crashed(child) == child = "gone"

\* The process is no longer alive, or the job's time is up.
Over(child) == child \in {"gone", "hung"}

\* The pipe first, then the time limit, then the process; an object the other thread has
\* closed meanwhile raises.  A result that arrives after a cancellation is skipped.
Read(t) ==
  /\ At(t, "read")
  /\ \/ sup.job # Job(t) /\ Raises(t) /\ UNCHANGED sup
     \/ /\ sup.job = Job(t) /\ UNCHANGED <<gate, restore>>
        /\ \/ /\ sup.child = "result"
              /\ sup' = [sup EXCEPT !.child = "gone"]
              /\ IF sup.cancelled THEN UNCHANGED thread ELSE Answers(t, "success")
           \/ /\ sup.child = "error"
              /\ sup' = [sup EXCEPT !.child = "gone"] /\ Answers(t, "failure")
           \/ Over(sup.child) /\ Answers(t, "failure") /\ UNCHANGED sup
           \/ sup.child \in {"working", "none", "hung"} /\ ~Over(sup.child) /\ Returns(t) /\ UNCHANGED sup
  /\ UNCHANGED <<base, changed, queue, starter, todo>>

\* Whatever process the supervisor holds by now is joined, terminated and forgotten.
Release(t) ==
  /\ At(t, "release")
  /\ sup' = NoJob /\ Goes(t, "complete")
  /\ UNCHANGED <<base, changed, queue, starter, gate, restore, todo>>

\* cancel: after its grace period it ends the job the supervisor holds then.
Terminate(t) ==
  /\ At(t, "terminate")
  /\ IF sup.job = NoRun THEN Raises(t) /\ UNCHANGED sup
     ELSE /\ thread' = [thread EXCEPT ![t].pc = "complete", ![t].run = sup.job, ![t].result = "cancelled"]
          /\ sup' = NoJob /\ UNCHANGED <<gate, restore>>
  /\ UNCHANGED <<base, changed, queue, starter, todo>>

Working == sup.child = "working"
ChildGoes(to) == /\ sup' = [sup EXCEPT !.child = to]
                 /\ UNCHANGED <<base, changed, queue, thread, starter, gate, restore>>
ChildSends == Working /\ ChildGoes("result") /\ UNCHANGED todo
ChildFails == Working /\ Spend("fail") /\ ChildGoes("error")
ChildDies == Working /\ Spend("die") /\ ChildGoes("gone")
ChildHangs == Working /\ Spend("hang") /\ ChildGoes("hung")
----------------------------------------------------------------------------
(* MetadataAnalysisCoordinator._complete                                   *)

\* A file that has changed meanwhile discards whatever the worker answered.
Complete(t) ==
  /\ At(t, "complete")
  /\ LET outcome == IF Job(t) \in changed THEN "changed" ELSE thread[t].result
     IN  thread' = IF current # Job(t) THEN [thread EXCEPT ![t] = Idle]
                   ELSE [thread EXCEPT ![t].pc = IF outcome = "success" THEN "store" ELSE "finish",
                                       ![t].result = outcome]
  /\ UNCHANGED <<base, changed, queue, sup, starter, gate, restore, todo>>

\* Variant: a result the transaction refuses still counts as one.
StoreRefusedAsSuccess(t) ==
  /\ At(t, "store")
  /\ IF row[Job(t)] = "RUNNING"
     THEN stored' = stored \cup {Job(t)} /\ row' = [row EXCEPT ![Job(t)] = "COMPLETED"]
     ELSE UNCHANGED base
  /\ Goes(t, "finish")
  /\ UNCHANGED <<changed, queue, sup, starter, gate, restore, todo>>

\* persist_valid_result: one transaction, refused unless the run is RUNNING.
Store(t) ==
  /\ At(t, "store")
  /\ IF row[Job(t)] = "RUNNING"
     THEN /\ stored' = stored \cup {Job(t)} /\ row' = [row EXCEPT ![Job(t)] = "COMPLETED"]
          /\ Goes(t, "finish")
     ELSE /\ thread' = [thread EXCEPT ![t].pc = "finish", ![t].result = "rejected"]
          /\ UNCHANGED base
  /\ UNCHANGED <<changed, queue, sup, starter, gate, restore, todo>>

\* Variant: the outcome is written as it is.
Outcome(result) == result

\* SqliteAnalysisRunPersistencePort.finish: three ends for all outcomes.
EndOf(result) == CASE result = "success" -> "COMPLETED" [] result = "cancelled" -> "CANCELLED" [] OTHER -> "FAILED"

\* AnalysisRunRepository.finish does not ask for the status; it may raise.
Finish(t) ==
  /\ At(t, "finish")
  /\ \/ /\ row' = [row EXCEPT ![Job(t)] = EndOf(thread[t].result)]
        /\ Goes(t, "clear") /\ UNCHANGED <<gate, restore, todo>>
     \/ Spend("busy") /\ Raises(t) /\ UNCHANGED row
  /\ UNCHANGED <<stored, changed, queue, sup, starter>>

Clear(t) ==
  /\ At(t, "clear")
  /\ current' = NoRun /\ coord' = IF coord = "PAUSED" THEN coord ELSE "IDLE"
  /\ Returns(t)
  /\ UNCHANGED <<base, changed, pending, sup, starter, gate, restore, todo>>

Tick(t) == \/ TickPolls(t) \/ TickStarts(t) \/ Take(t) \/ Reject(t) \/ MarkRunning(t) \/ Submit(t)
           \/ Started(t) \/ Read(t) \/ Release(t) \/ Terminate(t) \/ Complete(t) \/ Store(t)
           \/ Finish(t) \/ Clear(t)
----------------------------------------------------------------------------
(* analyze_track: check, create_job, enqueue.                              *)

Analyze ==
  /\ starter.pc = "idle" /\ ~gate.closed /\ gate.accepting /\ Spend("analyze")
  /\ starter' = [starter EXCEPT !.pc = "create"]
  /\ UNCHANGED <<base, changed, queue, sup, thread, gate, restore>>

\* Without FFmpeg the run is FAILED at once.
CreateJob ==
  /\ starter.pc = "create"
  /\ LET r == CHOOSE x \in Runs : row[x] = "none" /\ \A y \in Runs : y < x => row[y] # "none"
         full == \A x \in Runs : row[x] # "none"
     IN  \/ full /\ starter' = [pc |-> "idle", run |-> NoRun] /\ UNCHANGED <<row, todo>>
         \/ /\ ~full /\ row' = [row EXCEPT ![r] = "PENDING"]
            /\ starter' = [pc |-> "enqueue", run |-> r] /\ UNCHANGED todo
         \/ /\ ~full /\ Spend("unavailable")
            /\ row' = [row EXCEPT ![r] = "FAILED"] /\ starter' = [pc |-> "idle", run |-> NoRun]
  /\ UNCHANGED <<stored, changed, queue, sup, thread, gate, restore>>

Enqueue ==
  /\ starter.pc = "enqueue" /\ Len(pending) < MaxPending
  /\ pending' = IF coord = "CLOSED" THEN pending ELSE Append(pending, starter.run)
  /\ starter' = [pc |-> "idle", run |-> NoRun]
  /\ UNCHANGED <<base, changed, current, coord, sup, thread, gate, restore, todo>>
----------------------------------------------------------------------------
(* The operator's commands, on the GUI thread between two ticks.           *)

Free == At("gui", "idle")
Stored(status) == {r \in Runs : row[r] = status}
Ordered(s) == \A i, j \in DOMAIN s : i < j => s[i] < s[j]

\* Every PENDING row is put into the queue by its id, whether it is there already or not.
ResumePending ==
  /\ Free /\ Spend("resumePending")
  /\ coord # "CLOSED" /\ Len(pending) + Cardinality(Stored("PENDING")) <= MaxPending
  /\ \E all \in [1..Cardinality(Stored("PENDING")) -> Stored("PENDING")] :
        Ordered(all) /\ pending' = pending \o all
  /\ UNCHANGED <<base, changed, current, coord, sup, thread, starter, gate, restore>>

DiscardPending ==
  /\ Free /\ Spend("discard") /\ pending = << >> /\ current = NoRun
  /\ row' = [r \in Runs |-> IF row[r] = "PENDING" THEN "CANCELLED" ELSE row[r]]
  /\ UNCHANGED <<stored, changed, queue, sup, thread, starter, gate, restore>>

Pause == /\ Free /\ coord # "CLOSED" /\ Spend("pause") /\ coord' = "PAUSED"
         /\ UNCHANGED <<base, changed, pending, current, sup, thread, starter, gate, restore>>
Resume == /\ Free /\ coord = "PAUSED" /\ Spend("resume") /\ coord' = "IDLE"
          /\ UNCHANGED <<base, changed, pending, current, sup, thread, starter, gate, restore>>

\* cancel_current: only a job the supervisor still holds is cancelled.
CancelsCurrent ==
  IF current # NoRun /\ sup.job # NoRun
  THEN /\ thread' = [thread EXCEPT !["gui"] = [Idle EXCEPT !.pc = "terminate", !.tick = FALSE]]
       /\ sup' = [sup EXCEPT !.cancelled = TRUE]
  ELSE UNCHANGED <<thread, sup>>

CancelCurrent == /\ Free /\ Spend("cancel") /\ CancelsCurrent
                 /\ UNCHANGED <<base, changed, queue, starter, gate, restore>>

CancelAll ==
  /\ Free /\ Spend("cancelAll") /\ CancelsCurrent
  /\ row' = [r \in Runs |-> IF \E i \in DOMAIN pending : pending[i] = r THEN "CANCELLED" ELSE row[r]]
  /\ pending' = << >>
  /\ UNCHANGED <<stored, changed, current, coord, starter, gate, restore>>

\* close, after the main loop: the current job is cancelled, pending ones stay PENDING.
Close ==
  /\ Free /\ ~gate.closed /\ Spend("close")
  /\ IF current # NoRun /\ sup.job = current
     THEN /\ row' = [row EXCEPT ![current] = IF current \in changed THEN "FAILED" ELSE "CANCELLED"]
          /\ current' = NoRun
     ELSE UNCHANGED <<row, current>>
  /\ sup' = NoJob /\ coord' = "CLOSED"
  /\ gate' = [accepting |-> FALSE, closed |-> TRUE, polling |-> FALSE]
  /\ UNCHANGED <<stored, changed, pending, thread, starter, restore>>
----------------------------------------------------------------------------
(* A restore or a maintenance drains the service; other programs change a  *)
(* file; the program ends and starts again.                                *)

Block == /\ restore = "idle" /\ Spend("restore") /\ restore' = "drain"
         /\ gate' = [gate EXCEPT !.accepting = FALSE]
         /\ coord' = IF coord = "CLOSED" THEN coord ELSE "PAUSED"
         /\ UNCHANGED <<base, changed, pending, current, sup, thread, starter>>

\* drain: the answer, or the timeout after a tick.
Drain == /\ restore = "drain" /\ At("drain", "idle")
         /\ restore' = IF current = NoRun THEN "exchange" ELSE "resume"
         /\ UNCHANGED <<base, changed, queue, sup, thread, starter, gate, todo>>

ResumeWork == /\ restore \in {"exchange", "resume"} /\ restore' = "over"
              /\ IF gate.closed THEN UNCHANGED <<gate, coord>>
                 ELSE /\ gate' = [gate EXCEPT !.accepting = TRUE]
                      /\ coord' = IF coord = "PAUSED" THEN "IDLE" ELSE coord
              /\ UNCHANGED <<base, changed, pending, current, sup, thread, starter, todo>>

FileChanges == /\ Spend("change")
               /\ \E r \in Runs : row[r] # "none" /\ changed' = changed \cup {r}
               /\ UNCHANGED <<base, queue, sup, thread, starter, gate, restore>>

\* Variant: the new session leaves interrupted runs as they are.
RecoveredNot(status) == status

\* recover_interrupted_runs, from the service's constructor.
Recovered(status) == IF status = "RUNNING" THEN "FAILED" ELSE status

Restart ==
  /\ Spend("restart")
  /\ row' = [r \in Runs |-> Recovered(row[r])]
  /\ pending' = << >> /\ current' = NoRun /\ coord' = "IDLE" /\ sup' = NoJob
  /\ thread' = [t \in Threads |-> Idle] /\ starter' = [pc |-> "idle", run |-> NoRun]
  /\ gate' = [accepting |-> TRUE, closed |-> FALSE, polling |-> TRUE]
  /\ restore' = IF restore = "idle" THEN "idle" ELSE "over"
  /\ UNCHANGED <<stored, changed>>
----------------------------------------------------------------------------
Next == \/ \E t \in Threads : Tick(t)
        \/ ChildSends \/ ChildFails \/ ChildDies \/ ChildHangs
        \/ Analyze \/ CreateJob \/ Enqueue
        \/ ResumePending \/ DiscardPending \/ Pause \/ Resume \/ CancelCurrent \/ CancelAll \/ Close
        \/ Block \/ Drain \/ ResumeWork \/ FileChanges \/ Restart

Spec == Init /\ [][Next]_vars

\* The threads and the child go on; playback ends now and then, so that a tick may start.
FairSpec == /\ Spec
            /\ \A t \in Threads : WF_vars(Tick(t))
            /\ WF_vars(ChildSends \/ ChildFails \/ ChildDies \/ ChildHangs)
            /\ WF_vars(CreateJob \/ Enqueue) /\ WF_vars(Drain) /\ WF_vars(ResumeWork)
----------------------------------------------------------------------------
TypeOK ==
  /\ row \in [Runs -> Statuses] /\ stored \subseteq Runs /\ changed \subseteq Runs
  /\ Len(pending) <= MaxPending /\ \A i \in DOMAIN pending : row[pending[i]] # "none"
  /\ current \in Runs \cup {NoRun} /\ coord \in {"IDLE", "RUNNING", "PAUSED", "CLOSED"}
  /\ sup.job \in Runs \cup {NoRun} /\ sup.child \in Children
  /\ restore \in {"idle", "drain", "exchange", "resume", "over"}

\* A run is COMPLETED only with its results: persist_valid_result writes both in one
\* transaction, and every other way to an end is FAILED or CANCELLED, whichever of the two
\* ticking threads, a cancellation or an interrupted session gets there first.
CompletedIsStored == \A r \in Runs : row[r] = "COMPLETED" => r \in stored

\* A run that has ended never runs again, and a COMPLETED one keeps the status its results
\* were stored under; only a second thread's finish, or a second copy of the run in the queue
\* (cancelled, or rejected for a changed file), writes another end over it, because
\* AnalysisRunRepository.finish asks for no status.
Queued(r) == \E i \in DOMAIN pending : pending[i] = r
EndedStaysEnded ==
  [][\A r \in Runs : row[r] \in Ended =>
       /\ row'[r] \in Ended
       /\ row[r] = "COMPLETED" /\ row'[r] # "COMPLETED" =>
            restore # "idle" \/ Queued(r) \/ thread["gui"].pc = "reject"]_vars

\* While the GUI polls and no drain ticks beside it, each RUNNING row is the run of the job
\* the coordinator holds or is just starting: no run is left RUNNING by a lost job, and at
\* most one is.
RunningIsOwned ==
  restore = "idle" /\ gate.polling =>
    \A r \in Runs : row[r] = "RUNNING" =>
      current = r \/ (thread["gui"].run = r /\ thread["gui"].pc \in {"submit", "started"})

Stuck == current # NoRun /\ sup.job = NoRun

\* A queued run is taken, cancelled or left for another session: the ones before it end
\* (they answer, fail, die or hit the time limit), unless the service is paused or closed,
\* an exception has ended the polling or a failed finish has kept the job (Stuck).
QueuedIsTaken ==
  \A r \in Runs : Queued(r) ~> ~Queued(r) \/ coord \in {"PAUSED", "CLOSED"} \/ ~gate.polling \/ Stuck

\* "wartende Runs wurden eingereiht; Start erfolgt kontrolliert." (catalog_maintenance_dialog
\* .py:943): the ticks go on until the service is closed.
PollingGoesOn == gate.polling \/ gate.closed
=============================================================================
