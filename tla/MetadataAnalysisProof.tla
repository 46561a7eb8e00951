----------------------- MODULE MetadataAnalysisProof -----------------------
(***************************************************************************)
(* The rows of the analysis runs, for any number of runs, any bound of the *)
(* queue and any events: a COMPLETED run has its results, no run stays     *)
(* RUNNING without its job, and what has ended stays ended.                *)
(*                                                                         *)
(* Two of these hold only while nobody ticks beside the GUI.  The argument *)
(* is then a sequential one: the operator's commands wait for the tick to  *)
(* return, so that the job in the tick is the one the coordinator and the  *)
(* supervisor hold, and only its row is written (Solo).                    *)
(***************************************************************************)
EXTENDS MetadataAnalysis, FiniteSetTheorems, SequenceTheorems, WellFoundedInduction, TLAPS

Starting == {"take", "reject", "mark", "submit", "started"}
Polling == {"read", "release"}
Completing == {"complete", "store", "finish", "clear"}
Pcs == {"idle", "terminate"} \cup Starting \cup Polling \cup Completing
Results == {"none", "success", "failure", "cancelled", "changed", "rejected"}
Frames == [pc : Pcs, run : Runs \cup {NoRun}, result : Results, tick : BOOLEAN]

\* The database, the coordinator's job, the supervisor and the gate.
DataOK ==
  /\ row \in [Runs -> Statuses] /\ stored \subseteq Runs /\ changed \subseteq Runs
  /\ current \in Runs \cup {NoRun} /\ coord \in {"IDLE", "RUNNING", "PAUSED", "CLOSED"}
  /\ sup \in [job : Runs \cup {NoRun}, child : Children, cancelled : BOOLEAN]
  /\ gate \in [accepting : BOOLEAN, closed : BOOLEAN, polling : BOOLEAN]
  /\ restore \in {"idle", "drain", "exchange", "resume", "over"}

\* What is queued, or on its way into the queue, has a row.
QueueOK ==
  /\ pending \in Seq(Runs) /\ Len(pending) <= MaxPending
  /\ \A i \in 1..Len(pending) : row[pending[i]] # "none"
  /\ starter \in [pc : {"idle", "create", "enqueue"}, run : Runs \cup {NoRun}]
  /\ starter.pc = "enqueue" => starter.run \in Runs /\ row[starter.run] # "none"

\* A tick works on a run, except before a cancellation has looked for one.
ThreadsOK ==
  /\ thread \in [Threads -> Frames]
  /\ \A t \in Threads : thread[t].pc \notin {"idle", "terminate"} => thread[t].run \in Runs

Types == DataOK /\ QueueOK /\ ThreadsOK

\* Only what persist_valid_result has stored is about to be finished as a success.
ResultsStored ==
  \A t \in Threads : /\ thread[t].pc = "store" => thread[t].result = "success"
                     /\ thread[t].pc = "finish" /\ thread[t].result = "success" => thread[t].run \in stored

gui == thread["gui"]

\* The rows a tick works on while nobody else ticks: the job's own, written only by itself.
Alone ==
  /\ gui.pc \in Starting => gui.tick
  /\ gui.pc \in Starting => current = NoRun
  /\ gui.pc = "started" => sup.job = gui.run
  /\ gui.pc \in {"submit", "started"} => row[gui.run] = "RUNNING"
  /\ gui.pc \in Polling \cup {"terminate"} => current # NoRun /\ sup.job = current
  /\ gui.pc \in Polling \cup Completing => current = gui.run
  /\ gui.pc \in Completing => sup.job = NoRun
  /\ gui.pc = "clear" => row[gui.run] \in Ended
  /\ gui.pc = "finish" /\ gui.result # "success" => row[gui.run] \in {"RUNNING", "CANCELLED"}
  /\ current # NoRun /\ sup.job # NoRun => sup.job = current
  /\ current # NoRun /\ (sup.job # NoRun \/ gui.pc \in {"complete", "store"}) => row[current] \in {"RUNNING", "CANCELLED"}

Solo == restore = "idle" => thread["drain"].pc = "idle" /\ Alone

IInv == Types /\ CompletedIsStored /\ ResultsStored /\ Solo /\ RunningIsOwned

\* What a step may do to a row that has ended.
KeepsEnded ==
  \A r \in Runs : row[r] \in Ended =>
       /\ row'[r] \in Ended
       /\ row[r] = "COMPLETED" /\ row'[r] # "COMPLETED" =>
            restore # "idle" \/ Queued(r) \/ thread["gui"].pc = "reject"
Kept == IInv' /\ KeepsEnded
----------------------------------------------------------------------------
(* Ranges, frames and the queue.                                           *)

LEMMA Ranges == Last \in Nat \ {0} /\ MaxPending \in Nat \ {0} /\ Runs \subseteq Nat /\ NoRun \notin Runs
BY AnalysisAssumption DEF Runs, NoRun

LEMMA Least ==
  ASSUME NEW S \in SUBSET Nat, S # {}
  PROVE  \E i \in S : \A j \in S : i <= j
<1>1. PICK i \in S : \A j \in S : ~ (<<j, i>> \in OpToRel(<, Nat))
  BY NatLessThanWellFounded, WFMin
<1>2. \A j \in S : ~ (j < i)
  BY <1>1 DEF OpToRel
<1> QED  BY <1>2

LEMMA TypesImplyTypeOK == Types => TypeOK
BY DEF Types, DataOK, QueueOK, TypeOK

\* A thread of which each component is known; the other one keeps its frame.
Moved(t, pc, run, result, tick) ==
  /\ thread' \in [Threads -> Frames]
  /\ thread'[t].pc = pc /\ thread'[t].run = run /\ thread'[t].result = result /\ thread'[t].tick = tick
  /\ \A u \in Threads : u # t => thread'[u] = thread[u]

LEMMA IdleWith ==
  ASSUME NEW pc, NEW run, NEW f, f = [Idle EXCEPT !.pc = pc, !.run = run]
  PROVE  f = [pc |-> pc, run |-> run, result |-> "none", tick |-> TRUE]
BY DEF Idle

LEMMA Goto ==
  ASSUME ThreadsOK, NEW t \in Threads, NEW pc \in Pcs, Goes(t, pc)
  PROVE  Moved(t, pc, thread[t].run, thread[t].result, thread[t].tick)
BY DEF ThreadsOK, Goes, Moved, Frames

LEMMA Answered ==
  ASSUME ThreadsOK, NEW t \in Threads, NEW pc \in Pcs, NEW result \in Results,
         thread' = [thread EXCEPT ![t].pc = pc, ![t].result = result]
  PROVE  Moved(t, pc, thread[t].run, result, thread[t].tick)
BY DEF ThreadsOK, Moved, Frames

LEMMA Framed ==
  ASSUME ThreadsOK, NEW t \in Threads, NEW pc \in Pcs, NEW run \in Runs \cup {NoRun},
         NEW result \in Results, NEW tick \in BOOLEAN,
         thread' = [thread EXCEPT ![t] = [pc |-> pc, run |-> run, result |-> result, tick |-> tick]]
  PROVE  Moved(t, pc, run, result, tick)
BY DEF ThreadsOK, Moved, Frames

LEMMA ToIdle ==
  ASSUME ThreadsOK, NEW t \in Threads, Returns(t)
  PROVE  Moved(t, "idle", NoRun, "none", TRUE)
BY Framed DEF Returns, Idle, Pcs, Results

\* An exception out of a tick ends the polling.
LEMMA Raised ==
  ASSUME DataOK, ThreadsOK, NEW t \in Threads, Raises(t)
  PROVE  /\ Moved(t, "idle", NoRun, "none", TRUE)
         /\ gate' \in [accepting : BOOLEAN, closed : BOOLEAN, polling : BOOLEAN]
         /\ t = "gui" /\ gui.tick => ~gate'.polling
         /\ gate'.polling => gate.polling
         /\ t = "gui" => restore' = restore
         /\ restore' \in {restore, "resume"}
<1>1. Moved(t, "idle", NoRun, "none", TRUE)
  BY ToIdle DEF Raises, Returns
<1> QED  BY <1>1 DEF Raises, DataOK, gui

\* The frames stay frames.
LEMMA FramesStay ==
  ASSUME ThreadsOK, NEW t \in Threads, NEW pc, NEW run, NEW result, NEW tick,
         Moved(t, pc, run, result, tick), pc \in {"idle", "terminate"} \/ run \in Runs
  PROVE  ThreadsOK'
BY DEF ThreadsOK, Moved

\* What is queued keeps its row.
LEMMA QueueStays ==
  ASSUME QueueOK, starter' = starter, \A r \in Runs : row[r] # "none" => row'[r] # "none",
         pending' = pending \/ pending' = << >>
  PROVE  QueueOK'
<1>1. \A i \in 1..Len(pending) : pending[i] \in Runs /\ row'[pending[i]] # "none"
  BY DEF QueueOK
<1>2. starter.pc = "enqueue" => row'[starter.run] # "none"
  BY DEF QueueOK
<1>3. CASE pending' = pending
  BY <1>1, <1>2, <1>3 DEF QueueOK
<1>4. CASE pending' = << >>
  <2>1. << >> \in Seq(Runs) /\ Len(<< >>) = 0
    OBVIOUS
  <2> QED  BY <1>2, <1>4, <2>1, Ranges DEF QueueOK
<1> QED  BY <1>3, <1>4

LEMMA QueueShrinks ==
  ASSUME QueueOK, starter' = starter, row' = row, pending # << >>, pending' = Tail(pending)
  PROVE  QueueOK'
<1>1. Tail(pending) \in Seq(Runs) /\ Len(Tail(pending)) = Len(pending) - 1
  BY DEF QueueOK
<1>2. \A i \in 1..Len(Tail(pending)) : Tail(pending)[i] = pending[i + 1] /\ i + 1 \in 1..Len(pending)
  BY <1>1 DEF QueueOK
<1> QED  BY <1>1, <1>2, Ranges DEF QueueOK

LEMMA QueueGrows ==
  ASSUME QueueOK, NEW s \in Seq(Runs), pending' = pending \o s, row' = row, starter' = starter,
         Len(pending) + Len(s) <= MaxPending, \A i \in 1..Len(s) : row[s[i]] # "none"
  PROVE  QueueOK'
<1>1. /\ pending' \in Seq(Runs) /\ Len(pending') = Len(pending) + Len(s)
      /\ \A i \in 1..Len(pending') : pending'[i] = IF i <= Len(pending) THEN pending[i] ELSE s[i - Len(pending)]
  BY DEF QueueOK
<1>2. ASSUME NEW i \in 1..Len(pending') PROVE row[pending'[i]] # "none"
  <2>1. CASE i <= Len(pending)
    BY <1>1, <2>1 DEF QueueOK
  <2>2. CASE i > Len(pending)
    <3>1. i - Len(pending) \in 1..Len(s)
      BY <1>1, <2>2 DEF QueueOK
    <3> QED  BY <1>1, <2>2, <3>1 DEF QueueOK
  <2> QED  BY <2>1, <2>2 DEF QueueOK
<1> QED  BY <1>1, <1>2 DEF QueueOK

\* A drain that is under way shows.
LEMMA DrainShows ==
  ASSUME IInv, NEW t \in Threads, ~At(t, "idle")
  PROVE  restore = "idle" => t = "gui"
BY DEF IInv, Solo, At, Threads
----------------------------------------------------------------------------
(* A tick of either thread.                                                *)

\* A tick asks the supervisor about its job.
LEMMA TickPollsKeeps ==
  ASSUME IInv, NEW t \in Threads, TickPolls(t)
  PROVE  Kept
<1>1. Moved(t, "read", sup.job, "none", TRUE) /\ sup.job \in Runs
  <2>1. thread' = [thread EXCEPT ![t] = [pc |-> "read", run |-> sup.job, result |-> "none", tick |-> TRUE]]
    BY IdleWith DEF TickPolls
  <2>2. sup.job \in Runs
    BY DEF TickPolls, IInv, Types, DataOK
  <2> QED  BY <2>1, <2>2, Framed DEF IInv, Types, Pcs, Polling, Results
<1>2. Types'
  BY <1>1, FramesStay, QueueStays DEF TickPolls, IInv, Types, DataOK, base, queue
<1>3. CompletedIsStored' /\ ResultsStored' /\ RunningIsOwned' /\ KeepsEnded
  BY <1>1 DEF TickPolls, MayTick, At, IInv, CompletedIsStored, ResultsStored, RunningIsOwned, KeepsEnded, Moved, base, queue
<1>4. Solo'
  BY <1>1 DEF TickPolls, MayTick, IInv, Solo, Alone, gui, Moved, Starting, Polling, Completing, Threads, base, queue
<1> QED  BY <1>2, <1>3, <1>4 DEF Kept, IInv

\* A tick looks at the oldest pending job.
LEMMA TickStartsKeeps ==
  ASSUME IInv, NEW t \in Threads, TickStarts(t)
  PROVE  Kept
<1>1. Moved(t, "take", Head(pending), "none", TRUE) /\ Head(pending) \in Runs
  <2>1. Head(pending) \in Runs
    BY DEF TickStarts, IInv, Types, QueueOK
  <2>2. thread' = [thread EXCEPT ![t] = [pc |-> "take", run |-> Head(pending), result |-> "none", tick |-> TRUE]]
    BY IdleWith DEF TickStarts
  <2> QED  BY <2>1, <2>2, Framed DEF IInv, Types, Pcs, Starting, Results
<1>2. Types'
  BY <1>1, FramesStay, QueueStays DEF TickStarts, IInv, Types, DataOK, base, queue
<1>3. CompletedIsStored' /\ ResultsStored' /\ RunningIsOwned' /\ KeepsEnded
  BY <1>1 DEF TickStarts, MayTick, At, IInv, CompletedIsStored, ResultsStored, RunningIsOwned, KeepsEnded, Moved, base, queue
<1>4. Solo'
  BY <1>1 DEF TickStarts, MayTick, IInv, Solo, Alone, gui, Moved, Starting, Polling, Completing, Threads, base, queue
<1> QED  BY <1>2, <1>3, <1>4 DEF Kept, IInv

\* A tick that raises gives up its run, and what the run holds stays with the polling.
LEMMA RaiseKeeps ==
  ASSUME IInv, NEW t \in Threads, Raises(t), thread[t].pc \in Starting \cup {"read", "terminate", "finish"},
         t = "drain" => restore # "idle",
         row' = row, stored' = stored, changed' = changed, pending' = pending, current' = current, coord' = coord,
         starter' = starter, sup' = sup \/ sup' \in [job : Runs, child : {"none"}, cancelled : {FALSE}],
         restore = "idle" /\ current # NoRun => sup' = sup
  PROVE  Kept
<1>1. /\ Moved(t, "idle", NoRun, "none", TRUE)
      /\ gate' \in [accepting : BOOLEAN, closed : BOOLEAN, polling : BOOLEAN]
      /\ t = "gui" /\ gui.tick => ~gate'.polling
      /\ gate'.polling => gate.polling
      /\ t = "gui" => restore' = restore
      /\ restore' \in {restore, "resume"}
  BY Raised DEF IInv, Types
<1>2. Types'
  BY <1>1, FramesStay, QueueStays DEF IInv, Types, DataOK, Children
<1>3. CompletedIsStored' /\ ResultsStored' /\ KeepsEnded
  BY <1>1 DEF IInv, CompletedIsStored, ResultsStored, KeepsEnded, Moved
<1>4. Solo'
  BY <1>1 DEF IInv, Solo, Alone, gui, Moved, Starting, Polling, Completing, Threads
<1>5. RunningIsOwned'
  BY <1>1 DEF IInv, RunningIsOwned, Solo, Alone, gui, Moved, Starting, Polling, Completing, Threads, Ended
<1> QED  BY <1>2, <1>3, <1>4, <1>5 DEF Kept, IInv

LEMMA TakeKeeps ==
  ASSUME IInv, NEW t \in Threads, Take(t)
  PROVE  Kept
<1>1. t = "drain" => restore # "idle"
  BY DrainShows DEF Take, At
<1>2. CASE pending = << >>
  BY <1>1, <1>2, RaiseKeeps DEF Take, At, Starting, base
<1>3. CASE pending # << >>
  <2> DEFINE pc == IF Job(t) \in changed THEN "reject" ELSE "mark"
  <2>1. Moved(t, pc, Job(t), thread[t].result, thread[t].tick) /\ Job(t) \in Runs
    BY <1>3, Goto DEF Take, At, Job, IInv, Types, ThreadsOK, Pcs, Starting
  <2>2. pc \in {"reject", "mark"}
    OBVIOUS
  <2> HIDE DEF pc
  <2>3. Types'
    BY <1>3, <2>1, FramesStay, QueueShrinks DEF Take, IInv, Types, DataOK, base
  <2>4. CompletedIsStored' /\ ResultsStored' /\ RunningIsOwned' /\ KeepsEnded
    BY <1>3, <2>1, <2>2
       DEF Take, At, IInv, CompletedIsStored, ResultsStored, RunningIsOwned, KeepsEnded, Moved, Threads, base
  <2>5. Solo'
    BY <1>1, <1>3, <2>1, <2>2
       DEF Take, At, IInv, Solo, Alone, gui, Moved, Starting, Polling, Completing, Threads, base
  <2> QED  BY <2>3, <2>4, <2>5 DEF Kept, IInv
<1> QED  BY <1>2, <1>3

\* A file that has changed: the run is FAILED, whatever its status.
LEMMA RejectKeeps ==
  ASSUME IInv, NEW t \in Threads, Reject(t)
  PROVE  Kept
<1>1. Moved(t, "idle", NoRun, "none", TRUE) /\ Job(t) \in Runs
  BY ToIdle DEF Reject, At, Job, IInv, Types, ThreadsOK
<1>2. row' \in [Runs -> Statuses] /\ \A r \in Runs : row'[r] \in {row[r], "FAILED"}
  BY <1>1 DEF Reject, IInv, Types, DataOK, Statuses
<1>3. Types'
  BY <1>1, <1>2, FramesStay, QueueStays DEF Reject, IInv, Types, DataOK, queue
<1>4. CompletedIsStored' /\ ResultsStored' /\ RunningIsOwned'
  BY <1>1, <1>2 DEF Reject, At, IInv, CompletedIsStored, ResultsStored, RunningIsOwned, Moved, Threads, queue
<1>5. t = "drain" => restore # "idle"
  BY DrainShows DEF Reject, At
<1>6. Solo'
  BY <1>1, <1>2, <1>5
     DEF Reject, At, IInv, Solo, Alone, gui, Moved, Starting, Polling, Completing, Threads, Ended, queue
<1>7. KeepsEnded
  BY <1>1, <1>2, <1>5 DEF Reject, At, KeepsEnded, Ended, Threads
<1> QED  BY <1>3, <1>4, <1>6, <1>7 DEF Kept, IInv

\* Only a PENDING run becomes RUNNING.
LEMMA MarkRunningKeeps ==
  ASSUME IInv, NEW t \in Threads, MarkRunning(t)
  PROVE  Kept
<1>1. t = "drain" => restore # "idle"
  BY DrainShows DEF MarkRunning, At
<1>2. Job(t) \in Runs /\ row \in [Runs -> Statuses]
  BY DEF MarkRunning, At, Job, IInv, Types, DataOK, ThreadsOK
<1>3. CASE row'[Job(t)] # "RUNNING"
  <2>1. row' = row
    BY <1>2, <1>3 DEF MarkRunning
  <2> QED  BY <1>1, <1>3, <2>1, RaiseKeeps DEF MarkRunning, At, Starting, queue
<1>4. CASE row'[Job(t)] = "RUNNING"
  <2>1. Moved(t, "submit", Job(t), thread[t].result, thread[t].tick)
    BY <1>4, Goto DEF MarkRunning, Job, IInv, Types, Pcs, Starting
  <2>2. /\ row' \in [Runs -> Statuses]
        /\ \A r \in Runs : row'[r] = row[r] \/ (r = Job(t) /\ row[r] = "PENDING" /\ row'[r] = "RUNNING")
    BY <1>2 DEF MarkRunning, Statuses
  <2>3. Types'
    BY <1>2, <1>4, <2>1, <2>2, FramesStay, QueueStays DEF MarkRunning, IInv, Types, DataOK, queue
  <2>4. CompletedIsStored' /\ ResultsStored' /\ KeepsEnded
    BY <2>1, <2>2 DEF MarkRunning, IInv, CompletedIsStored, ResultsStored, KeepsEnded, Moved, Ended
  <2>5. Solo'
    BY <1>1, <1>4, <2>1, <2>2
       DEF MarkRunning, At, Job, IInv, Solo, Alone, gui, Moved, Starting, Polling, Completing, Threads, Ended, queue
  <2>6. RunningIsOwned'
    BY <1>1, <1>4, <2>1, <2>2
       DEF MarkRunning, At, Job, IInv, RunningIsOwned, Moved, Threads, queue
  <2> QED  BY <2>3, <2>4, <2>5, <2>6 DEF Kept, IInv
<1> QED  BY <1>3, <1>4

\* One process at a time; one that does not start keeps its job, and ends the polling.
LEMMA SubmitKeeps ==
  ASSUME IInv, NEW t \in Threads, Submit(t)
  PROVE  Kept
<1>1. t = "drain" => restore # "idle"
  BY DrainShows DEF Submit, At
<1>2. Job(t) \in Runs
  BY DEF Submit, At, Job, IInv, Types, ThreadsOK
<1>3. CASE sup' = [NoJob EXCEPT !.job = Job(t), !.child = "working"] /\ Goes(t, "started") /\ UNCHANGED <<gate, restore>>
  <2>1. Moved(t, "started", Job(t), thread[t].result, thread[t].tick)
    BY <1>3, Goto DEF Job, IInv, Types, Pcs, Starting
  <2>2. sup' = [job |-> Job(t), child |-> "working", cancelled |-> FALSE]
    BY <1>3 DEF NoJob
  <2>3. sup' \in [job : Runs \cup {NoRun}, child : Children, cancelled : BOOLEAN] /\ sup'.job = Job(t)
    BY <1>2, <2>2 DEF Children
  <2>4. Types'
    BY <1>2, <1>3, <2>1, <2>3, FramesStay, QueueStays DEF Submit, IInv, Types, DataOK, base, queue
  <2>5. CompletedIsStored' /\ ResultsStored' /\ RunningIsOwned' /\ KeepsEnded
    BY <1>3, <2>1
       DEF Submit, At, Job, IInv, CompletedIsStored, ResultsStored, RunningIsOwned, KeepsEnded, Moved, Threads, base, queue
  <2>6. Solo'
    BY <1>1, <1>3, <2>1, <2>3
       DEF Submit, At, Job, IInv, Solo, Alone, gui, Moved, Starting, Polling, Completing, Threads, base, queue
  <2> QED  BY <2>4, <2>5, <2>6 DEF Kept, IInv
<1>4. CASE Raises(t) /\ sup' = [NoJob EXCEPT !.job = Job(t)]
  <2>1. sup' \in [job : Runs, child : {"none"}, cancelled : {FALSE}]
    BY <1>2, <1>4 DEF NoJob
  <2>2. restore = "idle" => current = NoRun
    BY <1>1 DEF Submit, At, IInv, Solo, Alone, gui, Starting, Threads
  <2> QED  BY <1>1, <1>4, <2>1, <2>2, RaiseKeeps DEF Submit, At, Starting, base, queue
<1>5. CASE Raises(t) /\ sup' = sup
  BY <1>1, <1>5, RaiseKeeps DEF Submit, At, Starting, base, queue
<1> QED  BY <1>3, <1>4, <1>5 DEF Submit

LEMMA StartedKeeps ==
  ASSUME IInv, NEW t \in Threads, Started(t)
  PROVE  Kept
<1>1. t = "drain" => restore # "idle"
  BY DrainShows DEF Started, At
<1>2. Moved(t, "idle", NoRun, "none", TRUE) /\ Job(t) \in Runs
  BY ToIdle DEF Started, At, Job, IInv, Types, ThreadsOK
<1>3. Types'
  BY <1>2, FramesStay, QueueStays DEF Started, IInv, Types, DataOK, base
<1>4. CompletedIsStored' /\ ResultsStored' /\ KeepsEnded
  BY <1>2 DEF Started, IInv, CompletedIsStored, ResultsStored, KeepsEnded, Moved, base
<1>5. Solo'
  BY <1>1, <1>2 DEF Started, At, Job, IInv, Solo, Alone, gui, Moved, Starting, Polling, Completing, Threads, base
<1>6. RunningIsOwned'
  BY <1>1, <1>2, Ranges DEF Started, At, Job, IInv, Solo, Alone, gui, RunningIsOwned, Moved, Starting, Threads, base
<1> QED  BY <1>3, <1>4, <1>5, <1>6 DEF Kept, IInv

\* What poll finds in the pipe, or in the process.
LEMMA ReadKeeps ==
  ASSUME IInv, NEW t \in Threads, Read(t)
  PROVE  Kept
<1>1. t = "drain" => restore # "idle"
  BY DrainShows DEF Read, At
<1>2. Job(t) \in Runs /\ thread[t] \in Frames
  BY DEF Read, At, Job, IInv, Types, ThreadsOK
<1>3. CASE sup.job # Job(t) /\ Raises(t) /\ sup' = sup
  BY <1>1, <1>3, RaiseKeeps DEF Read, At, Starting, base, queue
<1>4. CASE sup.job = Job(t) /\ UNCHANGED <<gate, restore>> /\ sup' \in {sup, [sup EXCEPT !.child = "gone"]}
  <2>1. /\ sup' \in [job : Runs \cup {NoRun}, child : Children, cancelled : BOOLEAN]
        /\ sup'.job = sup.job
    BY <1>4 DEF IInv, Types, DataOK, Children
  <2>2. PICK pc, run, result, tick :
           /\ Moved(t, pc, run, result, tick)
           /\ \/ pc = "read" /\ run = Job(t) /\ tick = thread[t].tick
              \/ pc = "release" /\ run = Job(t) /\ tick = thread[t].tick
              \/ pc = "idle" /\ run = NoRun
    <3>1. Moved(t, "read", Job(t), thread[t].result, thread[t].tick) \/ thread' # thread
      BY DEF Read, At, Job, Moved, IInv, Types, ThreadsOK
    <3>2. ASSUME NEW result \in Results, Answers(t, result)
          PROVE  Moved(t, "release", Job(t), result, thread[t].tick)
      BY <3>2, Answered DEF Answers, Job, IInv, Types, Pcs, Polling
    <3>3. Returns(t) => Moved(t, "idle", NoRun, "none", TRUE)
      BY ToIdle DEF IInv, Types
    <3>4. thread' = thread \/ Answers(t, "success") \/ Answers(t, "failure") \/ Returns(t)
      BY <1>4 DEF Read
    <3> QED  BY <3>1, <3>2, <3>3, <3>4 DEF Results
  <2>3. Types'
    BY <1>2, <1>4, <2>1, <2>2, FramesStay, QueueStays DEF Read, IInv, Types, DataOK, base, queue
  <2>4. CompletedIsStored' /\ ResultsStored' /\ RunningIsOwned' /\ KeepsEnded
    BY <1>4, <2>2
       DEF Read, At, IInv, CompletedIsStored, ResultsStored, RunningIsOwned, KeepsEnded, Moved, Threads, base, queue
  <2>5. Solo'
    BY <1>1, <1>4, <2>1, <2>2
       DEF Read, At, Job, IInv, Solo, Alone, gui, Moved, Starting, Polling, Completing, Threads, base, queue
  <2> QED  BY <2>3, <2>4, <2>5 DEF Kept, IInv
<1> QED  BY <1>3, <1>4 DEF Read

LEMMA ReleaseKeeps ==
  ASSUME IInv, NEW t \in Threads, Release(t)
  PROVE  Kept
<1>1. t = "drain" => restore # "idle"
  BY DrainShows DEF Release, At
<1>2. Moved(t, "complete", Job(t), thread[t].result, thread[t].tick) /\ Job(t) \in Runs
  BY Goto DEF Release, At, Job, IInv, Types, ThreadsOK, Pcs, Completing
<1>3. sup' = [job |-> NoRun, child |-> "none", cancelled |-> FALSE]
  BY DEF Release, NoJob
<1>4. Types'
  BY <1>2, <1>3, FramesStay, QueueStays DEF Release, IInv, Types, DataOK, Children, base, queue
<1>5. CompletedIsStored' /\ ResultsStored' /\ RunningIsOwned' /\ KeepsEnded
  BY <1>2 DEF Release, At, IInv, CompletedIsStored, ResultsStored, RunningIsOwned, KeepsEnded, Moved, Threads, base, queue
<1>6. Solo'
  BY <1>1, <1>2, <1>3
     DEF Release, At, Job, IInv, Solo, Alone, gui, Moved, Starting, Polling, Completing, Threads, base, queue
<1> QED  BY <1>4, <1>5, <1>6 DEF Kept, IInv

\* A cancellation takes the job the supervisor holds by then.
LEMMA TerminateKeeps ==
  ASSUME IInv, NEW t \in Threads, Terminate(t)
  PROVE  Kept
<1>1. t = "drain" => restore # "idle"
  BY DrainShows DEF Terminate, At
<1>2. CASE sup.job = NoRun
  BY <1>1, <1>2, RaiseKeeps DEF Terminate, At, Starting, base, queue
<1>3. CASE sup.job # NoRun
  <2>1. /\ sup.job \in Runs
        /\ thread' = [thread EXCEPT ![t].pc = "complete", ![t].run = sup.job, ![t].result = "cancelled"]
    BY <1>3 DEF Terminate, IInv, Types, DataOK
  <2>2. Moved(t, "complete", sup.job, "cancelled", thread[t].tick)
    BY <2>1 DEF Moved, IInv, Types, ThreadsOK, Frames, Pcs, Completing, Results
  <2>3. sup' = [job |-> NoRun, child |-> "none", cancelled |-> FALSE]
    BY <1>3 DEF Terminate, NoJob
  <2>4. Types'
    BY <1>3, <2>1, <2>2, <2>3, FramesStay, QueueStays DEF Terminate, IInv, Types, DataOK, Children, base, queue
  <2>5. CompletedIsStored' /\ ResultsStored' /\ RunningIsOwned' /\ KeepsEnded
    BY <1>3, <2>2
       DEF Terminate, At, IInv, CompletedIsStored, ResultsStored, RunningIsOwned, KeepsEnded, Moved, Threads, base, queue
  <2>6. Solo'
    BY <1>1, <1>3, <2>2, <2>3
       DEF Terminate, At, IInv, Solo, Alone, gui, Moved, Starting, Polling, Completing, Threads, base, queue
  <2> QED  BY <2>4, <2>5, <2>6 DEF Kept, IInv
<1> QED  BY <1>2, <1>3

LEMMA CompleteKeeps ==
  ASSUME IInv, NEW t \in Threads, Complete(t)
  PROVE  Kept
<1>1. t = "drain" => restore # "idle"
  BY DrainShows DEF Complete, At
<1>2. Job(t) \in Runs /\ thread[t].result \in Results
  BY DEF Complete, At, Job, IInv, Types, ThreadsOK, Frames
<1>3. CASE current # Job(t)
  <2>1. Moved(t, "idle", NoRun, "none", TRUE)
    BY <1>3, ToIdle DEF Complete, Returns, IInv, Types
  <2>2. Types'
    BY <2>1, FramesStay, QueueStays DEF Complete, IInv, Types, DataOK, base, queue
  <2>3. CompletedIsStored' /\ ResultsStored' /\ RunningIsOwned' /\ KeepsEnded
    BY <2>1 DEF Complete, At, IInv, CompletedIsStored, ResultsStored, RunningIsOwned, KeepsEnded, Moved, Threads, base, queue
  <2>4. Solo'
    BY <1>1, <1>3, <2>1
       DEF Complete, At, Job, IInv, Solo, Alone, gui, Moved, Starting, Polling, Completing, Threads, base, queue
  <2> QED  BY <2>2, <2>3, <2>4 DEF Kept, IInv
<1>4. CASE current = Job(t)
  <2> DEFINE outcome == IF Job(t) \in changed THEN "changed" ELSE thread[t].result
             pc == IF outcome = "success" THEN "store" ELSE "finish"
  <2>1. Moved(t, pc, Job(t), outcome, thread[t].tick)
    <3>1. thread' = [thread EXCEPT ![t].pc = pc, ![t].result = outcome]
      BY <1>4 DEF Complete
    <3>2. pc \in Pcs /\ outcome \in Results
      BY <1>2 DEF Pcs, Completing, Results
    <3> HIDE DEF pc, outcome
    <3> QED  BY <3>1, <3>2, Answered DEF Job, IInv, Types
  <2>2. (pc = "store" /\ outcome = "success") \/ (pc = "finish" /\ outcome # "success")
    OBVIOUS
  <2> HIDE DEF pc, outcome
  <2>3. Types'
    BY <1>2, <2>1, FramesStay, QueueStays DEF Complete, IInv, Types, DataOK, base, queue
  <2>4. CompletedIsStored' /\ ResultsStored' /\ RunningIsOwned' /\ KeepsEnded
    BY <2>1, <2>2
       DEF Complete, At, IInv, CompletedIsStored, ResultsStored, RunningIsOwned, KeepsEnded, Moved, Threads, base, queue
  <2>5. Solo'
    BY <1>1, <1>2, <1>4, <2>1, <2>2, Ranges
       DEF Complete, At, Job, IInv, Solo, Alone, gui, Moved, Starting, Polling, Completing, Threads, base, queue
  <2> QED  BY <2>3, <2>4, <2>5 DEF Kept, IInv
<1> QED  BY <1>3, <1>4

\* The result is stored with its status, or refused.
LEMMA StoreKeeps ==
  ASSUME IInv, NEW t \in Threads, Store(t)
  PROVE  Kept
<1>1. t = "drain" => restore # "idle"
  BY DrainShows DEF Store, At
<1>2. Job(t) \in Runs /\ row \in [Runs -> Statuses] /\ stored \subseteq Runs
  BY DEF Store, At, Job, IInv, Types, DataOK, ThreadsOK
<1>3. CASE row[Job(t)] = "RUNNING"
  <2>1. Moved(t, "finish", Job(t), thread[t].result, thread[t].tick)
    BY <1>3, Goto DEF Store, Job, IInv, Types, Pcs, Completing
  <2>2. /\ row' \in [Runs -> Statuses] /\ row'[Job(t)] = "COMPLETED" /\ stored' = stored \cup {Job(t)}
        /\ \A r \in Runs : r # Job(t) => row'[r] = row[r]
    BY <1>2, <1>3 DEF Store, Statuses
  <2>3. Types'
    BY <1>2, <2>1, <2>2, FramesStay, QueueStays DEF Store, IInv, Types, DataOK, queue
  <2>4. CompletedIsStored' /\ ResultsStored' /\ RunningIsOwned'
    BY <2>1, <2>2 DEF Store, At, Job, IInv, CompletedIsStored, ResultsStored, RunningIsOwned, Moved, Threads, queue
  <2>5. Solo' /\ KeepsEnded
    BY <1>1, <1>3, <2>1, <2>2
       DEF Store, At, Job, IInv, ResultsStored, Solo, Alone, gui, KeepsEnded, Moved, Starting, Polling, Completing, Threads, Ended, queue
  <2> QED  BY <2>3, <2>4, <2>5 DEF Kept, IInv
<1>4. CASE row[Job(t)] # "RUNNING"
  <2>1. Moved(t, "finish", Job(t), "rejected", thread[t].tick)
    BY <1>4, Answered DEF Store, Job, IInv, Types, Pcs, Completing, Results
  <2>2. Types'
    BY <1>2, <1>4, <2>1, FramesStay, QueueStays DEF Store, IInv, Types, DataOK, base, queue
  <2>3. CompletedIsStored' /\ ResultsStored' /\ RunningIsOwned' /\ KeepsEnded
    BY <1>4, <2>1
       DEF Store, At, IInv, CompletedIsStored, ResultsStored, RunningIsOwned, KeepsEnded, Moved, Threads, base, queue
  <2>4. Solo'
    BY <1>1, <1>2, <1>4, <2>1, Ranges
       DEF Store, At, Job, IInv, Solo, Alone, gui, Moved, Starting, Polling, Completing, Threads, base, queue
  <2> QED  BY <2>2, <2>3, <2>4 DEF Kept, IInv
<1> QED  BY <1>3, <1>4

\* The end of a run is written without a look at its status, or the write fails.
LEMMA FinishKeeps ==
  ASSUME IInv, NEW t \in Threads, Finish(t)
  PROVE  Kept
<1>1. t = "drain" => restore # "idle"
  BY DrainShows DEF Finish, At
<1>2. Job(t) \in Runs /\ row \in [Runs -> Statuses]
  BY DEF Finish, At, Job, IInv, Types, DataOK, ThreadsOK
<1>3. CASE row' = [row EXCEPT ![Job(t)] = EndOf(thread[t].result)] /\ Goes(t, "clear") /\ UNCHANGED <<gate, restore>>
  <2>1. Moved(t, "clear", Job(t), thread[t].result, thread[t].tick)
    BY <1>3, Goto DEF Job, IInv, Types, Pcs, Completing
  <2>2. EndOf(thread[t].result) \in Ended /\ (EndOf(thread[t].result) = "COMPLETED" <=> thread[t].result = "success")
    BY DEF EndOf, Ended
  <2>3. /\ row' \in [Runs -> Statuses] /\ row'[Job(t)] \in Ended
        /\ row'[Job(t)] = "COMPLETED" <=> thread[t].result = "success"
        /\ \A r \in Runs : r # Job(t) => row'[r] = row[r]
    BY <1>2, <1>3, <2>2 DEF Statuses, Ended
  <2>4. Types'
    BY <1>2, <1>3, <2>1, <2>3, FramesStay, QueueStays DEF Finish, IInv, Types, DataOK, Ended, queue
  <2>5. CompletedIsStored' /\ ResultsStored' /\ RunningIsOwned'
    BY <1>3, <2>1, <2>3
       DEF Finish, At, Job, IInv, CompletedIsStored, ResultsStored, RunningIsOwned, Moved, Threads, Ended, queue
  <2>6. Solo'
    BY <1>1, <1>3, <2>1, <2>3
       DEF Finish, At, Job, IInv, Solo, Alone, gui, Moved, Starting, Polling, Completing, Threads, Ended, queue
  <2>7. KeepsEnded
    BY <1>1, <2>3 DEF Finish, At, Job, IInv, Solo, Alone, gui, KeepsEnded, Completing, Threads, Ended
  <2> QED  BY <2>4, <2>5, <2>6, <2>7 DEF Kept, IInv
<1>4. CASE Raises(t) /\ row' = row
  BY <1>1, <1>4, RaiseKeeps DEF Finish, At, queue
<1> QED  BY <1>3, <1>4 DEF Finish

LEMMA ClearKeeps ==
  ASSUME IInv, NEW t \in Threads, Clear(t)
  PROVE  Kept
<1>1. t = "drain" => restore # "idle"
  BY DrainShows DEF Clear, At
<1>2. Moved(t, "idle", NoRun, "none", TRUE)
  BY ToIdle DEF Clear, IInv, Types
<1>3. Types'
  BY <1>2, FramesStay, QueueStays DEF Clear, IInv, Types, DataOK, base
<1>4. CompletedIsStored' /\ ResultsStored' /\ KeepsEnded
  BY <1>2 DEF Clear, IInv, CompletedIsStored, ResultsStored, KeepsEnded, Moved, base
<1>5. Solo'
  BY <1>1, <1>2 DEF Clear, IInv, Solo, Alone, gui, Moved, Starting, Polling, Completing, Threads, base
<1>6. RunningIsOwned'
  BY <1>1, <1>2 DEF Clear, At, IInv, Solo, Alone, gui, RunningIsOwned, Moved, Completing, Threads, Ended, base
<1> QED  BY <1>3, <1>4, <1>5, <1>6 DEF Kept, IInv

\* Every step of a tick, whoever ticks.
LEMMA TickKeeps ==
  ASSUME IInv, NEW t \in Threads, Tick(t)
  PROVE  Kept
BY TickPollsKeeps, TickStartsKeeps, TakeKeeps, RejectKeeps, MarkRunningKeeps, SubmitKeeps, StartedKeeps, ReadKeeps,
   ReleaseKeeps, TerminateKeeps, CompleteKeeps, StoreKeeps, FinishKeeps, ClearKeeps DEF Tick
----------------------------------------------------------------------------
(* Everything else: the child, analyze_track, the operator, a drain.       *)

\* The child's answer or end is only the supervisor's.
LEMMA ChildKeeps ==
  ASSUME IInv, ChildSends \/ ChildFails \/ ChildDies \/ ChildHangs
  PROVE  Kept
<1>1. PICK to \in Children : ChildGoes(to)
  BY DEF ChildSends, ChildFails, ChildDies, ChildHangs, Children
<1>2. sup' \in [job : Runs \cup {NoRun}, child : Children, cancelled : BOOLEAN] /\ sup'.job = sup.job
  BY <1>1 DEF ChildGoes, IInv, Types, DataOK
<1>3. Types'
  BY <1>1, <1>2, QueueStays DEF ChildGoes, IInv, Types, DataOK, ThreadsOK, base, queue
<1>4. CompletedIsStored' /\ ResultsStored' /\ RunningIsOwned' /\ KeepsEnded
  BY <1>1 DEF ChildGoes, IInv, CompletedIsStored, ResultsStored, RunningIsOwned, KeepsEnded, base, queue
<1>5. Solo'
  BY <1>1, <1>2 DEF ChildGoes, IInv, Solo, Alone, gui, base, queue
<1> QED  BY <1>3, <1>4, <1>5 DEF Kept, IInv

\* Commands and calls that leave rows, queue, job and threads alone.
LEMMA AsideKeeps ==
  ASSUME IInv, Analyze \/ Pause \/ Resume \/ Block \/ Drain \/ ResumeWork \/ FileChanges
  PROVE  Kept
<1>1. UNCHANGED <<row, stored, pending, current, sup, thread>>
  BY DEF Analyze, Pause, Resume, Block, Drain, ResumeWork, FileChanges, base, queue
<1>2. /\ gate' \in [accepting : BOOLEAN, closed : BOOLEAN, polling : BOOLEAN] /\ gate'.polling = gate.polling
      /\ restore' \in {"idle", "drain", "exchange", "resume", "over"} /\ (restore' = "idle" => restore = "idle")
  BY DEF Analyze, Pause, Resume, Block, Drain, ResumeWork, FileChanges, IInv, Types, DataOK
<1>3. changed' \subseteq Runs /\ coord' \in {"IDLE", "RUNNING", "PAUSED", "CLOSED"}
  BY DEF Analyze, Pause, Resume, Block, Drain, ResumeWork, FileChanges, IInv, Types, DataOK, base, queue
<1>4. starter' \in [pc : {"idle", "create", "enqueue"}, run : Runs \cup {NoRun}] /\ (starter'.pc = "enqueue" => starter' = starter)
  BY DEF Analyze, Pause, Resume, Block, Drain, ResumeWork, FileChanges, IInv, Types, QueueOK
<1>5. Types'
  BY <1>1, <1>2, <1>3, <1>4 DEF IInv, Types, DataOK, QueueOK, ThreadsOK
<1>6. CompletedIsStored' /\ ResultsStored' /\ RunningIsOwned' /\ KeepsEnded
  BY <1>1, <1>2 DEF IInv, CompletedIsStored, ResultsStored, RunningIsOwned, KeepsEnded
<1>7. Solo'
  BY <1>1, <1>2 DEF IInv, Solo, Alone, gui
<1> QED  BY <1>5, <1>6, <1>7 DEF Kept, IInv

\* A new run gets the next free row.
LEMMA CreateJobKeeps ==
  ASSUME IInv, CreateJob
  PROVE  Kept
<1> DEFINE r == CHOOSE x \in Runs : row[x] = "none" /\ \A y \in Runs : y < x => row[y] # "none"
<1>1. UNCHANGED <<stored, changed, pending, current, coord, sup, thread, gate, restore>> /\ row \in [Runs -> Statuses]
  BY DEF CreateJob, queue, IInv, Types, DataOK
<1>2. /\ row' \in [Runs -> Statuses]
      /\ \A x \in Runs : row'[x] = row[x] \/ (row[x] = "none" /\ row'[x] \in {"PENDING", "FAILED"})
      /\ starter' \in [pc : {"idle", "create", "enqueue"}, run : Runs \cup {NoRun}]
      /\ starter'.pc = "enqueue" => starter'.run \in Runs /\ row'[starter'.run] # "none"
  <2>1. CASE \A x \in Runs : row[x] # "none"
    BY <1>1, <2>1 DEF CreateJob
  <2>2. CASE \E x \in Runs : row[x] = "none"
    <3>1. r \in Runs /\ row[r] = "none"
      <4> DEFINE S == {x \in Runs : row[x] = "none"}
      <4>1. S \in SUBSET Nat /\ S # {}
        BY <2>2, Ranges
      <4>2. PICK x \in S : \A y \in S : x <= y
        BY <4>1, Least
      <4>3. x \in Runs /\ row[x] = "none" /\ \A y \in Runs : y < x => row[y] # "none"
        BY <4>2, Ranges
      <4> QED  BY <4>3
    <3> HIDE DEF r
    <3>2. \/ row' = [row EXCEPT ![r] = "PENDING"] /\ starter' = [pc |-> "enqueue", run |-> r]
          \/ row' = [row EXCEPT ![r] = "FAILED"] /\ starter' = [pc |-> "idle", run |-> NoRun]
      BY <2>2 DEF CreateJob, r
    <3> QED  BY <1>1, <3>1, <3>2 DEF Statuses
  <2> QED  BY <2>1, <2>2
<1> HIDE DEF r
<1>3. Types'
  BY <1>1, <1>2 DEF IInv, Types, DataOK, QueueOK, ThreadsOK
<1>4. CompletedIsStored' /\ ResultsStored' /\ RunningIsOwned' /\ KeepsEnded
  BY <1>1, <1>2 DEF IInv, CompletedIsStored, ResultsStored, RunningIsOwned, KeepsEnded, Ended
<1>5. Solo'
  <2>1. gui.pc \in {"submit", "started", "clear", "finish"} => gui.run \in Runs
    BY DEF gui, Threads, IInv, Types, ThreadsOK
  <2>2. current \in Runs \cup {NoRun}
    BY DEF IInv, Types, DataOK
  <2> QED  BY <1>1, <1>2, <2>1, <2>2 DEF IInv, Solo, Alone, gui, Ended
<1> QED  BY <1>3, <1>4, <1>5 DEF Kept, IInv

LEMMA EnqueueKeeps ==
  ASSUME IInv, Enqueue
  PROVE  Kept
<1>1. UNCHANGED <<row, stored, changed, current, coord, sup, thread, gate, restore>>
  BY DEF Enqueue, base
<1>2. QueueOK'
  <2>1. starter.run \in Runs /\ row[starter.run] # "none"
    BY DEF Enqueue, IInv, Types, QueueOK
  <2>2. starter' = [pc |-> "idle", run |-> NoRun]
    BY DEF Enqueue
  <2>3. CASE pending' = pending
    BY <1>1, <2>2, <2>3 DEF IInv, Types, QueueOK
  <2>4. CASE pending' = Append(pending, starter.run)
    <3>1. pending \in Seq(Runs) /\ Len(pending) < MaxPending
      BY DEF Enqueue, IInv, Types, QueueOK
    <3>2. /\ pending' \in Seq(Runs) /\ Len(pending') = Len(pending) + 1
          /\ \A i \in 1..Len(pending') : pending'[i] = IF i = Len(pending) + 1 THEN starter.run ELSE pending[i]
      BY <2>1, <2>4, <3>1
    <3>3. \A i \in 1..Len(pending') : i = Len(pending) + 1 \/ i \in 1..Len(pending)
      BY <3>1, <3>2
    <3> QED  BY <1>1, <2>1, <2>2, <3>1, <3>2, <3>3, Ranges DEF IInv, Types, QueueOK
  <2> QED  BY <2>3, <2>4 DEF Enqueue
<1>3. Types'
  BY <1>1, <1>2 DEF IInv, Types, DataOK, ThreadsOK
<1>4. CompletedIsStored' /\ ResultsStored' /\ RunningIsOwned' /\ KeepsEnded
  BY <1>1 DEF IInv, CompletedIsStored, ResultsStored, RunningIsOwned, KeepsEnded
<1>5. Solo'
  BY <1>1 DEF IInv, Solo, Alone, gui
<1> QED  BY <1>3, <1>4, <1>5 DEF Kept, IInv

LEMMA ResumePendingKeeps ==
  ASSUME IInv, ResumePending
  PROVE  Kept
<1>1. UNCHANGED <<row, stored, changed, current, coord, sup, thread, gate, restore, starter>>
  BY DEF ResumePending, base
<1>2. QueueOK'
  <2> DEFINE S == Stored("PENDING")
  <2>1. S \subseteq Runs /\ Cardinality(S) \in Nat
    <3>1. IsFiniteSet(Runs)
      BY AnalysisAssumption, FS_Interval DEF Runs
    <3> QED  BY <3>1, FS_Subset, FS_CardinalityType DEF Stored
  <2>2. PICK all \in [1..Cardinality(S) -> S] : pending' = pending \o all
    BY DEF ResumePending
  <2>3. all \in Seq(S) /\ Len(all) = Cardinality(S)
    BY <2>1, <2>2
  <2>4. all \in Seq(Runs) /\ \A i \in 1..Len(all) : all[i] \in S
    BY <2>1, <2>2, <2>3
  <2>5. \A i \in 1..Len(all) : row[all[i]] # "none"
    BY <2>4 DEF Stored
  <2>6. Len(pending) + Len(all) <= MaxPending
    BY <2>3 DEF ResumePending
  <2> QED  BY <1>1, <2>2, <2>4, <2>5, <2>6, QueueGrows DEF IInv, Types
<1>3. Types'
  BY <1>1, <1>2 DEF IInv, Types, DataOK, ThreadsOK
<1>4. CompletedIsStored' /\ ResultsStored' /\ RunningIsOwned' /\ KeepsEnded
  BY <1>1 DEF IInv, CompletedIsStored, ResultsStored, RunningIsOwned, KeepsEnded
<1>5. Solo'
  BY <1>1 DEF IInv, Solo, Alone, gui
<1> QED  BY <1>3, <1>4, <1>5 DEF Kept, IInv

LEMMA DiscardPendingKeeps ==
  ASSUME IInv, DiscardPending
  PROVE  Kept
<1>1. UNCHANGED <<stored, changed, pending, current, coord, sup, thread, gate, restore, starter>>
  BY DEF DiscardPending, queue
<1>2. /\ row' \in [Runs -> Statuses]
      /\ \A r \in Runs : row'[r] = row[r] \/ (row[r] = "PENDING" /\ row'[r] = "CANCELLED")
  BY DEF DiscardPending, IInv, Types, DataOK, Statuses
<1>3. Types'
  BY <1>1, <1>2, QueueStays DEF IInv, Types, DataOK, ThreadsOK
<1>4. CompletedIsStored' /\ ResultsStored' /\ RunningIsOwned' /\ KeepsEnded
  BY <1>1, <1>2 DEF IInv, CompletedIsStored, ResultsStored, RunningIsOwned, KeepsEnded, Ended
<1>5. Solo'
  BY <1>1 DEF DiscardPending, Free, At, IInv, Solo, Alone, gui, Starting, Polling, Completing
<1> QED  BY <1>3, <1>4, <1>5 DEF Kept, IInv

\* Nothing but the GUI's frame and the supervisor's flag.
LEMMA CurrentCancelled ==
  ASSUME IInv, CancelsCurrent
  PROVE  /\ \/ Moved("gui", "terminate", NoRun, "none", FALSE) /\ current # NoRun /\ sup.job # NoRun
            \/ thread' = thread
         /\ sup' \in [job : Runs \cup {NoRun}, child : Children, cancelled : BOOLEAN] /\ sup'.job = sup.job
         /\ ThreadsOK'
<1>1. CASE current # NoRun /\ sup.job # NoRun
  <2>1. thread' = [thread EXCEPT !["gui"] = [pc |-> "terminate", run |-> NoRun, result |-> "none", tick |-> FALSE]]
    BY <1>1 DEF CancelsCurrent, Idle
  <2>2. Moved("gui", "terminate", NoRun, "none", FALSE)
    BY <2>1, Framed DEF Threads, Pcs, Results, IInv, Types
  <2> QED  BY <1>1, <2>2, FramesStay DEF CancelsCurrent, IInv, Types, DataOK, Threads
<1>2. CASE ~(current # NoRun /\ sup.job # NoRun)
  BY <1>2 DEF CancelsCurrent, IInv, Types, DataOK, ThreadsOK
<1> QED  BY <1>1, <1>2

\* The operator cancels, with the rows of everything queued if all are meant.
LEMMA CancelKeeps ==
  ASSUME IInv, CancelCurrent \/ CancelAll
  PROVE  Kept
<1>1. /\ UNCHANGED <<stored, changed, current, coord, gate, restore, starter>>
      /\ CancelsCurrent /\ gui.pc = "idle" /\ pending' \in {pending, << >>}
  BY DEF CancelCurrent, CancelAll, Free, At, gui, base, queue
<1>2. /\ row' \in [Runs -> Statuses]
      /\ \A r \in Runs : row'[r] = row[r] \/ (row'[r] = "CANCELLED" /\ Queued(r) /\ row[r] # "none")
  <2>1. CASE CancelCurrent
    BY <2>1 DEF CancelCurrent, base, IInv, Types, DataOK
  <2>2. CASE CancelAll
    <3>1. \A r \in Runs : row'[r] = IF Queued(r) THEN "CANCELLED" ELSE row[r]
      BY <2>2 DEF CancelAll, Queued
    <3>2. \A r \in Runs : Queued(r) => row[r] # "none"
      BY DEF Queued, IInv, Types, QueueOK
    <3> QED  BY <2>2, <3>1, <3>2 DEF CancelAll, IInv, Types, DataOK, Statuses
  <2> QED  BY <2>1, <2>2
<1>3. Types'
  BY <1>1, <1>2, CurrentCancelled, QueueStays DEF IInv, Types, DataOK
<1>4. CompletedIsStored' /\ ResultsStored' /\ RunningIsOwned' /\ KeepsEnded
  BY <1>1, <1>2, CurrentCancelled
     DEF IInv, CompletedIsStored, ResultsStored, RunningIsOwned, KeepsEnded, Ended, gui, Moved, Threads
<1>5. Solo'
  <2>1. current \in Runs \cup {NoRun}
    BY DEF IInv, Types, DataOK
  <2> QED  BY <1>1, <1>2, <2>1, CurrentCancelled
              DEF IInv, Solo, Alone, gui, Moved, Starting, Polling, Completing, Threads, Ended
<1> QED  BY <1>3, <1>4, <1>5 DEF Kept, IInv

LEMMA CloseKeeps ==
  ASSUME IInv, Close
  PROVE  Kept
<1>1. /\ UNCHANGED <<stored, changed, pending, thread, starter, restore>> /\ gui.pc = "idle"
      /\ sup' = [job |-> NoRun, child |-> "none", cancelled |-> FALSE] /\ coord' = "CLOSED"
      /\ gate' = [accepting |-> FALSE, closed |-> TRUE, polling |-> FALSE]
  BY DEF Close, NoJob, Free, At, gui
<1>2. row \in [Runs -> Statuses] /\ current \in Runs \cup {NoRun}
  BY DEF IInv, Types, DataOK
<1>3. /\ row' \in [Runs -> Statuses] /\ current' \in {NoRun, current}
      /\ \A r \in Runs : row'[r] = row[r] \/ (r = current /\ sup.job = current /\ row'[r] \in {"FAILED", "CANCELLED"})
  <2>1. CASE current # NoRun /\ sup.job = current
    BY <1>2, <2>1 DEF Close, Statuses
  <2>2. CASE ~(current # NoRun /\ sup.job = current)
    BY <1>2, <2>2 DEF Close
  <2> QED  BY <2>1, <2>2
<1>4. Types'
  <2>1. DataOK'
    BY <1>1, <1>2, <1>3 DEF IInv, Types, DataOK, Children
  <2>2. ThreadsOK'
    BY <1>1 DEF IInv, Types, ThreadsOK
  <2>3. QueueOK'
    <3>1. ASSUME NEW r \in Runs, row[r] # "none" PROVE row'[r] # "none"
      BY <1>3, <3>1
    <3> QED  BY <1>1, <3>1, QueueStays DEF IInv, Types
  <2> QED  BY <2>1, <2>2, <2>3 DEF Types
<1>5. CompletedIsStored' /\ ResultsStored' /\ RunningIsOwned'
  BY <1>1, <1>3 DEF IInv, CompletedIsStored, ResultsStored, RunningIsOwned
<1>6. Solo'
  BY <1>1 DEF IInv, Solo, Alone, gui, Starting, Polling, Completing
<1>7. KeepsEnded
  BY <1>1, <1>2, <1>3, Ranges DEF IInv, Solo, Alone, gui, KeepsEnded, Ended
<1> QED  BY <1>4, <1>5, <1>6, <1>7 DEF Kept, IInv

\* The next session fails what was interrupted and starts from nothing.
LEMMA RestartKeeps ==
  ASSUME IInv, Restart
  PROVE  Kept
<1>1. /\ UNCHANGED <<stored, changed>> /\ pending' = << >> /\ current' = NoRun /\ coord' = "IDLE"
      /\ sup' = [job |-> NoRun, child |-> "none", cancelled |-> FALSE]
      /\ thread' = [t \in Threads |-> Idle] /\ starter' = [pc |-> "idle", run |-> NoRun]
      /\ gate' = [accepting |-> TRUE, closed |-> FALSE, polling |-> TRUE]
      /\ restore' \in {"idle", "over"}
  BY DEF Restart, NoJob
<1>2. /\ row' \in [Runs -> Statuses]
      /\ \A r \in Runs : row'[r] = IF row[r] = "RUNNING" THEN "FAILED" ELSE row[r]
  BY DEF Restart, Recovered, IInv, Types, DataOK, Statuses
<1>3. Idle \in Frames /\ Idle.pc = "idle"
  BY DEF Idle, Frames, Pcs, Results
<1>4. Types'
  <2>1. DataOK'
    BY <1>1, <1>2 DEF IInv, Types, DataOK, Children
  <2>2. QueueOK'
    <3>1. << >> \in Seq(Runs) /\ Len(<< >>) = 0
      OBVIOUS
    <3> QED  BY <1>1, <3>1, Ranges DEF QueueOK
  <2>3. ThreadsOK'
    BY <1>1, <1>3 DEF ThreadsOK
  <2> QED  BY <2>1, <2>2, <2>3 DEF Types
<1>5. CompletedIsStored' /\ ResultsStored' /\ RunningIsOwned' /\ KeepsEnded
  BY <1>1, <1>2, <1>3 DEF IInv, CompletedIsStored, ResultsStored, RunningIsOwned, KeepsEnded, Ended
<1>6. Solo'
  BY <1>1, <1>3 DEF Solo, Alone, gui, Threads, Starting, Polling, Completing
<1> QED  BY <1>4, <1>5, <1>6 DEF Kept, IInv
----------------------------------------------------------------------------
(* The theorems.                                                           *)

LEMMA InitHolds == Init => IInv
<1> SUFFICES ASSUME Init PROVE IInv
  OBVIOUS
<1>1. Idle \in Frames /\ Idle.pc = "idle" /\ thread = [t \in Threads |-> Idle]
  BY DEF Init, Idle, Frames, Pcs, Results
<1>2. DataOK
  BY DEF Init, DataOK, NoJob, Children, Statuses
<1>3. QueueOK
  <2>1. << >> \in Seq(Runs) /\ Len(<< >>) = 0
    OBVIOUS
  <2> QED  BY <2>1, Ranges DEF Init, QueueOK
<1>4. ThreadsOK
  BY <1>1 DEF ThreadsOK
<1>5. CompletedIsStored /\ ResultsStored /\ RunningIsOwned
  BY <1>1 DEF Init, CompletedIsStored, ResultsStored, RunningIsOwned
<1>6. Solo
  BY <1>1 DEF Init, Solo, Alone, gui, Threads, Starting, Polling, Completing, NoJob
<1> QED  BY <1>2, <1>3, <1>4, <1>5, <1>6 DEF IInv, Types

\* One lemma for each step of the specification.
LEMMA StepKept == IInv /\ [Next]_vars => Kept
<1> SUFFICES ASSUME IInv, [Next]_vars PROVE Kept
  OBVIOUS
<1>1. CASE Next
  BY <1>1, TickKeeps, ChildKeeps, AsideKeeps, CreateJobKeeps, EnqueueKeeps, ResumePendingKeeps, DiscardPendingKeeps,
     CancelKeeps, CloseKeeps, RestartKeeps DEF Next
<1>2. CASE UNCHANGED vars
  <2>1. Types' /\ CompletedIsStored' /\ ResultsStored' /\ RunningIsOwned' /\ KeepsEnded
    BY <1>2 DEF vars, IInv, Types, DataOK, QueueOK, ThreadsOK, CompletedIsStored, ResultsStored, RunningIsOwned, KeepsEnded
  <2>2. Solo'
    BY <1>2 DEF vars, IInv, Solo, Alone, gui
  <2> QED  BY <2>1, <2>2 DEF Kept, IInv
<1> QED  BY <1>1, <1>2

\* The types, what is about to be written, and that a tick without a rival works on the
\* job of the coordinator and its row.
THEOREM AnalysisInvariant == Spec => []IInv
<1>1. IInv /\ [Next]_vars => IInv'
  BY StepKept DEF Kept
<1> QED  BY InitHolds, <1>1, PTL DEF Spec

\* Rows, queue, job and states keep their ranges, and what is queued has a row.
THEOREM AnalysisTypes == Spec => []TypeOK
<1>1. IInv => TypeOK
  BY TypesImplyTypeOK DEF IInv
<1> QED  BY <1>1, AnalysisInvariant, PTL

\* A run is COMPLETED only with its results, whoever else finished, cancelled or interrupted
\* it (persist_valid_result and every other writer of a status).
THEOREM CompletedHasResults == Spec => []CompletedIsStored
<1>1. IInv => CompletedIsStored
  BY DEF IInv
<1> QED  BY <1>1, AnalysisInvariant, PTL

\* No run is left RUNNING by a lost job while the GUI polls and no drain ticks beside it.
THEOREM RunningHasJob == Spec => []RunningIsOwned
<1>1. IInv => RunningIsOwned
  BY DEF IInv
<1> QED  BY <1>1, AnalysisInvariant, PTL

\* A run that has ended never runs again, and a COMPLETED one loses its status only to a
\* second copy of it in the queue or to a drain that ticks beside the GUI.
THEOREM EndedRunsStayEnded == Spec => EndedStaysEnded
<1>1. IInv /\ [Next]_vars => KeepsEnded
  BY StepKept DEF Kept
<1>2. IInv /\ [Next]_vars => [KeepsEnded]_vars
  BY <1>1
<1>3. [][KeepsEnded]_vars => EndedStaysEnded
  <2>1. [KeepsEnded]_vars
        => [\A r \in Runs : row[r] \in Ended =>
             /\ row'[r] \in Ended
             /\ row[r] = "COMPLETED" /\ row'[r] # "COMPLETED" =>
                  restore # "idle" \/ Queued(r) \/ thread["gui"].pc = "reject"]_vars
    BY DEF KeepsEnded
  <2> QED  BY <2>1, PTL DEF EndedStaysEnded
<1> QED  BY AnalysisInvariant, <1>2, <1>3, PTL DEF Spec
====
