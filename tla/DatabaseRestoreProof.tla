------------------------ MODULE DatabaseRestoreProof ------------------------
(***************************************************************************)
(* Proofs about DatabaseRestore, for any number of participants, archives  *)
(* and rollback files: whatever fails, and wherever the process ends,      *)
(* files are exchanged only while the whole persistence stands still, and  *)
(* the database it starts from is kept until another one is in place.     *)
(***************************************************************************)
EXTENDS DatabaseRestore, TLAPS

\* What each step of an operation knows of the participants: those that were stopped
\* so far, or those that go on again.
AllOpen == \A p \in Owners : open[p]
AllClosed == \A p \in Owners : ~open[p]
AllQuiet == \A p \in Owners : ~open[p] /\ ~job[p]

Stopping ==
  /\ life = "quiescing" <=> op.pc \in {"block", "drain", "close", "abort"}
  /\ op.pc = "block" => /\ op.i \in Owners
                        /\ \A p \in Owners : p < op.i <=> ~open[p]
  /\ op.pc = "drain" => op.i \in Owners /\ AllClosed /\ \A p \in Owners : p < op.i => ~job[p]
  /\ op.pc = "close" => op.i \in Owners /\ AllQuiet

Resuming == op.pc \in {"abort", "resume"} => \A p \in Owners : p > op.i => open[p]

Stopped ==
  /\ op.pc \in Exchange \cup {"resume"} => life = "quiesced"
  /\ life = "quiesced" /\ op.pc # "resume" => AllQuiet
  /\ life = "active" => AllOpen

RestoreInv == TypeOK /\ Stopping /\ Resuming /\ Stopped
----------------------------------------------------------------------------
(* Types. *)

LEMMA ConstantFacts ==
  /\ Participants \in Nat \ {0} /\ Participants \in Owners /\ 1 \in Owners
  /\ Owners \subseteq 0..Participants /\ 0 \in 0..Participants
  /\ Original \in Databases /\ Fresh \in Databases /\ Candidates \subseteq Databases
  /\ Databases \subseteq Files /\ None \in Files /\ None \notin Databases
BY RestoreAssumption DEF Owners, Databases, Files, None, Fresh

\* A step that only moves the operation on.
LEMMA GotoTyped ==
  ASSUME op \in Operations, NEW pc \in Steps, Goto(pc)
  PROVE  op' \in Operations
BY DEF Goto, Operations

LEMMA GotoAtTyped ==
  ASSUME op \in Operations, NEW pc \in Steps, NEW i \in 0..Participants, GotoAt(pc, i)
  PROVE  op' \in Operations
BY DEF GotoAt, Operations

LEMMA EndsTyped ==
  ASSUME op \in Operations, NEW files \in Disk, NEW result \in Results, Ends(files, result)
  PROVE  disk' \in Disk /\ op' \in Operations
<1>1. op' \in Operations
  BY ConstantFacts DEF Ends, Operations, Steps
<1>2. disk' \in Disk
  BY ConstantFacts DEF Ends, Disk
<1> QED  BY <1>1, <1>2

LEMMA SubmitTyped ==
  ASSUME NEW p \in Owners, TypeOK, Submit(p)
  PROVE  TypeOK'
BY ConstantFacts DEF TypeOK, Submit, Disk

LEMMA RunJobTyped ==
  ASSUME NEW p \in Owners, TypeOK, RunJob(p)
  PROVE  TypeOK'
BY ConstantFacts DEF TypeOK, RunJob, Disk

LEMMA CheckpointTyped ==
  ASSUME TypeOK, Checkpoint
  PROVE  TypeOK'
BY ConstantFacts DEF TypeOK, Checkpoint, Disk

LEMMA StartRestoreTyped ==
  ASSUME NEW c \in Candidates, TypeOK, StartRestore(c)
  PROVE  TypeOK'
BY ConstantFacts DEF TypeOK, StartRestore, Disk, Goto, GotoAt, Operations, Steps, Results, Work, Exchange

LEMMA StartMaintenanceTyped ==
  ASSUME TypeOK, StartMaintenance
  PROVE  TypeOK'
BY ConstantFacts DEF TypeOK, StartMaintenance, Disk, Goto, GotoAt, Operations, Steps, Results, Work, Exchange

LEMMA ValidateTyped ==
  ASSUME TypeOK, Validate
  PROVE  TypeOK'
BY ConstantFacts DEF TypeOK, Validate, Disk, Goto, GotoAt, Operations, Steps, Results, Work, Exchange

LEMMA VacuumTyped ==
  ASSUME TypeOK, Vacuum
  PROVE  TypeOK'
BY ConstantFacts DEF TypeOK, Vacuum, Disk, Goto, GotoAt, Operations, Steps, Results, Work, Exchange

LEMMA BackupTyped ==
  ASSUME TypeOK, Backup
  PROVE  TypeOK'
<1>1. op' \in Operations
  BY GotoTyped, GotoAtTyped, EndsTyped DEF TypeOK, Backup, Steps, Results
<1>2. disk' \in Disk
  BY EndsTyped DEF TypeOK, Backup, Results
<1> QED  BY <1>1, <1>2, ConstantFacts DEF TypeOK, Backup

LEMMA QuiesceTyped ==
  ASSUME TypeOK, Quiesce
  PROVE  TypeOK'
<1>1. op' \in Operations
  BY GotoTyped, GotoAtTyped, EndsTyped, ConstantFacts DEF TypeOK, Quiesce, Steps, Results, Work
<1>2. disk' \in Disk
  BY EndsTyped DEF TypeOK, Quiesce, Results
<1> QED  BY <1>1, <1>2, ConstantFacts DEF TypeOK, Quiesce

LEMMA BlockNewWorkTyped ==
  ASSUME TypeOK, Stopping, BlockNewWork
  PROVE  TypeOK'
<1>1. op' \in Operations
  BY GotoTyped, GotoAtTyped, ConstantFacts DEF TypeOK, BlockNewWork, Steps, Stopping, Owners, Operations
<1>2. disk' \in Disk
  BY DEF TypeOK, BlockNewWork
<1> QED  BY <1>1, <1>2, ConstantFacts DEF TypeOK, BlockNewWork

LEMMA DrainTyped ==
  ASSUME TypeOK, Drain
  PROVE  TypeOK'
<1>1. op' \in Operations
  BY GotoTyped, GotoAtTyped, ConstantFacts DEF TypeOK, Drain, Steps, Operations
<1>2. disk' \in Disk
  BY DEF TypeOK, Drain
<1> QED  BY <1>1, <1>2, ConstantFacts DEF TypeOK, Drain

LEMMA CloseConnectionsTyped ==
  ASSUME TypeOK, CloseConnections
  PROVE  TypeOK'
<1>1. op' \in Operations
  BY GotoTyped, GotoAtTyped, ConstantFacts DEF TypeOK, CloseConnections, Steps, Operations, Work
<1>2. disk' \in Disk
  BY DEF TypeOK, CloseConnections
<1> QED  BY <1>1, <1>2, ConstantFacts DEF TypeOK, CloseConnections

LEMMA AbortTyped ==
  ASSUME TypeOK, Abort
  PROVE  TypeOK'
<1>1. op' \in Operations
  BY GotoTyped, GotoAtTyped, EndsTyped, ConstantFacts DEF TypeOK, Abort, Steps, Results, Operations
<1>2. disk' \in Disk
  BY EndsTyped DEF TypeOK, Abort, Results
<1> QED  BY <1>1, <1>2, ConstantFacts DEF TypeOK, Abort

LEMMA MoveActiveTyped ==
  ASSUME TypeOK, MoveActive
  PROVE  TypeOK'
<1> op.slot \in 1..Slots
  BY DEF TypeOK, Operations
<1>0. [disk EXCEPT !.kept[op.slot] = disk.active, !.active = None] \in Disk
  BY ConstantFacts DEF TypeOK, Disk
<1>1. op' \in Operations
  BY GotoTyped, GotoAtTyped, ConstantFacts DEF TypeOK, MoveActive, Steps
<1>2. disk' \in Disk
  BY <1>0 DEF TypeOK, MoveActive
<1> QED  BY <1>1, <1>2, ConstantFacts DEF TypeOK, MoveActive

LEMMA MoveWalTyped ==
  ASSUME TypeOK, MoveWal
  PROVE  TypeOK'
<1> op.slot \in 1..Slots
  BY DEF TypeOK, Operations
<1>0. [disk EXCEPT !.keptWal[op.slot] = disk.wal, !.wal = None] \in Disk
  BY ConstantFacts DEF TypeOK, Disk
<1>1. op' \in Operations
  BY DEF TypeOK, MoveWal, Steps, Operations, Goto
<1>2. disk' \in Disk
  BY <1>0 DEF TypeOK, MoveWal
<1> QED  BY <1>1, <1>2, ConstantFacts DEF TypeOK, MoveWal

LEMMA InstallTyped ==
  ASSUME TypeOK, Install
  PROVE  TypeOK'
<1>1. op' \in Operations
  BY DEF TypeOK, Install, Steps, Operations, Goto
<1>2. disk' \in Disk
  BY ConstantFacts DEF TypeOK, Install, Disk
<1> QED  BY <1>1, <1>2, ConstantFacts DEF TypeOK, Install

LEMMA UndoTyped ==
  ASSUME TypeOK, Undo
  PROVE  TypeOK'
<1> DEFINE files == [disk EXCEPT !.wal = IF op.installed THEN None ELSE @]
<1> op.slot \in 1..Slots
  BY DEF TypeOK, Operations
<1>1. files \in Disk
  BY ConstantFacts DEF TypeOK, Disk
<1>2. CASE Goto("undoWal") /\ disk' = [disk EXCEPT !.active = disk.kept[op.slot],
                                        !.kept[op.slot] = None, !.wal = IF op.installed THEN None ELSE @]
  <2>1. op' \in Operations
    BY <1>2, GotoTyped DEF TypeOK, Steps
  <2>2. disk' \in Disk
    BY <1>2, ConstantFacts DEF TypeOK, Disk
  <2> QED  BY <2>1, <2>2 DEF TypeOK, Undo
<1> HIDE DEF files
<1>3. CASE Ends(files, "unsure")
  <2>1. op' \in Operations /\ disk' \in Disk
    BY <1>1, <1>3, EndsTyped DEF TypeOK, Results
  <2> QED  BY <2>1 DEF TypeOK, Undo
<1> USE DEF files
<1> QED  BY <1>2, <1>3 DEF Undo

LEMMA UndoWalTyped ==
  ASSUME TypeOK, UndoWal
  PROVE  TypeOK'
<1> op.slot \in 1..Slots
  BY DEF TypeOK, Operations
<1>0. [disk EXCEPT !.wal = disk.keptWal[op.slot], !.keptWal[op.slot] = None] \in Disk
  BY ConstantFacts DEF TypeOK, Disk
<1>1. op' \in Operations
  BY GotoTyped, GotoAtTyped, EndsTyped DEF TypeOK, UndoWal, Steps, Results
<1>2. disk' \in Disk
  BY EndsTyped, <1>0 DEF TypeOK, UndoWal, Results
<1> QED  BY <1>1, <1>2, ConstantFacts DEF TypeOK, UndoWal

LEMMA UndoCheckTyped ==
  ASSUME TypeOK, UndoCheck
  PROVE  TypeOK'
<1>1. op' \in Operations
  BY GotoTyped, GotoAtTyped, EndsTyped, ConstantFacts DEF TypeOK, UndoCheck, Steps, Results
<1>2. disk' \in Disk
  BY EndsTyped DEF TypeOK, UndoCheck, Results
<1> QED  BY <1>1, <1>2, ConstantFacts DEF TypeOK, UndoCheck

LEMMA ResumeTyped ==
  ASSUME TypeOK, Resume
  PROVE  TypeOK'
<1>1. op' \in Operations
  BY GotoTyped, GotoAtTyped, EndsTyped, ConstantFacts DEF TypeOK, Resume, Steps, Results, Operations
<1>2. disk' \in Disk
  BY EndsTyped DEF TypeOK, Resume, Results
<1> QED  BY <1>1, <1>2, ConstantFacts DEF TypeOK, Resume

LEMMA CleanupTyped ==
  ASSUME TypeOK, Cleanup
  PROVE  TypeOK'
<1> op.slot \in 1..Slots
  BY DEF TypeOK, Operations
<1>0. [disk EXCEPT !.kept[op.slot] = None] \in Disk
  BY ConstantFacts DEF TypeOK, Disk
<1>1. op' \in Operations
  BY GotoTyped, GotoAtTyped, EndsTyped DEF TypeOK, Cleanup, Steps, Results
<1>2. disk' \in Disk
  BY EndsTyped, <1>0 DEF TypeOK, Cleanup, Results
<1> QED  BY <1>1, <1>2, ConstantFacts DEF TypeOK, Cleanup

LEMMA CleanWalTyped ==
  ASSUME TypeOK, CleanWal
  PROVE  TypeOK'
<1> op.slot \in 1..Slots
  BY DEF TypeOK, Operations
<1>0. [disk EXCEPT !.keptWal[op.slot] = None] \in Disk
  BY ConstantFacts DEF TypeOK, Disk
<1>1. op' \in Operations
  BY GotoTyped, GotoAtTyped, EndsTyped, <1>0 DEF TypeOK, CleanWal, Steps, Results
<1>2. disk' \in Disk
  BY EndsTyped, <1>0 DEF TypeOK, CleanWal, Results
<1> QED  BY <1>1, <1>2, ConstantFacts DEF TypeOK, CleanWal

LEMMA RestartTyped ==
  ASSUME TypeOK, Restart
  PROVE  TypeOK'
<1>1. op' \in Operations
  BY ConstantFacts DEF TypeOK, Restart, Operations, Steps, Results
<1>2. disk' \in Disk
  BY ConstantFacts DEF TypeOK, Restart, Disk
<1>3. disk'.active \in Databases
  BY ConstantFacts DEF TypeOK, Restart, Disk, Files
<1> QED  BY <1>1, <1>2, <1>3 DEF TypeOK, Restart

----------------------------------------------------------------------------
(* The standstill. *)

Phases == Stopping /\ Resuming /\ Stopped

\* Where the operation is after a step.
LEMMA GotoFacts ==
  ASSUME op \in Operations
  PROVE  /\ \A pc \in Steps : Goto(pc) => op'.pc = pc /\ op'.i = op.i
         /\ \A pc \in Steps, i \in 0..Participants : GotoAt(pc, i) => op'.pc = pc /\ op'.i = i
         /\ \A files, result : Ends(files, result) => op'.pc = "idle"
BY DEF Goto, GotoAt, Ends, Operations

\* A step among files that stand still, or the beginning of the resumption.
LEMMA ExchangeStep ==
  ASSUME RestoreInv, op.pc \in Exchange, UNCHANGED <<life, open, job>>,
         op'.pc \in Exchange \cup {"idle"} \/ (op'.pc = "resume" /\ op'.i = Participants)
  PROVE  Phases'
<1>1. life = "quiesced" /\ AllQuiet
  BY DEF RestoreInv, Stopped, Exchange
<1>2. Stopping'
  BY <1>1 DEF Stopping, Exchange
<1>3. Resuming'
  BY ConstantFacts DEF Resuming, Exchange, Owners
<1>4. Stopped'
  BY <1>1 DEF Stopped, AllQuiet
<1> QED  BY <1>2, <1>3, <1>4 DEF Phases

\* A step before the participants are stopped.
LEMMA QuietStep ==
  ASSUME RestoreInv, op.pc \in {"idle", "backup", "quiesce"}, UNCHANGED <<life, open, job>>,
         op'.pc \in {"idle", "backup", "quiesce"}
  PROVE  Phases'
<1>1. Stopping'
  BY DEF RestoreInv, Stopping
<1>2. Resuming'
  BY DEF Resuming
<1>3. Stopped'
  BY DEF RestoreInv, Stopped, AllQuiet, AllOpen, Exchange
<1> QED  BY <1>1, <1>2, <1>3 DEF Phases

LEMMA MoveActiveKeeps ==
  ASSUME RestoreInv, MoveActive
  PROVE  Phases'
<1>1. op'.pc \in Exchange \cup {"idle"} \/ (op'.pc = "resume" /\ op'.i = Participants)
  BY GotoFacts, ConstantFacts DEF RestoreInv, TypeOK, MoveActive, Steps, Exchange
<1> QED  BY <1>1, ExchangeStep DEF MoveActive, Exchange

LEMMA MoveWalKeeps ==
  ASSUME RestoreInv, MoveWal
  PROVE  Phases'
<1>1. op'.pc \in Exchange \cup {"idle"} \/ (op'.pc = "resume" /\ op'.i = Participants)
  BY GotoFacts, ConstantFacts DEF RestoreInv, TypeOK, MoveWal, Steps, Exchange, Operations
<1> QED  BY <1>1, ExchangeStep DEF MoveWal, Exchange

LEMMA InstallKeeps ==
  ASSUME RestoreInv, Install
  PROVE  Phases'
<1>1. op'.pc \in Exchange \cup {"idle"} \/ (op'.pc = "resume" /\ op'.i = Participants)
  BY GotoFacts, ConstantFacts DEF RestoreInv, TypeOK, Install, Steps, Exchange, Operations
<1> QED  BY <1>1, ExchangeStep DEF Install, Exchange

LEMMA ValidateKeeps ==
  ASSUME RestoreInv, Validate
  PROVE  Phases'
<1>1. op'.pc \in Exchange \cup {"idle"} \/ (op'.pc = "resume" /\ op'.i = Participants)
  BY GotoFacts, ConstantFacts DEF RestoreInv, TypeOK, Validate, Steps, Exchange
<1> QED  BY <1>1, ExchangeStep DEF Validate, Exchange

LEMMA UndoKeeps ==
  ASSUME RestoreInv, Undo
  PROVE  Phases'
<1>1. op'.pc \in Exchange \cup {"idle"} \/ (op'.pc = "resume" /\ op'.i = Participants)
  BY GotoFacts, ConstantFacts DEF RestoreInv, TypeOK, Undo, Steps, Exchange
<1> QED  BY <1>1, ExchangeStep DEF Undo, Exchange

LEMMA UndoWalKeeps ==
  ASSUME RestoreInv, UndoWal
  PROVE  Phases'
<1>1. op'.pc \in Exchange \cup {"idle"} \/ (op'.pc = "resume" /\ op'.i = Participants)
  BY GotoFacts, ConstantFacts DEF RestoreInv, TypeOK, UndoWal, Steps, Exchange
<1> QED  BY <1>1, ExchangeStep DEF UndoWal, Exchange

LEMMA UndoCheckKeeps ==
  ASSUME RestoreInv, UndoCheck
  PROVE  Phases'
<1>1. op'.pc \in Exchange \cup {"idle"} \/ (op'.pc = "resume" /\ op'.i = Participants)
  BY GotoFacts, ConstantFacts DEF RestoreInv, TypeOK, UndoCheck, Steps, Exchange
<1> QED  BY <1>1, ExchangeStep DEF UndoCheck, Exchange

LEMMA CleanupKeeps ==
  ASSUME RestoreInv, Cleanup
  PROVE  Phases'
<1>1. op'.pc \in Exchange \cup {"idle"} \/ (op'.pc = "resume" /\ op'.i = Participants)
  BY GotoFacts, ConstantFacts DEF RestoreInv, TypeOK, Cleanup, Steps, Exchange
<1> QED  BY <1>1, ExchangeStep DEF Cleanup, Exchange

LEMMA CleanWalKeeps ==
  ASSUME RestoreInv, CleanWal
  PROVE  Phases'
<1>1. op'.pc \in Exchange \cup {"idle"} \/ (op'.pc = "resume" /\ op'.i = Participants)
  BY GotoFacts, ConstantFacts DEF RestoreInv, TypeOK, CleanWal, Steps, Exchange
<1> QED  BY <1>1, ExchangeStep DEF CleanWal, Exchange

LEMMA VacuumKeeps ==
  ASSUME RestoreInv, Vacuum
  PROVE  Phases'
<1>1. op'.pc \in Exchange \cup {"idle"} \/ (op'.pc = "resume" /\ op'.i = Participants)
  BY GotoFacts, ConstantFacts DEF RestoreInv, TypeOK, Vacuum, Steps, Exchange
<1> QED  BY <1>1, ExchangeStep DEF Vacuum, Exchange

LEMMA StartRestoreKeeps ==
  ASSUME NEW c \in Candidates, RestoreInv, StartRestore(c)
  PROVE  Phases'
<1>1. op'.pc \in {"idle", "backup", "quiesce"}
  BY GotoFacts DEF RestoreInv, TypeOK, StartRestore, Steps, Operations
<1> QED  BY <1>1, QuietStep DEF StartRestore

LEMMA StartMaintenanceKeeps ==
  ASSUME RestoreInv, StartMaintenance
  PROVE  Phases'
<1>1. op'.pc \in {"idle", "backup", "quiesce"}
  BY GotoFacts DEF RestoreInv, TypeOK, StartMaintenance, Steps, Operations
<1> QED  BY <1>1, QuietStep DEF StartMaintenance

LEMMA BackupKeeps ==
  ASSUME RestoreInv, Backup
  PROVE  Phases'
<1>1. op'.pc \in {"idle", "backup", "quiesce"}
  BY GotoFacts DEF RestoreInv, TypeOK, Backup, Steps, Operations
<1> QED  BY <1>1, QuietStep DEF Backup

\* A participant takes work only while it is open, and those that exchange files have
\* none.
LEMMA SubmitKeeps ==
  ASSUME NEW p \in Owners, RestoreInv, Submit(p)
  PROVE  Phases'
<1>1. job' \in [Owners -> BOOLEAN] /\ \A x \in Owners : ~open[x] => job'[x] = job[x]
  BY DEF RestoreInv, TypeOK, Submit
<1>2. UNCHANGED <<life, open, op>>
  BY DEF Submit
<1>3. Stopping'
  BY <1>1, <1>2 DEF RestoreInv, Stopping, AllClosed, AllQuiet
<1>4. Resuming' /\ Stopped'
  BY <1>1, <1>2 DEF RestoreInv, Resuming, Stopped, AllQuiet, AllOpen
<1> QED  BY <1>3, <1>4 DEF Phases

LEMMA RunJobKeeps ==
  ASSUME NEW p \in Owners, RestoreInv, RunJob(p)
  PROVE  Phases'
<1>1. job' \in [Owners -> BOOLEAN] /\ \A x \in Owners : ~job[x] => ~job'[x]
  BY DEF RestoreInv, TypeOK, RunJob
<1>2. UNCHANGED <<life, open, op>>
  BY DEF RunJob
<1>3. Stopping'
  BY <1>1, <1>2 DEF RestoreInv, Stopping, AllClosed, AllQuiet
<1>4. Resuming' /\ Stopped'
  BY <1>1, <1>2 DEF RestoreInv, Resuming, Stopped, AllQuiet, AllOpen
<1> QED  BY <1>3, <1>4 DEF Phases

\* Steps that touch neither participants nor operation.
LEMMA SameKeeps ==
  ASSUME RestoreInv, UNCHANGED <<life, open, job, op>>
  PROVE  Phases'
BY DEF RestoreInv, Phases, Stopping, Resuming, Stopped, AllClosed, AllQuiet, AllOpen

LEMMA QuiesceKeeps ==
  ASSUME RestoreInv, Quiesce
  PROVE  Phases'
<1> op \in Operations /\ op.pc = "quiesce" /\ UNCHANGED <<open, job>>
  BY DEF RestoreInv, TypeOK, Quiesce
<1>1. CASE life = "quiesced" /\ Goto(Work) /\ UNCHANGED life
  <2>1. op'.pc \in {"move", "vacuum"} /\ AllQuiet
    BY <1>1, GotoFacts DEF Work, Steps, RestoreInv, Stopped
  <2>2. Stopping' /\ Resuming'
    BY <1>1, <2>1 DEF Stopping, Resuming
  <2>3. Stopped'
    BY <1>1, <2>1 DEF Stopped, AllQuiet
  <2> QED  BY <2>2, <2>3 DEF Phases
<1>2. CASE life = "failed" /\ Ends(disk, "failed") /\ UNCHANGED life
  <2>1. op'.pc = "idle"
    BY <1>2, GotoFacts
  <2> QED  BY <1>2, <2>1, QuietStep
<1>3. CASE life = "active" /\ life' = "quiescing" /\ GotoAt("block", 1)
  <2>1. op'.pc = "block" /\ op'.i = 1 /\ AllOpen
    BY <1>3, GotoFacts, ConstantFacts DEF Steps, RestoreInv, Stopped
  <2>2. Stopping'
    BY <1>3, <2>1, ConstantFacts DEF Stopping, AllOpen, Owners
  <2>3. Resuming' /\ Stopped'
    BY <1>3, <2>1 DEF Resuming, Stopped, Exchange
  <2> QED  BY <2>2, <2>3 DEF Phases
<1> QED  BY <1>1, <1>2, <1>3 DEF Quiesce

\* The participants below op.i are blocked; a failure leaves those from op.i on open.
LEMMA BlockNewWorkKeeps ==
  ASSUME RestoreInv, BlockNewWork
  PROVE  Phases'
<1> op \in Operations /\ op.pc = "block" /\ op.i \in Owners /\ life = "quiescing"
  BY DEF RestoreInv, TypeOK, BlockNewWork, Stopping
<1> UNCHANGED <<life, job>> /\ open \in [Owners -> BOOLEAN]
  BY DEF BlockNewWork, RestoreInv, TypeOK
<1>0. \A p \in Owners : p < op.i <=> ~open[p]
  BY DEF RestoreInv, Stopping
<1>1. CASE op.i = Participants /\ open' = [open EXCEPT ![op.i] = FALSE] /\ GotoAt("drain", 1)
  <2>1. op'.pc = "drain" /\ op'.i = 1
    BY <1>1, GotoFacts, ConstantFacts DEF Steps
  <2>2. AllClosed'
    BY <1>0, <1>1, ConstantFacts DEF AllClosed, Owners
  <2>3. Stopping'
    BY <2>1, <2>2, ConstantFacts DEF Stopping, Owners
  <2>4. Resuming' /\ Stopped'
    BY <2>1 DEF Resuming, Stopped, Exchange
  <2> QED  BY <2>3, <2>4 DEF Phases
<1>2. CASE /\ op.i # Participants /\ open' = [open EXCEPT ![op.i] = FALSE]
           /\ GotoAt("block", op.i + 1)
  <2>1. op'.pc = "block" /\ op'.i = op.i + 1 /\ op'.i \in Owners
    BY <1>2, GotoFacts, ConstantFacts DEF Steps, Owners
  <2>2. \A p \in Owners : p < op'.i <=> ~open'[p]
    BY <1>0, <1>2, <2>1 DEF Owners
  <2>3. Stopping'
    BY <2>1, <2>2 DEF Stopping
  <2>4. Resuming' /\ Stopped'
    BY <2>1 DEF Resuming, Stopped, Exchange
  <2> QED  BY <2>3, <2>4 DEF Phases
<1>3. CASE GotoAt("abort", op.i - 1) /\ UNCHANGED open
  <2>1. op'.pc = "abort" /\ op'.i = op.i - 1
    BY <1>3, GotoFacts, ConstantFacts DEF Steps, Owners
  <2>2. Resuming'
    BY <1>0, <1>3, <2>1 DEF Resuming, Owners
  <2>3. Stopping' /\ Stopped'
    BY <2>1 DEF Stopping, Stopped, Exchange
  <2> QED  BY <2>2, <2>3 DEF Phases
<1> QED  BY <1>1, <1>2, <1>3 DEF BlockNewWork

LEMMA DrainKeeps ==
  ASSUME RestoreInv, Drain
  PROVE  Phases'
<1> op \in Operations /\ op.pc = "drain" /\ op.i \in Owners /\ life = "quiescing" /\ AllClosed
  BY DEF RestoreInv, TypeOK, Drain, Stopping
<1> UNCHANGED <<life, open, job>>
  BY DEF Drain
<1>0. \A p \in Owners : p < op.i => ~job[p]
  BY DEF RestoreInv, Stopping
<1>1. CASE ~job[op.i] /\ op.i = Participants /\ GotoAt("close", 1)
  <2>1. op'.pc = "close" /\ op'.i = 1
    BY <1>1, GotoFacts, ConstantFacts DEF Steps
  <2>2. AllQuiet'
    BY <1>0, <1>1, ConstantFacts DEF AllClosed, AllQuiet, Owners
  <2>3. Stopping'
    BY <2>1, <2>2, ConstantFacts DEF Stopping
  <2>4. Resuming' /\ Stopped'
    BY <2>1 DEF Resuming, Stopped, Exchange
  <2> QED  BY <2>3, <2>4 DEF Phases
<1>2. CASE ~job[op.i] /\ op.i # Participants /\ GotoAt("drain", op.i + 1)
  <2>1. op'.pc = "drain" /\ op'.i = op.i + 1 /\ op'.i \in Owners
    BY <1>2, GotoFacts, ConstantFacts DEF Steps, Owners
  <2>2. \A p \in Owners : p < op'.i => ~job'[p]
    BY <1>0, <1>2, <2>1 DEF Owners
  <2>3. Stopping'
    BY <2>1, <2>2 DEF Stopping, AllClosed
  <2>4. Resuming' /\ Stopped'
    BY <2>1 DEF Resuming, Stopped, Exchange
  <2> QED  BY <2>3, <2>4 DEF Phases
<1>3. CASE GotoAt("abort", Participants)
  <2>1. op'.pc = "abort" /\ op'.i = Participants
    BY <1>3, GotoFacts, ConstantFacts DEF Steps
  <2>2. Stopping' /\ Resuming' /\ Stopped'
    BY <2>1, ConstantFacts DEF Stopping, Resuming, Stopped, Exchange, Owners
  <2> QED  BY <2>2 DEF Phases
<1> QED  BY <1>1, <1>2, <1>3 DEF Drain

LEMMA CloseConnectionsKeeps ==
  ASSUME RestoreInv, CloseConnections
  PROVE  Phases'
<1> op \in Operations /\ op.pc = "close" /\ op.i \in Owners /\ life = "quiescing" /\ AllQuiet
  BY DEF RestoreInv, TypeOK, CloseConnections, Stopping
<1> UNCHANGED <<open, job>>
  BY DEF CloseConnections
<1>1. CASE op.i < Participants /\ GotoAt("close", op.i + 1) /\ UNCHANGED life
  <2>1. op'.pc = "close" /\ op'.i \in Owners
    BY <1>1, GotoFacts, ConstantFacts DEF Steps, Owners
  <2>2. Stopping' /\ Resuming' /\ Stopped'
    BY <1>1, <2>1 DEF Stopping, Resuming, Stopped, Exchange, AllQuiet
  <2> QED  BY <2>2 DEF Phases
<1>2. CASE life' = "quiesced" /\ Goto(Work)
  <2>1. op'.pc \in {"move", "vacuum"}
    BY <1>2, GotoFacts DEF Steps, Work
  <2>2. Stopping' /\ Resuming' /\ Stopped'
    BY <1>2, <2>1 DEF Stopping, Resuming, Stopped, Exchange, AllQuiet
  <2> QED  BY <2>2 DEF Phases
<1>3. CASE GotoAt("abort", Participants) /\ UNCHANGED life
  <2>1. op'.pc = "abort" /\ op'.i = Participants
    BY <1>3, GotoFacts, ConstantFacts DEF Steps
  <2>2. Stopping' /\ Resuming' /\ Stopped'
    BY <1>3, <2>1, ConstantFacts DEF Stopping, Resuming, Stopped, Exchange, Owners
  <2> QED  BY <2>2 DEF Phases
<1> QED  BY <1>1, <1>2, <1>3 DEF CloseConnections

\* The participants above op.i accept work again.
LEMMA AbortKeeps ==
  ASSUME RestoreInv, Abort
  PROVE  Phases'
<1> op \in Operations /\ op.pc = "abort" /\ life = "quiescing" /\ open \in [Owners -> BOOLEAN]
  BY DEF RestoreInv, TypeOK, Abort, Stopping, Stopped
<1>0. \A p \in Owners : p > op.i => open[p]
  BY DEF RestoreInv, Resuming
<1>1. CASE op.i = 0 /\ life' = "active" /\ op'.pc = "idle" /\ UNCHANGED open
  <2>1. AllOpen'
    BY <1>0, <1>1, ConstantFacts DEF AllOpen, Owners
  <2>2. Stopping' /\ Resuming' /\ Stopped'
    BY <1>1, <2>1 DEF Stopping, Resuming, Stopped, Exchange
  <2> QED  BY <2>2 DEF Phases
<1>2. CASE /\ op.i > 0 /\ open' = [open EXCEPT ![op.i] = TRUE] /\ GotoAt("abort", op.i - 1)
           /\ UNCHANGED life
  <2>1. op'.pc = "abort" /\ op'.i = op.i - 1
    BY <1>2, GotoFacts, ConstantFacts DEF Steps, Operations
  <2>2. Resuming'
    BY <1>0, <1>2, <2>1 DEF Resuming, Owners, Operations
  <2>3. Stopping' /\ Stopped'
    BY <1>2, <2>1 DEF Stopping, Stopped, Exchange
  <2> QED  BY <2>2, <2>3 DEF Phases
<1>3. CASE life' = "failed" /\ op'.pc = "idle" /\ UNCHANGED open
  BY <1>3 DEF Phases, Stopping, Resuming, Stopped, Exchange
<1> QED  BY <1>1, <1>2, <1>3, GotoFacts DEF Abort

\* The participants above op.i accept work again.
LEMMA ResumeKeeps ==
  ASSUME RestoreInv, Resume
  PROVE  Phases'
<1> op \in Operations /\ op.pc = "resume" /\ life = "quiesced" /\ open \in [Owners -> BOOLEAN]
  BY DEF RestoreInv, TypeOK, Resume, Stopping, Stopped
<1>0. \A p \in Owners : p > op.i => open[p]
  BY DEF RestoreInv, Resuming
<1>1. CASE op.i = 0 /\ life' = "active" /\ op'.pc = "idle" /\ UNCHANGED open
  <2>1. AllOpen'
    BY <1>0, <1>1, ConstantFacts DEF AllOpen, Owners
  <2>2. Stopping' /\ Resuming' /\ Stopped'
    BY <1>1, <2>1 DEF Stopping, Resuming, Stopped, Exchange
  <2> QED  BY <2>2 DEF Phases
<1>2. CASE /\ op.i > 0 /\ open' = [open EXCEPT ![op.i] = TRUE] /\ GotoAt("resume", op.i - 1)
           /\ UNCHANGED life
  <2>1. op'.pc = "resume" /\ op'.i = op.i - 1
    BY <1>2, GotoFacts, ConstantFacts DEF Steps, Operations
  <2>2. Resuming'
    BY <1>0, <1>2, <2>1 DEF Resuming, Owners, Operations
  <2>3. Stopping' /\ Stopped'
    BY <1>2, <2>1 DEF Stopping, Stopped, Exchange
  <2> QED  BY <2>2, <2>3 DEF Phases
<1>3. CASE life' = "failed" /\ op'.pc = "idle" /\ UNCHANGED open
  BY <1>3 DEF Phases, Stopping, Resuming, Stopped, Exchange
<1> QED  BY <1>1, <1>2, <1>3, GotoFacts DEF Resume

LEMMA RestartKeeps ==
  ASSUME RestoreInv, Restart
  PROVE  Phases'
<1>1. life' = "active" /\ op'.pc = "idle" /\ AllOpen'
  BY DEF RestoreInv, TypeOK, Restart, Operations, AllOpen
<1>2. Stopping' /\ Resuming' /\ Stopped'
  BY <1>1 DEF Stopping, Resuming, Stopped, Exchange
<1> QED  BY <1>2 DEF Phases

\* One step, whoever makes it.
LEMMA InvStep ==
  ASSUME RestoreInv, [Next]_vars
  PROVE  RestoreInv'
<1> USE DEF RestoreInv
<1>1. CASE \E p \in Owners : Submit(p)
  BY <1>1, SubmitTyped, SubmitKeeps DEF Phases
<1>2. CASE \E p \in Owners : RunJob(p)
  BY <1>2, RunJobTyped, RunJobKeeps DEF Phases
<1>3. CASE Checkpoint
  BY <1>3, CheckpointTyped, SameKeeps DEF Phases, Checkpoint
<1>4. CASE \E c \in Candidates : StartRestore(c)
  BY <1>4, StartRestoreTyped, StartRestoreKeeps DEF Phases
<1>5. CASE UNCHANGED vars
  <2>1. TypeOK'
    BY <1>5 DEF TypeOK, vars
  <2> QED  BY <1>5, <2>1, SameKeeps DEF vars, Phases
<1>6. CASE StartMaintenance
  BY <1>6, StartMaintenanceTyped, StartMaintenanceKeeps DEF Phases
<1>7. CASE Backup
  BY <1>7, BackupTyped, BackupKeeps DEF Phases
<1>8. CASE Quiesce
  BY <1>8, QuiesceTyped, QuiesceKeeps DEF Phases
<1>9. CASE BlockNewWork
  BY <1>9, BlockNewWorkTyped, BlockNewWorkKeeps DEF Phases
<1>10. CASE Drain
  BY <1>10, DrainTyped, DrainKeeps DEF Phases
<1>11. CASE CloseConnections
  BY <1>11, CloseConnectionsTyped, CloseConnectionsKeeps DEF Phases
<1>12. CASE Abort
  BY <1>12, AbortTyped, AbortKeeps DEF Phases
<1>13. CASE MoveActive
  BY <1>13, MoveActiveTyped, MoveActiveKeeps DEF Phases
<1>14. CASE MoveWal
  BY <1>14, MoveWalTyped, MoveWalKeeps DEF Phases
<1>15. CASE Install
  BY <1>15, InstallTyped, InstallKeeps DEF Phases
<1>16. CASE Validate
  BY <1>16, ValidateTyped, ValidateKeeps DEF Phases
<1>17. CASE Undo
  BY <1>17, UndoTyped, UndoKeeps DEF Phases
<1>18. CASE UndoWal
  BY <1>18, UndoWalTyped, UndoWalKeeps DEF Phases
<1>19. CASE UndoCheck
  BY <1>19, UndoCheckTyped, UndoCheckKeeps DEF Phases
<1>20. CASE Resume
  BY <1>20, ResumeTyped, ResumeKeeps DEF Phases
<1>21. CASE Cleanup
  BY <1>21, CleanupTyped, CleanupKeeps DEF Phases
<1>22. CASE CleanWal
  BY <1>22, CleanWalTyped, CleanWalKeeps DEF Phases
<1>23. CASE Vacuum
  BY <1>23, VacuumTyped, VacuumKeeps DEF Phases
<1>24. CASE Restart
  BY <1>24, RestartTyped, RestartKeeps DEF Phases
<1> QED  BY <1>1, <1>2, <1>3, <1>4, <1>5, <1>6, <1>7, <1>8, <1>9, <1>10, <1>11, <1>12,
           <1>13, <1>14, <1>15, <1>16, <1>17, <1>18, <1>19, <1>20, <1>21, <1>22, <1>23, <1>24
          DEF Next, Persistence, Step

LEMMA InvInit == Init => RestoreInv
<1> SUFFICES ASSUME Init PROVE RestoreInv
  OBVIOUS
<1>1. disk \in Disk
  BY ConstantFacts DEF Init, Disk
<1>2. op \in Operations
  BY ConstantFacts, RestoreAssumption DEF Init, Operations, Steps, Results
<1>3. TypeOK
  BY <1>1, <1>2, ConstantFacts DEF Init, TypeOK
<1>4. Stopping /\ Resuming /\ Stopped
  BY DEF Init, Stopping, Resuming, Stopped, AllOpen, Exchange
<1> QED  BY <1>3, <1>4 DEF RestoreInv

\* Every reachable state has the types and the phases of the standstill.
THEOREM RestoreInvariant == Spec => []RestoreInv
<1>1. RestoreInv /\ [Next]_vars => RestoreInv'
  BY InvStep
<1> QED  BY <1>1, InvInit, PTL DEF Spec

\* restore_commit.py and database_maintenance.py rename, overwrite and rewrite files only
\* while no participant accepts or runs a job, for any number of participants, and
\* whatever failed before.
THEOREM ExchangeIsQuiet == Spec => []QuietExchange
<1>1. RestoreInv => QuietExchange
  BY DEF RestoreInv, Stopped, QuietExchange, AllQuiet, Exchange
<1> QED  BY <1>1, RestoreInvariant, PTL

\* RestoreLifecycleAdapter answers ACTIVE only while every participant accepts work.
THEOREM ActiveIsOpen == Spec => []ActiveMeansOpen
<1>1. RestoreInv => ActiveMeansOpen
  BY DEF RestoreInv, Stopped, ActiveMeansOpen, AllOpen
<1> QED  BY <1>1, RestoreInvariant, PTL

\* For any number of participants the files, the phases and the results of a restore or a
\* maintenance keep their ranges, over failures and restarts.
THEOREM RestoreTypes == Spec => []TypeOK
<1>1. RestoreInv => TypeOK
  BY DEF RestoreInv
<1> QED  BY <1>1, RestoreInvariant, PTL
----------------------------------------------------------------------------
(* The files.  What each step of the exchange knows of the database and    *)
(* the log it started with.                                                *)

Before == {"backup", "quiesce", "block", "drain", "close", "abort", "move", "vacuum"}
InPlace == Before \cup {"undoWal", "undoCheck", "resume"}

\* The database: in place, or beside the place while another one is tried there; it is
\* missing only while nobody works.
BaseKept ==
  /\ op.pc \notin {"idle", "backup"} => op.base # None
  /\ op.pc \in InPlace => disk.active = op.base /\ (op.kind = "restore" => disk.kept[op.slot] = None)
  /\ op.pc \in {"moveWal", "install", "validate", "undo"} => disk.kept[op.slot] = op.base
  /\ disk.active = None => life = "quiesced"

\* Its log: the frames beside a database are its own, those that were moved are the base's.
LogKept ==
  /\ op.pc \in Before \cup {"idle", "moveWal"} => ~op.moved
  /\ disk.active # None => disk.wal \in {disk.active, None}
  /\ op.pc \in {"moveWal", "undo"} => disk.wal \in {op.base, None}
  /\ op.pc \in {"install", "validate"} => disk.wal = None
  /\ op.moved /\ op.pc \in {"install", "validate", "undo", "undoWal"} => disk.keptWal[op.slot] = op.base
  /\ op.moved /\ op.pc \in {"undoCheck", "resume"} => disk.keptWal[op.slot] = None

FilesInv == BaseKept /\ LogKept

\* The fields of the operation and of the files after a step.
LEMMA GotoFields ==
  ASSUME op \in Operations
  PROVE  /\ \A pc \in Steps : Goto(pc) =>
              /\ op'.pc = pc /\ op'.kind = op.kind /\ op'.slot = op.slot /\ op'.base = op.base
              /\ op'.moved = op.moved /\ op'.result = op.result
         /\ \A pc \in Steps, i \in 0..Participants : GotoAt(pc, i) =>
              /\ op'.pc = pc /\ op'.kind = op.kind /\ op'.slot = op.slot /\ op'.base = op.base
              /\ op'.moved = op.moved /\ op'.result = op.result
BY DEF Goto, GotoAt, Operations

LEMMA EndsFields ==
  ASSUME op \in Operations, NEW files \in Disk, NEW result, Ends(files, result)
  PROVE  /\ op'.pc = "idle" /\ op'.slot = op.slot /\ ~op'.moved /\ op'.result = result
         /\ disk'.active = files.active /\ disk'.wal = files.wal
         /\ disk'.kept = files.kept /\ disk'.keptWal = files.keptWal
BY DEF Ends, Operations, Disk

\* The end of an operation keeps what its files say.
LEMMA EndsKeepsFiles ==
  ASSUME op \in Operations, NEW files \in Disk, NEW result, Ends(files, result),
         files.active = None => life' = "quiesced",
         files.active # None => files.wal \in {files.active, None}
  PROVE  FilesInv'
<1>1. /\ op'.pc = "idle" /\ ~op'.moved
      /\ disk'.active = files.active /\ disk'.wal = files.wal
  BY EndsFields
<1> QED  BY <1>1 DEF FilesInv, BaseKept, LogKept, InPlace, Before

\* Neither the files nor the operation's database: a step between two stops of the same kind.
LEMMA SameFiles ==
  ASSUME FilesInv, UNCHANGED disk,
         op'.kind = op.kind, op'.slot = op.slot, op'.base = op.base, op'.moved = op.moved,
         op.pc \in Before \ {"backup"}, op'.pc \in Before \cup {"resume"}, op'.pc # "backup",
         disk.active = None => life' = "quiesced"
  PROVE  FilesInv'
BY DEF FilesInv, BaseKept, LogKept, InPlace, Before

\* Nobody works while there is no database and while one is exchanged.
LEMMA WorkingHasDatabase ==
  ASSUME RestoreInv, FilesInv, NEW p \in Owners, job[p]
  PROVE  disk.active # None /\ op.pc \notin Exchange
BY DEF RestoreInv, Stopped, AllQuiet, FilesInv, BaseKept, InPlace, Exchange

LEMMA SubmitKeepsFiles ==
  ASSUME NEW p \in Owners, RestoreInv, FilesInv, Submit(p)
  PROVE  FilesInv'
BY DEF FilesInv, BaseKept, LogKept, Submit

LEMMA RunJobKeepsFiles ==
  ASSUME NEW p \in Owners, RestoreInv, FilesInv, RunJob(p)
  PROVE  FilesInv'
<1>1. disk.active # None /\ op.pc \notin Exchange
  BY WorkingHasDatabase DEF RunJob
<1>2. /\ disk'.active = disk.active /\ disk'.wal = disk.active
      /\ disk'.kept = disk.kept /\ disk'.keptWal = disk.keptWal
  BY DEF RunJob, RestoreInv, TypeOK, Disk
<1> QED  BY <1>1, <1>2 DEF FilesInv, BaseKept, LogKept, RunJob, Exchange

LEMMA CheckpointKeepsFiles ==
  ASSUME RestoreInv, FilesInv, Checkpoint
  PROVE  FilesInv'
<1>1. /\ disk'.active = disk.active /\ disk'.wal = None
      /\ disk'.kept = disk.kept /\ disk'.keptWal = disk.keptWal
  BY DEF Checkpoint, RestoreInv, TypeOK, Disk
<1> QED  BY <1>1 DEF FilesInv, BaseKept, LogKept, Checkpoint

LEMMA StartRestoreKeepsFiles ==
  ASSUME NEW c \in Candidates, RestoreInv, FilesInv, StartRestore(c)
  PROVE  FilesInv'
<1>1. /\ disk'.active = disk.active /\ disk'.wal = disk.wal
      /\ disk'.kept = disk.kept /\ disk'.keptWal = disk.keptWal
  BY DEF StartRestore, RestoreInv, TypeOK, Disk
<1>2. /\ op'.pc = "backup" /\ op'.base = disk.active /\ ~op'.moved /\ op.pc = "idle"
      /\ op'.slot \in 1..Slots /\ AvailableSlot(op'.slot)
  BY DEF StartRestore, RestoreInv, TypeOK, Operations, FilesInv, LogKept
<1> QED  BY <1>1, <1>2 DEF FilesInv, BaseKept, LogKept, InPlace, Before, AvailableSlot, StartRestore

LEMMA StartMaintenanceKeepsFiles ==
  ASSUME RestoreInv, FilesInv, StartMaintenance
  PROVE  FilesInv'
<1>1. /\ op'.pc = "backup" /\ op'.base = disk.active /\ ~op'.moved /\ op.pc = "idle"
      /\ op'.kind = "maintenance"
  BY DEF StartMaintenance, RestoreInv, TypeOK, Operations, FilesInv, LogKept
<1> QED  BY <1>1 DEF FilesInv, BaseKept, LogKept, InPlace, Before, StartMaintenance

LEMMA BackupKeepsFiles ==
  ASSUME RestoreInv, FilesInv, Backup
  PROVE  FilesInv'
<1> op \in Operations /\ disk \in Disk /\ op.pc = "backup" /\ UNCHANGED life
  BY DEF RestoreInv, TypeOK, Backup
<1>1. CASE disk.active # None /\ Goto("quiesce") /\ UNCHANGED disk
  <2>1. /\ op'.pc = "quiesce" /\ op'.kind = op.kind /\ op'.slot = op.slot
        /\ op'.base = op.base /\ op'.moved = op.moved
    BY <1>1, GotoFields DEF Steps
  <2> QED  BY <1>1, <2>1 DEF FilesInv, BaseKept, LogKept, InPlace, Before
<1>2. CASE Ends(disk, "failed")
  BY <1>2, EndsKeepsFiles DEF FilesInv, BaseKept, LogKept
<1> QED  BY <1>1, <1>2 DEF Backup

LEMMA QuiesceKeepsFiles ==
  ASSUME RestoreInv, FilesInv, Quiesce
  PROVE  FilesInv'
<1> op \in Operations /\ disk \in Disk /\ op.pc = "quiesce" /\ op.pc \in Before \ {"backup"}
  BY DEF RestoreInv, TypeOK, Quiesce, Before
<1>0. disk.active # None
  BY DEF FilesInv, BaseKept, InPlace, Before
<1>1. CASE Goto(Work) /\ UNCHANGED disk
  <2>1. /\ op'.pc \in {"move", "vacuum"} /\ op'.kind = op.kind /\ op'.slot = op.slot
        /\ op'.base = op.base /\ op'.moved = op.moved
    BY <1>1, GotoFields DEF Steps, Work
  <2> QED  BY <1>0, <1>1, <2>1, SameFiles DEF Before
<1>2. CASE Ends(disk, "failed")
  BY <1>0, <1>2, EndsKeepsFiles DEF FilesInv, BaseKept, LogKept
<1>3. CASE GotoAt("block", 1) /\ UNCHANGED disk
  <2>1. /\ op'.pc = "block" /\ op'.kind = op.kind /\ op'.slot = op.slot
        /\ op'.base = op.base /\ op'.moved = op.moved
    BY <1>3, GotoFields, ConstantFacts DEF Steps
  <2> QED  BY <1>0, <1>3, <2>1, SameFiles DEF Before
<1> QED  BY <1>1, <1>2, <1>3 DEF Quiesce

LEMMA BlockNewWorkKeepsFiles ==
  ASSUME RestoreInv, FilesInv, BlockNewWork
  PROVE  FilesInv'
<1> op \in Operations /\ disk \in Disk /\ op.pc = "block" /\ op.i \in Owners /\ UNCHANGED <<life, disk>>
  BY DEF RestoreInv, TypeOK, BlockNewWork, Stopping
<1>1. /\ op'.pc \in {"block", "drain", "abort"} /\ op'.kind = op.kind /\ op'.slot = op.slot
      /\ op'.base = op.base /\ op'.moved = op.moved
  BY GotoFields, ConstantFacts DEF BlockNewWork, Steps, Owners
<1> QED  BY <1>1, SameFiles DEF Before, FilesInv, BaseKept

LEMMA DrainKeepsFiles ==
  ASSUME RestoreInv, FilesInv, Drain
  PROVE  FilesInv'
<1> op \in Operations /\ disk \in Disk /\ op.pc = "drain" /\ op.i \in Owners /\ UNCHANGED <<life, disk>>
  BY DEF RestoreInv, TypeOK, Drain, Stopping
<1>1. /\ op'.pc \in {"drain", "close", "abort"} /\ op'.kind = op.kind /\ op'.slot = op.slot
      /\ op'.base = op.base /\ op'.moved = op.moved
  BY GotoFields, ConstantFacts DEF Drain, Steps, Owners
<1> QED  BY <1>1, SameFiles DEF Before, FilesInv, BaseKept

LEMMA CloseConnectionsKeepsFiles ==
  ASSUME RestoreInv, FilesInv, CloseConnections
  PROVE  FilesInv'
<1> op \in Operations /\ disk \in Disk /\ op.pc = "close" /\ op.i \in Owners /\ UNCHANGED disk
  BY DEF RestoreInv, TypeOK, CloseConnections, Stopping
<1>1. /\ op'.pc \in {"close", "move", "vacuum", "abort"} /\ op'.kind = op.kind /\ op'.slot = op.slot
      /\ op'.base = op.base /\ op'.moved = op.moved
  BY GotoFields, ConstantFacts DEF CloseConnections, Steps, Owners, Work
<1>2. disk.active # None
  BY DEF FilesInv, BaseKept, InPlace, Before
<1> QED  BY <1>1, <1>2, SameFiles DEF Before

LEMMA AbortKeepsFiles ==
  ASSUME RestoreInv, FilesInv, Abort
  PROVE  FilesInv'
<1> op \in Operations /\ disk \in Disk /\ op.pc = "abort"
  BY DEF RestoreInv, TypeOK, Abort
<1>0. disk.active # None
  BY DEF FilesInv, BaseKept, InPlace, Before
<1>1. CASE Ends(disk, "failed")
  BY <1>0, <1>1, EndsKeepsFiles DEF FilesInv, BaseKept, LogKept
<1>2. CASE op.i > 0 /\ GotoAt("abort", op.i - 1) /\ UNCHANGED disk
  <2>1. /\ op'.pc = "abort" /\ op'.kind = op.kind /\ op'.slot = op.slot
        /\ op'.base = op.base /\ op'.moved = op.moved
    BY <1>2, GotoFields, ConstantFacts DEF Steps, Operations
  <2> QED  BY <1>0, <1>2, <2>1, SameFiles DEF Before
<1> QED  BY <1>1, <1>2 DEF Abort

LEMMA VacuumKeepsFiles ==
  ASSUME RestoreInv, FilesInv, Vacuum
  PROVE  FilesInv'
<1> op \in Operations /\ op.pc = "vacuum" /\ UNCHANGED <<life, disk>>
  BY DEF RestoreInv, TypeOK, Vacuum
<1>1. /\ op'.pc = "resume" /\ op'.kind = op.kind /\ op'.slot = op.slot
      /\ op'.base = op.base /\ op'.moved = op.moved
  BY GotoFields, ConstantFacts DEF Vacuum, Steps
<1> QED  BY <1>1, SameFiles DEF Before, FilesInv, BaseKept

\* The renames of the exchange.
LEMMA MoveActiveKeepsFiles ==
  ASSUME RestoreInv, FilesInv, MoveActive
  PROVE  FilesInv'
<1> op \in Operations /\ disk \in Disk /\ op.pc = "move" /\ UNCHANGED life /\ life = "quiesced"
  BY DEF RestoreInv, TypeOK, MoveActive, Stopped, Exchange
<1> op.slot \in 1..Slots
  BY DEF Operations
<1>1. CASE /\ disk' = [disk EXCEPT !.kept[op.slot] = disk.active, !.active = None]
           /\ Goto("moveWal")
  <2>1. op'.pc = "moveWal" /\ op'.slot = op.slot /\ op'.base = op.base /\ op'.moved = op.moved
    BY <1>1, GotoFields DEF Steps
  <2>2. disk'.active = None /\ disk'.kept[op.slot] = disk.active /\ disk'.wal = disk.wal
    BY <1>1 DEF Disk
  <2> QED  BY <2>1, <2>2 DEF FilesInv, BaseKept, LogKept, InPlace, Before
<1>2. CASE GotoAt("resume", Participants) /\ UNCHANGED disk
  <2>1. /\ op'.pc = "resume" /\ op'.kind = op.kind /\ op'.slot = op.slot
        /\ op'.base = op.base /\ op'.moved = op.moved
    BY <1>2, GotoFields, ConstantFacts DEF Steps
  <2> QED  BY <1>2, <2>1, SameFiles DEF Before
<1> QED  BY <1>1, <1>2 DEF MoveActive

LEMMA MoveWalKeepsFiles ==
  ASSUME RestoreInv, FilesInv, MoveWal
  PROVE  FilesInv'
<1> op \in Operations /\ disk \in Disk /\ op.pc = "moveWal" /\ UNCHANGED life
  BY DEF RestoreInv, TypeOK, MoveWal
<1> op.slot \in 1..Slots
  BY DEF Operations
<1>1. CASE disk.wal = None /\ Goto("install") /\ UNCHANGED disk
  <2>1. op'.pc = "install" /\ op'.slot = op.slot /\ op'.base = op.base /\ op'.moved = op.moved
    BY <1>1, GotoFields DEF Steps
  <2> QED  BY <1>1, <2>1 DEF FilesInv, BaseKept, LogKept, InPlace, Before
<1>2. CASE /\ disk.wal # None
           /\ disk' = [disk EXCEPT !.keptWal[op.slot] = disk.wal, !.wal = None]
           /\ op' = [op EXCEPT !.pc = "install", !.moved = TRUE]
  <2>1. op'.pc = "install" /\ op'.slot = op.slot /\ op'.base = op.base
    BY <1>2 DEF Operations
  <2>2. /\ disk'.active = disk.active /\ disk'.kept = disk.kept /\ disk'.wal = None
        /\ disk'.keptWal[op.slot] = disk.wal
    BY <1>2 DEF Disk
  <2> QED  BY <1>2, <2>1, <2>2 DEF FilesInv, BaseKept, LogKept, InPlace, Before
<1>3. CASE disk.wal # None /\ Goto("undo") /\ UNCHANGED disk
  <2>1. op'.pc = "undo" /\ op'.slot = op.slot /\ op'.base = op.base /\ op'.moved = op.moved
    BY <1>3, GotoFields DEF Steps
  <2> QED  BY <1>3, <2>1 DEF FilesInv, BaseKept, LogKept, InPlace, Before
<1> QED  BY <1>1, <1>2, <1>3 DEF MoveWal

LEMMA InstallKeepsFiles ==
  ASSUME RestoreInv, FilesInv, Install
  PROVE  FilesInv'
<1> op \in Operations /\ disk \in Disk /\ op.pc = "install" /\ UNCHANGED life /\ life = "quiesced"
  BY DEF RestoreInv, TypeOK, Install, Stopped, Exchange
<1>1. CASE /\ disk' = [disk EXCEPT !.active = disk.staged, !.staged = None]
           /\ op' = [op EXCEPT !.pc = "validate", !.installed = TRUE]
  <2>1. op'.pc = "validate" /\ op'.slot = op.slot /\ op'.base = op.base /\ op'.moved = op.moved
    BY <1>1 DEF Operations
  <2>2. disk'.kept = disk.kept /\ disk'.wal = disk.wal /\ disk'.keptWal = disk.keptWal
    BY <1>1 DEF Disk
  <2> QED  BY <2>1, <2>2 DEF FilesInv, BaseKept, LogKept, InPlace, Before
<1>2. CASE Goto("undo") /\ UNCHANGED disk
  <2>1. op'.pc = "undo" /\ op'.slot = op.slot /\ op'.base = op.base /\ op'.moved = op.moved
    BY <1>2, GotoFields DEF Steps
  <2> QED  BY <1>2, <2>1 DEF FilesInv, BaseKept, LogKept, InPlace, Before
<1> QED  BY <1>1, <1>2 DEF Install

LEMMA ValidateKeepsFiles ==
  ASSUME RestoreInv, FilesInv, Validate
  PROVE  FilesInv'
<1> op \in Operations /\ op.pc = "validate" /\ UNCHANGED <<life, disk>>
  BY DEF RestoreInv, TypeOK, Validate
<1>1. /\ op'.pc \in {"cleanup", "undo"} /\ op'.slot = op.slot /\ op'.base = op.base
      /\ op'.moved = op.moved
  BY GotoFields DEF Validate, Steps
<1> QED  BY <1>1 DEF FilesInv, BaseKept, LogKept, InPlace, Before

LEMMA UndoKeepsFiles ==
  ASSUME RestoreInv, FilesInv, Undo
  PROVE  FilesInv'
<1> op \in Operations /\ disk \in Disk /\ op.pc = "undo" /\ UNCHANGED life /\ life = "quiesced"
  BY DEF RestoreInv, TypeOK, Undo, Stopped, Exchange
<1> op.slot \in 1..Slots
  BY DEF Operations
<1> DEFINE files == [disk EXCEPT !.wal = IF op.installed THEN None ELSE @]
<1>1. files \in Disk /\ files.active = disk.active /\ files.wal \in {disk.wal, None}
  BY ConstantFacts DEF Disk
<1>2. CASE /\ disk' = [disk EXCEPT !.active = disk.kept[op.slot], !.kept[op.slot] = None,
                                   !.wal = IF op.installed THEN None ELSE @]
           /\ Goto("undoWal")
  <2>1. op'.pc = "undoWal" /\ op'.slot = op.slot /\ op'.base = op.base /\ op'.moved = op.moved
    BY <1>2, GotoFields DEF Steps
  <2>2. /\ disk'.active = disk.kept[op.slot] /\ disk'.kept[op.slot] = None
        /\ disk'.wal \in {disk.wal, None} /\ disk'.keptWal = disk.keptWal
    BY <1>2 DEF Disk
  <2> QED  BY <2>1, <2>2 DEF FilesInv, BaseKept, LogKept, InPlace, Before
<1> HIDE DEF files
<1>3. CASE Ends(files, "unsure")
  BY <1>1, <1>3, EndsKeepsFiles DEF FilesInv, LogKept
<1> USE DEF files
<1> QED  BY <1>2, <1>3 DEF Undo

LEMMA UndoWalKeepsFiles ==
  ASSUME RestoreInv, FilesInv, UndoWal
  PROVE  FilesInv'
<1> op \in Operations /\ disk \in Disk /\ op.pc = "undoWal" /\ UNCHANGED life
  BY DEF RestoreInv, TypeOK, UndoWal
<1> op.slot \in 1..Slots
  BY DEF Operations
<1>0. disk.active = op.base /\ op.base # None /\ (op.kind = "restore" => disk.kept[op.slot] = None)
  BY DEF FilesInv, BaseKept, InPlace
<1>1. CASE ~op.moved /\ Goto("undoCheck") /\ UNCHANGED disk
  <2>1. /\ op'.pc = "undoCheck" /\ op'.slot = op.slot /\ op'.base = op.base
        /\ op'.moved = op.moved /\ op'.kind = op.kind
    BY <1>1, GotoFields DEF Steps
  <2> QED  BY <1>0, <1>1, <2>1 DEF FilesInv, BaseKept, LogKept, InPlace, Before
<1>2. CASE /\ op.moved /\ Goto("undoCheck")
           /\ disk' = [disk EXCEPT !.wal = disk.keptWal[op.slot], !.keptWal[op.slot] = None]
  <2>1. /\ op'.pc = "undoCheck" /\ op'.slot = op.slot /\ op'.base = op.base
        /\ op'.moved = op.moved /\ op'.kind = op.kind
    BY <1>2, GotoFields DEF Steps
  <2>2. /\ disk'.active = disk.active /\ disk'.kept = disk.kept
        /\ disk'.wal = disk.keptWal[op.slot] /\ disk'.keptWal[op.slot] = None
    BY <1>2 DEF Disk
  <2> QED  BY <1>0, <1>2, <2>1, <2>2 DEF FilesInv, BaseKept, LogKept, InPlace, Before
<1>3. CASE Ends(disk, "unsure")
  BY <1>0, <1>3, EndsKeepsFiles DEF FilesInv, LogKept
<1> QED  BY <1>1, <1>2, <1>3 DEF UndoWal

LEMMA UndoCheckKeepsFiles ==
  ASSUME RestoreInv, FilesInv, UndoCheck
  PROVE  FilesInv'
<1> op \in Operations /\ disk \in Disk /\ op.pc = "undoCheck" /\ UNCHANGED life
  BY DEF RestoreInv, TypeOK, UndoCheck
<1>0. disk.active = op.base /\ op.base # None /\ (op.kind = "restore" => disk.kept[op.slot] = None)
  BY DEF FilesInv, BaseKept, InPlace
<1>1. CASE GotoAt("resume", Participants) /\ UNCHANGED disk
  <2>1. /\ op'.pc = "resume" /\ op'.slot = op.slot /\ op'.base = op.base
        /\ op'.moved = op.moved /\ op'.kind = op.kind
    BY <1>1, GotoFields, ConstantFacts DEF Steps
  <2> QED  BY <1>0, <1>1, <2>1 DEF FilesInv, BaseKept, LogKept, InPlace, Before
<1>2. CASE Ends(disk, "unsure")
  BY <1>0, <1>2, EndsKeepsFiles DEF FilesInv, LogKept
<1> QED  BY <1>1, <1>2 DEF UndoCheck

LEMMA ResumeKeepsFiles ==
  ASSUME RestoreInv, FilesInv, Resume
  PROVE  FilesInv'
<1> op \in Operations /\ disk \in Disk /\ op.pc = "resume"
  BY DEF RestoreInv, TypeOK, Resume
<1>0. disk.active = op.base /\ op.base # None /\ (op.kind = "restore" => disk.kept[op.slot] = None)
  BY DEF FilesInv, BaseKept, InPlace
<1>1. CASE \E result : Ends(disk, result)
  BY <1>0, <1>1, EndsKeepsFiles DEF FilesInv, LogKept
<1>2. CASE op.i > 0 /\ GotoAt("resume", op.i - 1) /\ UNCHANGED <<life, disk>>
  <2>1. /\ op'.pc = "resume" /\ op'.slot = op.slot /\ op'.base = op.base
        /\ op'.moved = op.moved /\ op'.kind = op.kind
    BY <1>2, GotoFields, ConstantFacts DEF Steps, Operations
  <2> QED  BY <1>0, <1>2, <2>1 DEF FilesInv, BaseKept, LogKept, InPlace, Before
<1> QED  BY <1>1, <1>2 DEF Resume

\* The cleanup of a restore that succeeded touches only what is kept beside the database.
LEMMA CleanupKeepsFiles ==
  ASSUME RestoreInv, FilesInv, Cleanup
  PROVE  FilesInv'
<1> op \in Operations /\ disk \in Disk /\ op.pc = "cleanup" /\ UNCHANGED life /\ life = "quiesced"
  BY DEF RestoreInv, TypeOK, Cleanup, Stopped, Exchange
<1>1. CASE disk' = [disk EXCEPT !.kept[op.slot] = None] /\ Goto("cleanWal")
  <2>1. op'.pc = "cleanWal" /\ op'.base = op.base
    BY <1>1, GotoFields DEF Steps
  <2>2. disk'.active = disk.active /\ disk'.wal = disk.wal
    BY <1>1 DEF Disk
  <2> QED  BY <2>1, <2>2 DEF FilesInv, BaseKept, LogKept, InPlace, Before
<1>2. CASE Ends(disk, "success")
  BY <1>2, EndsKeepsFiles DEF FilesInv, LogKept
<1> QED  BY <1>1, <1>2 DEF Cleanup

LEMMA CleanWalKeepsFiles ==
  ASSUME RestoreInv, FilesInv, CleanWal
  PROVE  FilesInv'
<1> op \in Operations /\ disk \in Disk /\ UNCHANGED life /\ life = "quiesced"
  BY DEF RestoreInv, TypeOK, CleanWal, Stopped, Exchange
<1> op.slot \in 1..Slots
  BY DEF Operations
<1> DEFINE files == [disk EXCEPT !.keptWal[op.slot] = None]
<1>1. files \in Disk /\ files.active = disk.active /\ files.wal = disk.wal
  BY ConstantFacts DEF Disk
<1> HIDE DEF files
<1>2. CASE Ends(files, "success")
  BY <1>1, <1>2, EndsKeepsFiles DEF FilesInv, LogKept
<1>3. CASE Ends(disk, "success")
  BY <1>3, EndsKeepsFiles DEF FilesInv, LogKept
<1> USE DEF files
<1> QED  BY <1>2, <1>3 DEF CleanWal

\* The program that starts again finds a database, or creates one.
LEMMA RestartKeepsFiles ==
  ASSUME RestoreInv, FilesInv, Restart
  PROVE  FilesInv'
<1>1. op'.pc = "idle" /\ ~op'.moved
  BY DEF Restart, RestoreInv, TypeOK, Operations
<1>2. disk'.active # None /\ disk'.wal \in {disk'.active, None}
  BY ConstantFacts DEF Restart, RestoreInv, TypeOK, Disk, FilesInv, LogKept
<1> QED  BY <1>1, <1>2 DEF FilesInv, BaseKept, LogKept, InPlace, Before

LEMMA FilesStep ==
  ASSUME RestoreInv, FilesInv, [Next]_vars
  PROVE  FilesInv'
<1>1. CASE \E p \in Owners : Submit(p) \/ RunJob(p)
  BY <1>1, SubmitKeepsFiles, RunJobKeepsFiles
<1>2. CASE \E c \in Candidates : StartRestore(c)
  BY <1>2, StartRestoreKeepsFiles
<1>3. CASE UNCHANGED vars
  BY <1>3 DEF vars, FilesInv, BaseKept, LogKept
<1>4. CASE Backup
  BY <1>4, BackupKeepsFiles
<1>5. CASE Quiesce
  BY <1>5, QuiesceKeepsFiles
<1>6. CASE BlockNewWork
  BY <1>6, BlockNewWorkKeepsFiles
<1>7. CASE Drain
  BY <1>7, DrainKeepsFiles
<1>8. CASE CloseConnections
  BY <1>8, CloseConnectionsKeepsFiles
<1>9. CASE Abort
  BY <1>9, AbortKeepsFiles
<1>10. CASE MoveActive
  BY <1>10, MoveActiveKeepsFiles
<1>11. CASE MoveWal
  BY <1>11, MoveWalKeepsFiles
<1>12. CASE Install
  BY <1>12, InstallKeepsFiles
<1>13. CASE Validate
  BY <1>13, ValidateKeepsFiles
<1>14. CASE Undo
  BY <1>14, UndoKeepsFiles
<1>15. CASE UndoWal
  BY <1>15, UndoWalKeepsFiles
<1>16. CASE UndoCheck
  BY <1>16, UndoCheckKeepsFiles
<1>17. CASE Resume
  BY <1>17, ResumeKeepsFiles
<1>18. CASE Cleanup
  BY <1>18, CleanupKeepsFiles
<1>19. CASE CleanWal
  BY <1>19, CleanWalKeepsFiles
<1>20. CASE Vacuum
  BY <1>20, VacuumKeepsFiles
<1>21. CASE Restart
  BY <1>21, RestartKeepsFiles
<1>22. CASE StartMaintenance
  BY <1>22, StartMaintenanceKeepsFiles
<1>23. CASE Checkpoint
  BY <1>23, CheckpointKeepsFiles
<1> QED  BY <1>1, <1>2, <1>3, <1>4, <1>5, <1>6, <1>7, <1>8, <1>9, <1>10, <1>11, <1>12, <1>13, <1>14, <1>15, <1>16, <1>17, <1>18, <1>19, <1>20, <1>21, <1>22, <1>23
          DEF Next, Persistence, Step

LEMMA FilesInit == Init => FilesInv
BY RestoreAssumption DEF Init, FilesInv, BaseKept, LogKept, InPlace, Before, None

\* Every reachable state keeps the files as the steps of the exchange expect them.
THEOREM FilesInvariant == Spec => []FilesInv
<1>1. RestoreInv /\ FilesInv /\ [Next]_vars => FilesInv'
  BY FilesStep
<1> QED  BY <1>1, FilesInit, RestoreInvariant, PTL DEF Spec
----------------------------------------------------------------------------
(* What a step does to the database and the log the operation started from. *)

\* Where they are before the step.
LEMMA BaseIsSomewhere ==
  ASSUME RestoreInv, FilesInv, op.pc \notin {"idle", "cleanup", "cleanWal"}
  PROVE  /\ disk.active = op.base \/ disk.kept[op.slot] = op.base
         /\ op.moved => op.pc \in {"undoCheck", "resume"} \/ disk.keptWal[op.slot] = op.base
BY DEF RestoreInv, TypeOK, Operations, Steps, FilesInv, BaseKept, LogKept, InPlace, Before

KeptHere(files) == /\ OnDisk(op.base, files)
                   /\ op.moved => LogOnDisk(op.base, files) \/ op.pc \in {"undoCheck", "resume"}
KeepsFiles ==
  op.pc \notin {"idle", "cleanup", "cleanWal"} /\ op.base # None => KeptHere(disk')

LEMMA SameKeepsHere ==
  ASSUME RestoreInv, FilesInv, disk'.active = disk.active \/ disk.active = None,
         disk'.kept = disk.kept, disk'.keptWal = disk.keptWal
  PROVE  KeepsFiles
<1> SUFFICES ASSUME op.pc \notin {"idle", "cleanup", "cleanWal"}, op.base # None
             PROVE  KeptHere(disk')
  BY DEF KeepsFiles
<1> op.slot \in 1..Slots
  BY DEF RestoreInv, TypeOK, Operations
<1> QED  BY BaseIsSomewhere DEF KeptHere, OnDisk, LogOnDisk

LEMMA EndsKeepsHere ==
  ASSUME RestoreInv, FilesInv, NEW files \in Disk, NEW result, Ends(files, result),
         files.active = disk.active, files.kept = disk.kept, files.keptWal = disk.keptWal
  PROVE  KeepsFiles
<1>1. disk'.active = disk.active /\ disk'.kept = disk.kept /\ disk'.keptWal = disk.keptWal
  BY EndsFields DEF RestoreInv, TypeOK
<1> QED  BY <1>1, SameKeepsHere

\* The steps that leave the files alone, or only end the operation.
LEMMA OtherKeepsHere ==
  ASSUME RestoreInv, FilesInv,
         \/ UNCHANGED disk
         \/ \E result : Ends(disk, result)
         \/ \E d \in Files : disk' = [disk EXCEPT !.wal = d]
         \/ \E d \in Files : disk' = [disk EXCEPT !.staged = d]
  PROVE  KeepsFiles
<1> disk \in Disk
  BY DEF RestoreInv, TypeOK
<1>1. CASE UNCHANGED disk
  BY <1>1, SameKeepsHere
<1>2. CASE \E result : Ends(disk, result)
  BY <1>2, EndsKeepsHere
<1>3. CASE (\E d \in Files : disk' = [disk EXCEPT !.wal = d]) \/ \E d \in Files : disk' = [disk EXCEPT !.staged = d]
  <2>1. disk'.active = disk.active /\ disk'.kept = disk.kept /\ disk'.keptWal = disk.keptWal
    BY <1>3 DEF Disk
  <2> QED  BY <2>1, SameKeepsHere
<1> QED  BY <1>1, <1>2, <1>3

LEMMA MoveActiveKeepsHere ==
  ASSUME RestoreInv, FilesInv, MoveActive
  PROVE  KeepsFiles
<1> disk \in Disk /\ op.slot \in 1..Slots /\ op.pc = "move"
  BY DEF RestoreInv, TypeOK, Operations, MoveActive
<1>1. CASE disk' = [disk EXCEPT !.kept[op.slot] = disk.active, !.active = None]
  <2>1. disk'.kept[op.slot] = disk.active /\ disk.active = op.base /\ ~op.moved
    BY <1>1 DEF Disk, FilesInv, BaseKept, LogKept, InPlace, Before
  <2> QED  BY <2>1 DEF KeepsFiles, KeptHere, OnDisk
<1> QED  BY <1>1, OtherKeepsHere DEF MoveActive

LEMMA MoveWalKeepsHere ==
  ASSUME RestoreInv, FilesInv, MoveWal
  PROVE  KeepsFiles
<1> disk \in Disk /\ op.slot \in 1..Slots /\ op.pc = "moveWal"
  BY DEF RestoreInv, TypeOK, Operations, MoveWal
<1>1. CASE disk' = [disk EXCEPT !.keptWal[op.slot] = disk.wal, !.wal = None]
  <2>1. disk'.kept = disk.kept /\ disk.kept[op.slot] = op.base /\ ~op.moved
    BY <1>1 DEF Disk, FilesInv, BaseKept, LogKept
  <2> QED  BY <2>1 DEF KeepsFiles, KeptHere, OnDisk
<1> QED  BY <1>1, OtherKeepsHere DEF MoveWal

LEMMA InstallKeepsHere ==
  ASSUME RestoreInv, FilesInv, Install
  PROVE  KeepsFiles
<1> disk \in Disk /\ op.slot \in 1..Slots /\ op.pc = "install"
  BY DEF RestoreInv, TypeOK, Operations, Install
<1>1. CASE disk' = [disk EXCEPT !.active = disk.staged, !.staged = None]
  <2>1. /\ disk'.kept = disk.kept /\ disk.kept[op.slot] = op.base
        /\ disk'.keptWal = disk.keptWal /\ (op.moved => disk.keptWal[op.slot] = op.base)
    BY <1>1 DEF Disk, FilesInv, BaseKept, LogKept
  <2> QED  BY <2>1 DEF KeepsFiles, KeptHere, OnDisk, LogOnDisk
<1> QED  BY <1>1, OtherKeepsHere DEF Install

LEMMA UndoKeepsHere ==
  ASSUME RestoreInv, FilesInv, Undo
  PROVE  KeepsFiles
<1> disk \in Disk /\ op.slot \in 1..Slots /\ op.pc = "undo"
  BY DEF RestoreInv, TypeOK, Operations, Undo
<1>0. disk.kept[op.slot] = op.base /\ (op.moved => disk.keptWal[op.slot] = op.base)
  BY DEF FilesInv, BaseKept, LogKept
<1> DEFINE files == [disk EXCEPT !.wal = IF op.installed THEN None ELSE @]
<1>1. CASE disk' = [disk EXCEPT !.active = disk.kept[op.slot], !.kept[op.slot] = None,
                                !.wal = IF op.installed THEN None ELSE @]
  <2>1. disk'.active = op.base /\ disk'.keptWal = disk.keptWal
    BY <1>0, <1>1 DEF Disk
  <2> QED  BY <1>0, <2>1 DEF KeepsFiles, KeptHere, OnDisk, LogOnDisk
<1>2. files \in Disk /\ files.active = disk.active /\ files.kept = disk.kept /\ files.keptWal = disk.keptWal
  BY ConstantFacts DEF Disk
<1> HIDE DEF files
<1>3. CASE Ends(files, "unsure")
  BY <1>2, <1>3, EndsKeepsHere
<1> USE DEF files
<1> QED  BY <1>1, <1>3 DEF Undo

LEMMA UndoWalKeepsHere ==
  ASSUME RestoreInv, FilesInv, UndoWal
  PROVE  KeepsFiles
<1> disk \in Disk /\ op.slot \in 1..Slots /\ op.pc = "undoWal"
  BY DEF RestoreInv, TypeOK, Operations, UndoWal
<1>1. CASE op.moved /\ disk' = [disk EXCEPT !.wal = disk.keptWal[op.slot], !.keptWal[op.slot] = None]
  <2>1. disk'.active = op.base /\ disk'.wal = op.base
    BY <1>1 DEF Disk, FilesInv, BaseKept, LogKept, InPlace
  <2> QED  BY <2>1 DEF KeepsFiles, KeptHere, OnDisk, LogOnDisk
<1> QED  BY <1>1, OtherKeepsHere DEF UndoWal

LEMMA RestartKeepsHere ==
  ASSUME RestoreInv, FilesInv, Restart
  PROVE  KeepsFiles
<1>1. /\ disk'.active = disk.active \/ disk.active = None
      /\ disk'.kept = disk.kept /\ disk'.keptWal = disk.keptWal
  BY DEF Restart, RestoreInv, TypeOK, Disk
<1> QED  BY <1>1, SameKeepsHere

LEMMA KeptStep ==
  ASSUME RestoreInv, FilesInv, [Next]_vars
  PROVE  KeepsFiles
<1>0. None \in Files /\ Candidates \subseteq Files /\ disk.active \in Files
  BY ConstantFacts DEF RestoreInv, TypeOK, Disk
<1>1. CASE Persistence \/ \E c \in Candidates : StartRestore(c)
  BY <1>0, <1>1, OtherKeepsHere DEF Persistence, Submit, RunJob, Checkpoint, StartRestore
<1>2. CASE \/ StartMaintenance \/ BlockNewWork \/ Drain \/ CloseConnections \/ Validate \/ Vacuum
           \/ UNCHANGED vars
  BY <1>2, OtherKeepsHere DEF StartMaintenance, BlockNewWork, Drain, CloseConnections, Validate,
     Vacuum, vars
<1>3. CASE Backup \/ Quiesce \/ Abort \/ UndoCheck \/ Resume
  BY <1>3, OtherKeepsHere DEF Backup, Quiesce, Abort, UndoCheck, Resume
<1>4. CASE MoveActive \/ MoveWal \/ Install \/ Undo \/ UndoWal \/ Restart
  BY <1>4, MoveActiveKeepsHere, MoveWalKeepsHere, InstallKeepsHere, UndoKeepsHere, UndoWalKeepsHere,
     RestartKeepsHere
<1>5. CASE Cleanup \/ CleanWal
  BY <1>5 DEF Cleanup, CleanWal, KeepsFiles
<1> QED  BY <1>1, <1>2, <1>3, <1>4, <1>5 DEF Next, Step

\* restore_commit.py: whatever step of the exchange or of its rollback fails, and wherever
\* the process ends, the database the operation started from and the log moved with it are
\* on the disk until another database is installed and validated.
THEOREM DatabaseIsKept == Spec => KeptUntilVerified
<1>1. RestoreInv /\ FilesInv /\ [Next]_vars => KeepsFiles
  BY KeptStep
<1>2. RestoreInv /\ FilesInv /\ [Next]_vars => [KeepsFiles]_vars
  BY <1>1
<1>3. [][KeepsFiles]_vars => KeptUntilVerified
  <2>1. [KeepsFiles]_vars => [op.pc \notin {"idle", "cleanup", "cleanWal"} /\ op.base # None
          => /\ OnDisk(op.base, disk')
             /\ op.moved => LogOnDisk(op.base, disk') \/ op.pc \in {"undoCheck", "resume"}]_vars
    BY DEF KeepsFiles, KeptHere
  <2> QED  BY <2>1, PTL DEF KeptUntilVerified
<1> QED  BY <1>2, <1>3, RestoreInvariant, FilesInvariant, PTL DEF Spec
----------------------------------------------------------------------------
(* A restore that ends as failed. *)

Undone == /\ disk'.active = op.base /\ disk'.kept[op.slot] = None
          /\ op.moved => disk'.wal \in {op.base, None} /\ disk'.keptWal[op.slot] = None
FailsClean ==
  op.pc # "idle" /\ op'.pc = "idle" /\ op.kind = "restore" /\ op'.result = "failed" => Undone

\* The four ends of that kind come before the exchange or after its rollback.
LEMMA EndsClean ==
  ASSUME RestoreInv, FilesInv, op.pc \in {"backup", "quiesce", "abort", "resume"},
         NEW result, Ends(disk, result)
  PROVE  FailsClean
<1>1. /\ disk'.active = disk.active /\ disk'.wal = disk.wal
      /\ disk'.kept = disk.kept /\ disk'.keptWal = disk.keptWal
  BY EndsFields DEF RestoreInv, TypeOK
<1>2. disk.active = op.base /\ (op.kind = "restore" => disk.kept[op.slot] = None)
  BY DEF FilesInv, BaseKept, InPlace, Before
<1>3. op.moved => disk.wal \in {op.base, None} /\ disk.keptWal[op.slot] = None
  BY <1>2 DEF FilesInv, BaseKept, LogKept, Before
<1> QED  BY <1>1, <1>2, <1>3 DEF FailsClean, Undone

\* All others say that they succeeded, or that the rollback gave up.
LEMMA EndsOtherwise ==
  ASSUME RestoreInv, NEW files \in Disk, NEW result, result # "failed", Ends(files, result)
  PROVE  FailsClean
<1>1. op'.result = result
  BY EndsFields DEF RestoreInv, TypeOK
<1> QED  BY <1>1 DEF FailsClean

LEMMA GoesOn ==
  ASSUME RestoreInv, \/ \E pc \in Steps \ {"idle"} : Goto(pc)
                     \/ \E pc \in Steps \ {"idle"}, i \in 0..Participants : GotoAt(pc, i)
  PROVE  FailsClean
<1>1. op'.pc # "idle"
  BY GotoFields DEF RestoreInv, TypeOK
<1> QED  BY <1>1 DEF FailsClean

LEMMA CleanStep ==
  ASSUME RestoreInv, FilesInv, [Next]_vars
  PROVE  FailsClean
<1> op \in Operations /\ disk \in Disk
  BY DEF RestoreInv, TypeOK
<1> op.slot \in 1..Slots /\ op.i \in 0..Participants
  BY DEF Operations
<1>1. CASE Persistence \/ UNCHANGED vars
  BY <1>1 DEF Persistence, Submit, RunJob, Checkpoint, vars, FailsClean
<1>2. CASE StartMaintenance \/ \E c \in Candidates : StartRestore(c)
  BY <1>2 DEF StartMaintenance, StartRestore, FailsClean
<1>3. CASE Restart
  BY <1>3 DEF Restart, Operations, FailsClean
<1>4. CASE Backup
  BY <1>4, EndsClean, GoesOn DEF Backup, Steps
<1>5. CASE Quiesce
  BY <1>5, EndsClean, GoesOn, ConstantFacts DEF Quiesce, Work, Steps
<1>6. CASE Abort
  BY <1>6, EndsClean, GoesOn, ConstantFacts DEF Abort, Steps
<1>7. CASE Resume
  BY <1>7, EndsClean, GoesOn, ConstantFacts DEF Resume, Steps
<1>8. CASE BlockNewWork
  BY <1>8, GoesOn, ConstantFacts DEF BlockNewWork, Steps, RestoreInv, Stopping, Owners
<1>9. CASE Drain \/ CloseConnections \/ Vacuum \/ Validate \/ MoveActive
  BY <1>9, GoesOn, ConstantFacts DEF Drain, CloseConnections, Vacuum, Validate, MoveActive, Steps, Work
<1>10. CASE MoveWal \/ Install
  <2>1. CASE op'.pc # "idle"
    BY <2>1 DEF FailsClean
  <2> QED  BY <1>10, <2>1, GoesOn DEF MoveWal, Install, Steps, Operations
<1>11. CASE Undo
  <2> DEFINE files == [disk EXCEPT !.wal = IF op.installed THEN None ELSE @]
  <2>1. files \in Disk
    BY ConstantFacts DEF Disk
  <2> HIDE DEF files
  <2>2. CASE Ends(files, "unsure")
    BY <2>1, <2>2, EndsOtherwise
  <2> USE DEF files
  <2> QED  BY <1>11, <2>2, GoesOn DEF Undo, Steps
<1>12. CASE UndoWal \/ UndoCheck
  BY <1>12, EndsOtherwise, GoesOn, ConstantFacts DEF UndoWal, UndoCheck, Steps
<1>13. CASE Cleanup
  BY <1>13, EndsOtherwise, GoesOn DEF Cleanup, Steps
<1>14. CASE CleanWal
  <2> DEFINE files == [disk EXCEPT !.keptWal[op.slot] = None]
  <2>1. files \in Disk
    BY ConstantFacts DEF Disk
  <2> HIDE DEF files
  <2>2. CASE Ends(files, "success") \/ Ends(disk, "success")
    BY <2>1, <2>2, EndsOtherwise
  <2> USE DEF files
  <2> QED  BY <1>14, <2>2 DEF CleanWal
<1> QED  BY <1>1, <1>2, <1>3, <1>4, <1>5, <1>6, <1>7, <1>8, <1>9, <1>10, <1>11, <1>12, <1>13, <1>14
          DEF Next, Step

\* restore_pipeline.py: a restore that reports a failure left the party's database in
\* place, what was moved away is back with its log, and nothing of it stays beside it.
THEOREM FailureIsUndone == Spec => FailureRestoresAll
<1>1. RestoreInv /\ FilesInv /\ [Next]_vars => [FailsClean]_vars
  BY CleanStep
<1>2. [][FailsClean]_vars => FailureRestoresAll
  <2>1. [FailsClean]_vars =>
          [op.pc # "idle" /\ op'.pc = "idle" /\ op.kind = "restore" /\ op'.result = "failed"
             => /\ disk'.active = op.base /\ disk'.kept[op.slot] = None
                /\ op.moved => disk'.wal \in {op.base, None} /\ disk'.keptWal[op.slot] = None]_vars
    BY DEF FailsClean, Undone
  <2> QED  BY <2>1, PTL DEF FailureRestoresAll
<1> QED  BY <1>1, <1>2, RestoreInvariant, FilesInvariant, PTL DEF Spec
=============================================================================
