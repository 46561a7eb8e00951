--------------------------- MODULE DatabaseRestore ---------------------------
(***************************************************************************)
(* Replacing the database of the running program: restore_pipeline.py,     *)
(* restore_lifecycle.py and restore_commit.py, with the destructive        *)
(* maintenance of database_maintenance.py, which stops the program's       *)
(* persistence through the same lifecycle adapter.  One operation runs at  *)
(* a time, on the backup-restore worker.  It blocks, drains and closes     *)
(* every participant, exchanges the files one rename after the other, and  *)
(* takes everything back when a step fails.                                *)
(*                                                                         *)
(* A database is a member of Databases: what matters is which one a file   *)
(* holds.  A write-ahead log is named by the database its frames belong    *)
(* to.  The participants run jobs; BoundedExecutor details one of them.    *)
(***************************************************************************)
EXTENDS Naturals, FiniteSets

CONSTANTS Participants,   \* the number of them, in the order of the adapter
          Original,       \* the database of the party
          Candidates,     \* the archives it may be replaced from
          Slots,          \* bound: rollback files that can be left behind
          Maintenance, Crashes   \* whether they happen in this instance

None == "none"
Fresh == "fresh"          \* what the program creates when it finds no database

ASSUME RestoreAssumption ==
  /\ Participants \in Nat \ {0} /\ Slots \in Nat \ {0}
  /\ Original \notin Candidates /\ {None, Fresh} \cap (Candidates \cup {Original}) = {}
  /\ Maintenance \in BOOLEAN /\ Crashes \in BOOLEAN

VARIABLES life,   \* RestoreLifecycleAdapter._state between two calls
          open,   \* which participants accept work
          job,    \* which participants have a job queued or running
          disk,   \* the files of the database's directory
          op,     \* the operation on the backup-restore worker
          born    \* the database this process was started on

vars == <<life, open, job, disk, op, born>>

Owners == 1..Participants
Databases == Candidates \cup {Original, Fresh}
Files == Databases \cup {None}
Disk == [active : Files, wal : Files, staged : Files,
         kept : [1..Slots -> Files], keptWal : [1..Slots -> Files]]

Steps == {"idle", "backup", "quiesce", "block", "drain", "close", "abort", "move", "moveWal",
          "install", "validate", "undo", "undoWal", "undoCheck", "resume", "cleanup", "cleanWal",
          "vacuum"}
Results == {"none", "success", "failed", "unsure", "done"}
Operations == [pc : Steps, kind : {"restore", "maintenance"}, i : 0..Participants,
               slot : 1..Slots, base : Files, moved : BOOLEAN, installed : BOOLEAN,
               result : Results]

Exchange == {"move", "moveWal", "install", "validate", "undo", "undoWal", "undoCheck",
             "cleanup", "cleanWal", "vacuum"}

Goto(pc) == op' = [op EXCEPT !.pc = pc]
GotoAt(pc, i) == op' = [op EXCEPT !.pc = pc, !.i = i]

Init ==
  /\ life = "active"
  /\ open = [p \in Owners |-> TRUE] /\ job = [p \in Owners |-> FALSE]
  /\ disk = [active |-> Original, wal |-> None, staged |-> None,
             kept |-> [s \in 1..Slots |-> None], keptWal |-> [s \in 1..Slots |-> None]]
  /\ op = [pc |-> "idle", kind |-> "restore", i |-> 0, slot |-> 1, base |-> None,
           moved |-> FALSE, installed |-> FALSE, result |-> "none"]
  /\ born = Original
----------------------------------------------------------------------------
(* The program's persistence.                                              *)

Submit(p) == /\ open[p] /\ ~job[p]
             /\ job' = [job EXCEPT ![p] = TRUE]
             /\ UNCHANGED <<life, open, disk, op, born>>

\* The job commits to whatever database the path names; its frames may stay in the log.
RunJob(p) == /\ job[p]
             /\ job' = [job EXCEPT ![p] = FALSE]
             /\ disk' = [disk EXCEPT !.wal = disk.active]
             /\ UNCHANGED <<life, open, op, born>>

\* SQLite: the last connection that closes takes the log into the database.
Checkpoint == /\ disk.wal = disk.active /\ disk.wal # None
              /\ disk' = [disk EXCEPT !.wal = None]
              /\ UNCHANGED <<life, open, job, op, born>>
----------------------------------------------------------------------------
(* The operation: what precedes the exchange.                              *)

\* The end of an operation; a restore removes its staging file unless it is still needed.
Ends(files, result) ==
  /\ disk' = [files EXCEPT !.staged =
                IF op.kind = "maintenance" \/ result = "unsure" THEN @ ELSE None]
  /\ op' = [op EXCEPT !.pc = "idle", !.i = 0, !.moved = FALSE, !.installed = FALSE, !.result = result]

\* _available_rollback_path: only the database file is looked for.  One operation runs
\* at a time, so the name can be chosen when it starts.
AvailableSlot(s) == disk.kept[s] = None /\ \A x \in 1..Slots : x < s => disk.kept[x] # None

\* execute: the candidate is staged, replacing what an earlier one left.  Restoring the
\* database that is already in place is left out: the files could not be told apart.
StartRestore(c) ==
  /\ op.pc = "idle" /\ c # disk.active
  /\ disk' = [disk EXCEPT !.staged = c]
  /\ \E s \in 1..Slots :
       /\ AvailableSlot(s)
       /\ op' = [op EXCEPT !.pc = "backup", !.kind = "restore", !.slot = s, !.base = disk.active,
                              !.result = "none"]
  /\ UNCHANGED <<life, open, job, born>>

StartMaintenance ==
  /\ Maintenance /\ op.pc = "idle" /\ disk.active # None
  /\ op' = [op EXCEPT !.pc = "backup", !.kind = "maintenance", !.base = disk.active,
                         !.result = "none"]
  /\ UNCHANGED <<life, open, job, disk, born>>

\* The safety backup, a snapshot of the live database, and the preconditions of
\* commit; without a database there is no backup, and the archive, the space or the
\* safety gate may forbid the rest.
Backup ==
  /\ op.pc = "backup"
  /\ \/ /\ disk.active # None
        /\ Goto("quiesce")
        /\ UNCHANGED disk
     \/ Ends(disk, "failed")
  /\ UNCHANGED <<life, open, job, born>>

Work == IF op.kind = "restore" THEN "move" ELSE "vacuum"

\* quiesce: a second call finds the participants still stopped, a failed adapter
\* stays failed.
Quiesce ==
  /\ op.pc = "quiesce"
  /\ \/ life = "quiesced" /\ Goto(Work) /\ UNCHANGED <<life, disk>>
     \/ life = "failed" /\ Ends(disk, "failed") /\ UNCHANGED life
     \/ life = "active" /\ life' = "quiescing" /\ GotoAt("block", 1) /\ UNCHANGED disk
  /\ UNCHANGED <<open, job, born>>

\* Variant: the loop runs one participant too far.
BlockOneTooMany ==
  /\ op.pc = "block"
  /\ \/ /\ open' = [p \in Owners |-> open[p] /\ p # op.i]
        /\ IF op.i > Participants THEN GotoAt("drain", 1) ELSE GotoAt("block", op.i + 1)
     \/ GotoAt("abort", op.i - 1) /\ UNCHANGED open
  /\ UNCHANGED <<life, job, disk, born>>

\* Each phase goes through all participants; a failure leads to abort, from the last
\* participant that was blocked.
BlockNewWork ==
  /\ op.pc = "block"
  /\ \/ /\ open' = [open EXCEPT ![op.i] = FALSE]
        /\ IF op.i = Participants THEN GotoAt("drain", 1) ELSE GotoAt("block", op.i + 1)
     \/ GotoAt("abort", op.i - 1) /\ UNCHANGED open
  /\ UNCHANGED <<life, job, disk, born>>

\* Variant: the time is up, the phase goes on.
DrainAtMost ==
  /\ op.pc = "drain"
  /\ IF op.i = Participants THEN GotoAt("close", 1) ELSE GotoAt("drain", op.i + 1)
  /\ UNCHANGED <<life, open, job, disk, born>>

\* Until the participant has no job, or until the deadline of all of them.
Drain ==
  /\ op.pc = "drain"
  /\ \/ /\ ~job[op.i]
        /\ IF op.i = Participants THEN GotoAt("close", 1) ELSE GotoAt("drain", op.i + 1)
     \/ GotoAt("abort", Participants)
  /\ UNCHANGED <<life, open, job, disk, born>>

CloseConnections ==
  /\ op.pc = "close"
  /\ \/ op.i < Participants /\ GotoAt("close", op.i + 1) /\ UNCHANGED life
     \/ op.i = Participants /\ life' = "quiesced" /\ Goto(Work)
     \/ GotoAt("abort", Participants) /\ UNCHANGED life
  /\ UNCHANGED <<open, job, disk, born>>

\* Variant: the aborted quiesce forgets whom it had blocked.
AbortAtOnce ==
  /\ op.pc = "abort"
  /\ life' = "active" /\ Ends(disk, "failed")
  /\ UNCHANGED <<open, job, born>>

\* _fail_and_resume: the first participant that refuses ends the row.
Abort ==
  /\ op.pc = "abort"
  /\ \/ op.i = 0 /\ life' = "active" /\ Ends(disk, "failed") /\ UNCHANGED open
     \/ /\ op.i > 0
        /\ open' = [open EXCEPT ![op.i] = TRUE] /\ GotoAt("abort", op.i - 1)
        /\ UNCHANGED <<life, disk>>
     \/ op.i > 0 /\ life' = "failed" /\ Ends(disk, "failed") /\ UNCHANGED open
  /\ UNCHANGED <<job, born>>
----------------------------------------------------------------------------
(* commit: the exchange, its rollback and the cleanup.                     *)

MoveActive ==
  /\ op.pc = "move"
  /\ \/ /\ disk.active # None
        /\ disk' = [disk EXCEPT !.kept[op.slot] = disk.active, !.active = None]
        /\ Goto("moveWal")
     \/ GotoAt("resume", Participants) /\ UNCHANGED disk
  /\ UNCHANGED <<life, open, job, born>>

MoveWal ==
  /\ op.pc = "moveWal"
  /\ \/ disk.wal = None /\ Goto("install") /\ UNCHANGED disk
     \/ /\ disk.wal # None
        /\ disk' = [disk EXCEPT !.keptWal[op.slot] = disk.wal, !.wal = None]
        /\ op' = [op EXCEPT !.pc = "install", !.moved = TRUE]
     \/ disk.wal # None /\ Goto("undo") /\ UNCHANGED disk
  /\ UNCHANGED <<life, open, job, born>>

Install ==
  /\ op.pc = "install"
  /\ \/ /\ disk' = [disk EXCEPT !.active = disk.staged, !.staged = None]
        /\ op' = [op EXCEPT !.pc = "validate", !.installed = TRUE]
     \/ Goto("undo") /\ UNCHANGED disk
  /\ UNCHANGED <<life, open, job, born>>

\* Variant: the rollback files go before the candidate is validated.
ValidateLater ==
  /\ op.pc = "validate"
  /\ \/ Goto("cleanup") /\ UNCHANGED disk
     \/ Goto("undo") /\ disk' = [disk EXCEPT !.kept[op.slot] = None]
  /\ UNCHANGED <<life, open, job, born>>

Validate ==
  /\ op.pc = "validate"
  /\ Goto("cleanup") \/ Goto("undo")
  /\ UNCHANGED <<life, open, job, disk, born>>

\* _rollback, in two renames; a step that fails leaves the participants stopped.
Undo ==
  /\ op.pc = "undo"
  /\ \/ /\ disk' = [disk EXCEPT !.active = disk.kept[op.slot], !.kept[op.slot] = None,
                                !.wal = IF op.installed THEN None ELSE @]
        /\ Goto("undoWal")
     \/ Ends([disk EXCEPT !.wal = IF op.installed THEN None ELSE @], "unsure")
  /\ UNCHANGED <<life, open, job, born>>

\* Variant: the sidecar stays with the rollback file.
UndoWalForgotten ==
  /\ op.pc = "undoWal" /\ Goto("undoCheck")
  /\ UNCHANGED <<life, open, job, disk, born>>

UndoWal ==
  /\ op.pc = "undoWal"
  /\ \/ ~op.moved /\ Goto("undoCheck") /\ UNCHANGED disk
     \/ /\ op.moved
        /\ disk' = [disk EXCEPT !.wal = disk.keptWal[op.slot], !.keptWal[op.slot] = None]
        /\ Goto("undoCheck")
     \/ op.moved /\ Ends(disk, "unsure")
  /\ UNCHANGED <<life, open, job, born>>

UndoCheck ==
  /\ op.pc = "undoCheck"
  /\ \/ GotoAt("resume", Participants) /\ UNCHANGED disk
     \/ Ends(disk, "unsure")
  /\ UNCHANGED <<life, open, job, born>>

\* resume_after_rollback, of a restore that failed or of a maintenance that is done.
Resume ==
  /\ op.pc = "resume"
  /\ \/ /\ op.i = 0 /\ life' = "active"
        /\ Ends(disk, IF op.kind = "restore" THEN "failed" ELSE "done") /\ UNCHANGED open
     \/ /\ op.i > 0
        /\ open' = [open EXCEPT ![op.i] = TRUE] /\ GotoAt("resume", op.i - 1)
        /\ UNCHANGED <<life, disk>>
     \/ op.i > 0 /\ life' = "failed" /\ Ends(disk, "failed") /\ UNCHANGED open
  /\ UNCHANGED <<job, born>>

\* _cleanup_rollback; what it cannot remove stays, the restore is a success anyway.
Cleanup ==
  /\ op.pc = "cleanup"
  /\ \/ disk' = [disk EXCEPT !.kept[op.slot] = None] /\ Goto("cleanWal")
     \/ Ends(disk, "success")
  /\ UNCHANGED <<life, open, job, born>>

CleanWal ==
  /\ op.pc = "cleanWal"
  /\ \/ op.moved /\ Ends([disk EXCEPT !.keptWal[op.slot] = None], "success")
     \/ Ends(disk, "success")
  /\ UNCHANGED <<life, open, job, born>>

\* VACUUM or REINDEX; SQLite makes it atomic.
Vacuum ==
  /\ op.pc = "vacuum" /\ GotoAt("resume", Participants)
  /\ UNCHANGED <<life, open, job, disk, born>>
----------------------------------------------------------------------------
\* The process ends, by a crash or because the operator restarts it, and is started
\* again: a missing database is created, a log left beside it is dropped by SQLite.
Restart ==
  /\ Crashes \/ op.pc = "idle"
  /\ disk' = IF disk.active # None THEN disk ELSE [disk EXCEPT !.active = Fresh, !.wal = None]
  /\ born' = disk'.active
  /\ life' = "active"
  /\ open' = [p \in Owners |-> TRUE] /\ job' = [p \in Owners |-> FALSE]
  /\ op' = [op EXCEPT !.pc = "idle", !.i = 0, !.moved = FALSE, !.installed = FALSE, !.result = "none"]

Persistence == Checkpoint \/ \E p \in Owners : Submit(p) \/ RunJob(p)

Step == \/ Backup \/ Quiesce \/ BlockNewWork \/ Drain \/ CloseConnections \/ Abort
        \/ MoveActive \/ MoveWal \/ Install \/ Validate \/ Undo \/ UndoWal \/ UndoCheck
        \/ Resume \/ Cleanup \/ CleanWal \/ Vacuum

Next == Persistence \/ Step \/ StartMaintenance \/ Restart \/ \E c \in Candidates : StartRestore(c)

Spec == Init /\ [][Next]_vars

\* The worker goes on; every call it makes has a timeout.  Jobs need not end.
FairSpec == Spec /\ WF_vars(Step)
----------------------------------------------------------------------------
TypeOK ==
  /\ life \in {"active", "quiescing", "quiesced", "failed"}
  /\ open \in [Owners -> BOOLEAN] /\ job \in [Owners -> BOOLEAN]
  /\ disk \in Disk /\ op \in Operations
  /\ born \in Databases

\* While files are exchanged or rewritten no participant accepts or runs a job, also
\* when the adapter was quiesced by an earlier operation.
QuietExchange == op.pc \in Exchange => \A p \in Owners : ~open[p] /\ ~job[p]

\* The adapter calls itself active only while every participant accepts work.
ActiveMeansOpen == life = "active" => \A p \in Owners : open[p]

\* The database in place when an operation starts, and the log that was moved with it,
\* leave the disk only once another database has been installed and validated; a crash
\* and a rollback that gives up included.
OnDisk(d, files) == files.active = d \/ \E s \in 1..Slots : files.kept[s] = d
LogOnDisk(d, files) == files.wal = d \/ \E s \in 1..Slots : files.keptWal[s] = d
KeptUntilVerified ==
  [][op.pc \notin {"idle", "cleanup", "cleanWal"} /\ op.base # None
       => /\ OnDisk(op.base, disk')
          /\ op.moved => LogOnDisk(op.base, disk') \/ op.pc \in {"undoCheck", "resume"}]_vars

\* A restore that failed left the database as it was: what it moved away is back, with
\* its log, and nothing of it is left beside it.
FailureRestoresAll ==
  [][op.pc # "idle" /\ op'.pc = "idle" /\ op.kind = "restore" /\ op'.result = "failed"
       => /\ disk'.active = op.base /\ disk'.kept[op.slot] = None
          /\ op.moved => disk'.wal \in {op.base, None} /\ disk'.keptWal[op.slot] = None]_vars

\* The program is started on the party's database or on one that was restored.
AlwaysSomeDatabase == born # Fresh

\* Once the program's persistence is being stopped, all of it goes on, or the operator
\* learns that it does not: a failed adapter, a restart that is due, a rollback that gave up.
StoppedGoesOn ==
  life = "quiescing"
    ~> life = "failed" \/ (\A p \in Owners : open[p]) \/ op.result \in {"success", "unsure"}
=============================================================================
