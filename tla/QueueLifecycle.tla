--------------------------- MODULE QueueLifecycle ---------------------------
(***************************************************************************)
(* The lifecycle of queue entries: queue_service.py on party_queue.  An    *)
(* operation of the service is several statements, each its own SQLite     *)
(* transaction: it reads the entry, reads it again to validate the         *)
(* transition, updates the row where a condition still holds, reads the    *)
(* locks and writes them back.  The GUI thread and the preload worker run  *)
(* operations at the same time; the persistence executor and the bulk      *)
(* operations are one statement.                                           *)
(***************************************************************************)
CONSTANTS Entries, Decks, NoDeck,
          Threads,        \* the GUI thread and the preload worker
          Gui,
          NewSessions     \* whether a session may be followed by another one

ASSUME QueueAssumption ==
  /\ NoDeck \notin Decks /\ Gui \in Threads /\ NewSessions \in BOOLEAN

VARIABLES row,   \* party_queue: status, loaded_deck, and who locked the entry
          pc     \* the operation each thread is in

vars == <<row, pc>>

Statuses == {"waiting", "preparing", "ready", "playing", "played", "skipped", "failed", "removed"}
Active == {"preparing", "ready", "playing"}
Pending == Active \cup {"waiting"}

\* _ALLOWED_TRANSITIONS
AllowedTransitions ==
  [waiting   |-> {"preparing", "ready", "played", "skipped", "failed", "removed"},
   preparing |-> {"ready", "waiting", "skipped", "failed", "removed"},
   ready     |-> {"playing", "waiting", "skipped", "failed", "removed"},
   playing   |-> {"ready", "played", "skipped", "failed", "removed"},
   played    |-> {"playing", "waiting", "removed"},
   skipped   |-> {"waiting", "removed"},
   failed    |-> {"waiting", "removed"},
   removed   |-> {}]

Allows(from, to) == from = to \/ to \in AllowedTransitions[from]

\* An operation: the statuses it is begun for, the status it leads to, and the ones
\* its UPDATE accepts ({}: the very status that was validated).  A strict one also
\* expects the status it was begun for.
Operation == [from : SUBSET Statuses, to : Statuses, where : SUBSET Statuses, strict : BOOLEAN]
Op(from, to) == [from |-> from, to |-> to, where |-> {}, strict |-> FALSE]
Reset(from, where) == [from |-> from, to |-> "waiting", where |-> where, strict |-> FALSE]

MarkPreparing == Op({"waiting"}, "preparing")
MarkLoaded == Op({"waiting", "preparing", "playing"}, "ready")
ReleaseDeck == Op({"ready", "playing"}, "skipped")
MarkSkipped == Op(Statuses, "skipped")
MarkError == Op(Statuses, "failed")
MarkPlayed == Op(Statuses, "played")
MarkFinished == [Op({"playing"}, "played") EXCEPT !.strict = TRUE]
Replay == Op({"ready", "playing", "played"}, "playing")
Remove == [Op({"waiting", "played", "skipped", "failed"}, "removed") EXCEPT !.strict = TRUE]
RemovePrepared == Op({"preparing", "ready"}, "removed")
ResetPrepared == Reset({"preparing", "ready"}, Active)
Reconcile == Reset({"ready"}, Active)
Retry == Reset(Statuses, {"failed"})
ResetPlayed == Reset(Statuses, {"played"})

WorkerOperations == {MarkPreparing, MarkLoaded, ReleaseDeck, MarkSkipped, MarkError, Reconcile}
GuiOperations == {MarkLoaded, ReleaseDeck, MarkSkipped, MarkError, MarkPlayed, MarkFinished, Replay,
                  Remove, RemovePrepared, ResetPrepared, Retry, ResetPlayed}
OperationsOf(t) == IF t = Gui THEN GuiOperations ELSE WorkerOperations

Idle == [at |-> "idle"]
WorkFrames == [at : {"validate", "write"}, e : Entries, op : Operation,
               d : Decks \cup {NoDeck}, seen : Statuses]
LockFrames == [at : {"locks"}, e : Entries, system : BOOLEAN]
ToggleFrames == [at : {"toggle"}, e : Entries, manual : BOOLEAN]
StoreFrames == [at : {"store"}, e : Entries, manual : BOOLEAN, system : BOOLEAN]
Frames == {Idle} \cup WorkFrames \cup LockFrames \cup ToggleFrames \cup StoreFrames

Goto(t, frame) == pc' = [pc EXCEPT ![t] = frame]
----------------------------------------------------------------------------
Init == /\ row = [e \in Entries |-> [status |-> "waiting", deck |-> NoDeck,
                                     manual |-> FALSE, system |-> FALSE]]
        /\ pc = [t \in Threads |-> Idle]


\* The operation looks at the entry; only PREPARING and READY are given a deck.
DecksFor(op) == IF op.to \in {"preparing", "ready"} THEN Decks ELSE {NoDeck}

Begin(t, e, op) ==
  /\ pc[t] = Idle /\ op \in OperationsOf(t)
  /\ row[e].status \in op.from
  /\ op = Remove => ~(row[e].status = "waiting" /\ (row[e].manual \/ row[e].system))
  /\ \E d \in DecksFor(op) :
       Goto(t, [at |-> "validate", e |-> e, op |-> op, d |-> d, seen |-> row[e].status])
  /\ UNCHANGED row

\* Variant: the table is not asked.
ValidateUnchecked(t) ==
  /\ pc[t].at = "validate"
  /\ Goto(t, [pc[t] EXCEPT !.at = "write", !.seen = row[pc[t].e].status])
  /\ UNCHANGED row

\* _validate_transition, and the expectation of _transition.
Validate(t) ==
  /\ pc[t].at = "validate"
  /\ LET f == pc[t]
         s == row[f.e].status
     IN  Goto(t, IF Allows(s, f.op.to) /\ (f.op.strict => s = f.seen)
                 THEN [f EXCEPT !.at = "write", !.seen = s] ELSE Idle)
  /\ UNCHANGED row

\* Variant: only the removal gives the deck back.
DeckAfterKeeping(e, to, d) == CASE to \in {"removed", "waiting"} -> NoDeck
                                [] OTHER -> IF d = NoDeck THEN row[e].deck ELSE d

\* loaded_deck as the UPDATE sets it.
DeckAfter(e, to, d) == CASE to \in {"removed", "failed", "skipped", "waiting"} -> NoDeck
                         [] OTHER -> IF d = NoDeck THEN row[e].deck ELSE d

\* idx_party_queue_active_deck
Free(e, d) == \A x \in Entries \ {e} : ~(row[x].status \in Active /\ row[x].deck = d)

\* Variant: without the index.
IndexHoldsAnyway(e, to, d) == TRUE
IndexHolds(e, to, d) == to \in Active /\ d # NoDeck => Free(e, d)

\* Variant: the condition of the UPDATE is the id alone.
AcceptsAnything(f) == Statuses

Accepts(f) == IF f.op.where = {} THEN {f.seen} ELSE f.op.where

\* _update_queue_status, reset_queue_entry_to_waiting, retry_queue_entry,
\* reset_played_queue_entry_to_waiting: the conditional UPDATE.  A reset that finds
\* nothing to change goes on, the others raise.
Write(t) ==
  /\ pc[t].at = "write"
  /\ LET f == pc[t]
         e == f.e
         d == DeckAfter(e, f.op.to, f.d)
         locks == [at |-> "locks", e |-> e, system |-> f.op.to \in {"preparing", "ready"}]
     IN  IF row[e].status \in Accepts(f) /\ IndexHolds(e, f.op.to, d)
         THEN /\ row' = [row EXCEPT ![e].status = f.op.to, ![e].deck = d]
              /\ Goto(t, locks)
         ELSE /\ Goto(t, IF f.op.where = Active THEN locks ELSE Idle)
              /\ UNCHANGED row

\* _set_lock_components reads the locks ...
ReadLocks(t) ==
  /\ pc[t].at = "locks"
  /\ LET f == pc[t]
     IN  Goto(t, [at |-> "store", e |-> f.e, manual |-> row[f.e].manual,
                  system |-> f.system])
  /\ UNCHANGED row

\* ... and writes both of them.
StoreLocks(t) ==
  /\ pc[t].at = "store"
  /\ LET f == pc[t]
     IN  row' = [row EXCEPT ![f.e].manual = f.manual, ![f.e].system = f.system]
  /\ Goto(t, Idle)

\* toggle_lock: the manual lock is read first, the system lock after it.
ToggleLock(e) == /\ pc[Gui] = Idle
                 /\ Goto(Gui, [at |-> "toggle", e |-> e, manual |-> ~row[e].manual])
                 /\ UNCHANGED row
ReadSystemLock == /\ pc[Gui].at = "toggle"
                  /\ Goto(Gui, [at |-> "store", e |-> pc[Gui].e, manual |-> pc[Gui].manual,
                                system |-> row[pc[Gui].e].system])
                  /\ UNCHANGED row

\* set_priority writes the locks it read.
SetPriority(e) == /\ pc[Gui] = Idle
                  /\ Goto(Gui, [at |-> "store", e |-> e, manual |-> row[e].manual,
                                system |-> row[e].system])
                  /\ UNCHANGED row

\* mark_queue_playing: one statement; the index refuses a second active entry.
MarkPlaying(e) ==
  /\ pc[Gui] = Idle /\ row[e].status \in {"ready", "playing", "played"}
  /\ IndexHolds(e, "playing", row[e].deck)
  /\ row' = [row EXCEPT ![e].status = "playing", ![e].system = FALSE]
  /\ UNCHANGED pc

\* complete_playing_queue_entry and release_queue_deck_assignment, on the
\* persistence executor.
Complete(e) ==
  /\ row[e].status = "playing" /\ row[e].deck # NoDeck
  /\ row' = [row EXCEPT ![e].status = "played", ![e].deck = NoDeck]
  /\ UNCHANGED pc
ReleaseAssignment(e) ==
  /\ row[e].status \in {"playing", "played"} /\ row[e].deck # NoDeck
  /\ row' = [row EXCEPT ![e].deck = NoDeck]
  /\ UNCHANGED pc

\* clear_waiting_queue, clear_complete_queue: the deck and the locks stay.
ClearWaiting ==
  /\ pc[Gui] = Idle
  /\ row' = [e \in Entries |->
               IF row[e].status = "waiting" /\ ~row[e].manual /\ ~row[e].system
               THEN [row[e] EXCEPT !.status = "removed"] ELSE row[e]]
  /\ UNCHANGED pc
ClearComplete ==
  /\ pc[Gui] = Idle
  /\ row' = [e \in Entries |-> IF row[e].status = "playing" THEN row[e]
                               ELSE [row[e] EXCEPT !.status = "removed"]]
  /\ UNCHANGED pc

\* restore_artist_repetition_skips, override_repetition_skip: the locks stay.
RestoreSkips ==
  /\ pc[Gui] = Idle
  /\ \E chosen \in SUBSET Entries :
       row' = [e \in Entries |-> IF e \in chosen /\ row[e].status = "skipped"
                                 THEN [row[e] EXCEPT !.status = "waiting", !.deck = NoDeck]
                                 ELSE row[e]]
  /\ UNCHANGED pc

\* A crash, and recover_queue_after_restart; what a selection plan had played already
\* is skipped.
Restart ==
  /\ pc' = [t \in Threads |-> Idle]
  /\ \E interrupted \in {"waiting", "skipped"} :
       row' = [e \in Entries |->
                 CASE row[e].status \notin Active -> row[e]
                   [] row[e].status = "playing" ->
                        [row[e] EXCEPT !.status = interrupted, !.deck = NoDeck, !.system = FALSE]
                   [] OTHER ->
                        [row[e] EXCEPT !.status = "waiting", !.deck = NoDeck, !.system = FALSE]]

\* The session was finished; copy_pending_queue makes new waiting rows of what it left.
StartSession ==
  /\ NewSessions /\ \A t \in Threads : pc[t] = Idle
  /\ row' = [e \in Entries |->
               IF row[e].status \in Pending
               THEN [row[e] EXCEPT !.status = "waiting", !.deck = NoDeck]
               ELSE [status |-> "removed", deck |-> NoDeck, manual |-> FALSE, system |-> FALSE]]
  /\ UNCHANGED pc

ThreadStep(t) == \/ \E e \in Entries, op \in OperationsOf(t) : Begin(t, e, op)
                 \/ Validate(t) \/ Write(t) \/ ReadLocks(t) \/ StoreLocks(t)

GuiStep == \/ \E e \in Entries : ToggleLock(e) \/ SetPriority(e) \/ MarkPlaying(e)
           \/ ReadSystemLock \/ ClearWaiting \/ ClearComplete \/ RestoreSkips

Next == \/ \E t \in Threads : ThreadStep(t)
        \/ GuiStep
        \/ \E e \in Entries : Complete(e) \/ ReleaseAssignment(e)
        \/ Restart \/ StartSession

Spec == Init /\ [][Next]_vars
----------------------------------------------------------------------------
Rows == [Entries -> [status : Statuses, deck : Decks \cup {NoDeck},
                     manual : BOOLEAN, system : BOOLEAN]]

\* Types; what is about to be written was validated.
TypeOK ==
  /\ row \in Rows /\ pc \in [Threads -> Frames]
  /\ \A t \in Threads : pc[t].at = "write" => Allows(pc[t].seen, pc[t].op.to)

\* A deck has one active entry at most, whichever threads claim it at once.
OneActivePerDeck ==
  \A x, y \in Entries : ( /\ row[x].status \in Active /\ row[y].status \in Active
                          /\ row[x].deck = row[y].deck /\ row[x].deck # NoDeck ) => x = y

\* What is prepared knows its deck; what waits, failed or was skipped has none.
PreparedHasDeck == \A e \in Entries : row[e].status \in {"preparing", "ready"} => row[e].deck # NoDeck
TerminalHasNoDeck == \A e \in Entries : row[e].status \in {"skipped", "failed", "waiting"} => row[e].deck = NoDeck
StatusMatchesDeck == PreparedHasDeck /\ TerminalHasNoDeck

\* A removed entry is never reinstated, whatever late operation still holds it.
RemovedIsFinal == [][\A e \in Entries : row[e].status = "removed" => row'[e].status = "removed"]_vars

\* Only what a deck had loaded is ever PLAYING.
PlayingWasPrepared ==
  [][\A e \in Entries : row'[e].status = "playing" => row[e].status \in {"ready", "playing", "played"}]_vars

=============================================================================
