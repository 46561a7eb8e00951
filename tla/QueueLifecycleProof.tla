------------------------ MODULE QueueLifecycleProof ------------------------
(***************************************************************************)
(* The rows of party_queue stay consistent for any number of entries,      *)
(* decks and threads: a deck has one active entry, what is prepared knows  *)
(* its deck, what failed has none, and a removed entry is never            *)
(* reinstated.  The strengthening is about the operations under way: each  *)
(* is one the service offers, and one that prepares an entry was given a   *)
(* deck.                                                                   *)
(***************************************************************************)
EXTENDS QueueLifecycle, TLAPS

Working(t) == pc[t].at \in {"validate", "write"}

\* What a thread is in is an operation of the service, with a deck where it needs one.
FramesOK == \A t \in Threads : Working(t) =>
              /\ pc[t].op \in GuiOperations \cup WorkerOperations
              /\ pc[t].op.to \in {"preparing", "ready"} => pc[t].d # NoDeck

IInv == TypeOK /\ FramesOK /\ OneActivePerDeck /\ PreparedHasDeck /\ TerminalHasNoDeck

\* What the UPDATE of an operation of the service accepts, and where it leads.
LEMMA OperationFacts ==
  ASSUME NEW op \in GuiOperations \cup WorkerOperations
  PROVE  /\ op \in Operation
         /\ "removed" \notin op.where
         /\ op.where # {} => op.to = "waiting"
         /\ op.to \in Statuses
<1> DEFINE OK(o) == /\ o \in Operation
                    /\ "removed" \notin o.where
                    /\ o.where # {} => o.to = "waiting"
                    /\ o.to \in Statuses
<1>1. \A f \in SUBSET Statuses, s \in Statuses : OK(Op(f, s))
  BY DEF Op, Operation
<1>2. OK(MarkFinished) /\ OK(Remove)
  BY DEF MarkFinished, Remove, Op, Operation, Statuses
<1>3. OK(ResetPrepared) /\ OK(Reconcile) /\ OK(Retry) /\ OK(ResetPlayed)
  BY DEF ResetPrepared, Reconcile, Retry, ResetPlayed, Reset, Operation, Statuses, Active
<1>4. OK(MarkPreparing) /\ OK(MarkLoaded) /\ OK(ReleaseDeck) /\ OK(MarkSkipped) /\ OK(MarkError)
  BY <1>1 DEF MarkPreparing, MarkLoaded, ReleaseDeck, MarkSkipped, MarkError, Statuses
<1>5. OK(MarkPlayed) /\ OK(Replay) /\ OK(RemovePrepared)
  BY <1>1 DEF MarkPlayed, Replay, RemovePrepared, Statuses
<1> HIDE DEF OK
<1>6. OK(op)
  BY <1>2, <1>3, <1>4, <1>5 DEF GuiOperations, WorkerOperations
<1> QED  BY <1>6 DEF OK

\* The table, for the two statuses the theorems are about.
LEMMA TableFacts ==
  /\ \A s \in Statuses : Allows("removed", s) => s = "removed"
  /\ \A s \in Statuses : Allows(s, "playing") => s \in {"ready", "playing", "played"}
BY DEF Statuses, Allows, AllowedTransitions

\* A frame that works holds an operation.
LEMMA WorkingFrame ==
  ASSUME NEW t \in Threads, pc \in [Threads -> Frames], Working(t)
  PROVE  pc[t] \in WorkFrames
BY DEF Frames, WorkFrames, LockFrames, ToggleFrames, StoreFrames, Idle, Working

\* A row whose deck the index granted leaves every deck with one active entry.
LEMMA IndexKeepsDecks ==
  ASSUME row \in Rows, OneActivePerDeck, NEW e \in Entries, NEW s \in Statuses,
         NEW d \in Decks \cup {NoDeck}, IndexHolds(e, s, d),
         row' \in Rows, row'[e].status = s, row'[e].deck = d,
         \A x \in Entries \ {e} : row'[x].status = row[x].status /\ row'[x].deck = row[x].deck
  PROVE  OneActivePerDeck'
BY DEF OneActivePerDeck, IndexHolds, Free, Rows

\* The rows are as they were: what was true of them still is.
LEMMA SameRows ==
  ASSUME OneActivePerDeck, PreparedHasDeck, TerminalHasNoDeck, row' = row
  PROVE  OneActivePerDeck' /\ PreparedHasDeck' /\ TerminalHasNoDeck'
BY DEF OneActivePerDeck, PreparedHasDeck, TerminalHasNoDeck

\* A thread that is given a frame; the others keep theirs.
LEMMA NewFrame ==
  ASSUME TypeOK, FramesOK, row' \in Rows, NEW t \in Threads, NEW f \in Frames, Goto(t, f),
         f.at = "write" => Allows(f.seen, f.op.to),
         f.at \in {"validate", "write"} =>
           /\ f.op \in GuiOperations \cup WorkerOperations
           /\ f.op.to \in {"preparing", "ready"} => f.d # NoDeck
  PROVE  TypeOK' /\ FramesOK'
<1>1. pc' \in [Threads -> Frames] /\ pc'[t] = f /\ \A u \in Threads \ {t} : pc'[u] = pc[u]
  BY DEF TypeOK, Goto
<1>2. TypeOK'
  BY <1>1 DEF TypeOK
<1>3. FramesOK'
  BY <1>1 DEF FramesOK, Working
<1> QED  BY <1>2, <1>3

LEMMA IdleFrame == Idle \in Frames /\ Idle.at = "idle"
BY DEF Idle, Frames

\* An operation begins.
LEMMA BeginKeeps ==
  ASSUME IInv, NEW t \in Threads, NEW e \in Entries, NEW op \in OperationsOf(t), Begin(t, e, op)
  PROVE  IInv'
<1>1. op \in GuiOperations \cup WorkerOperations
  BY DEF OperationsOf
<1>2. op \in Operation /\ op.to \in Statuses
  BY <1>1, OperationFacts
<1>3. PICK d \in DecksFor(op) :
        Goto(t, [at |-> "validate", e |-> e, op |-> op, d |-> d, seen |-> row[e].status])
  BY DEF Begin
<1> DEFINE f == [at |-> "validate", e |-> e, op |-> op, d |-> d, seen |-> row[e].status]
<1>4. row[e].status \in Statuses
  BY DEF IInv, TypeOK, Rows
<1>5. d \in Decks \cup {NoDeck} /\ (op.to \in {"preparing", "ready"} => d # NoDeck)
  BY QueueAssumption DEF DecksFor
<1>6. f \in WorkFrames
  BY <1>2, <1>4, <1>5 DEF WorkFrames
<1>7. f \in Frames
  BY <1>6 DEF Frames
<1>8. row' = row
  BY DEF Begin
<1>9. TypeOK' /\ FramesOK'
  <2>1. /\ f.at = "validate" /\ f.op = op /\ f.d = d
    OBVIOUS
  <2> HIDE DEF f
  <2> QED  BY <1>1, <1>3, <1>5, <1>7, <1>8, <2>1, NewFrame DEF IInv, TypeOK, f
<1> QED  BY <1>8, <1>9, SameRows DEF IInv

\* The transition is validated, or refused.
LEMMA ValidateKeeps ==
  ASSUME IInv, NEW t \in Threads, Validate(t)
  PROVE  IInv'
<1> DEFINE f == pc[t]
           s == row[f.e].status
           g == [f EXCEPT !.at = "write", !.seen = s]
<1>1. Working(t) /\ row' = row
  BY DEF Validate, Working
<1>2. f \in WorkFrames
  BY <1>1, WorkingFrame DEF IInv, TypeOK
<1>3. f.e \in Entries /\ f.op \in Operation /\ s \in Statuses
  BY <1>2 DEF WorkFrames, IInv, TypeOK, Rows
<1>4. /\ g \in WorkFrames
      /\ g.at = "write" /\ g.seen = s /\ g.op = f.op /\ g.d = f.d
  BY <1>2, <1>3 DEF WorkFrames
<1>5. g \in Frames
  BY <1>4 DEF Frames
<1>6. /\ f.op \in GuiOperations \cup WorkerOperations
      /\ f.op.to \in {"preparing", "ready"} => f.d # NoDeck
  BY <1>1 DEF IInv, FramesOK
<1>7. TypeOK' /\ FramesOK'
  <2>1. CASE Goto(t, g) /\ Allows(s, f.op.to)
    <3> HIDE DEF g
    <3> QED  BY <2>1, <1>1, <1>4, <1>5, <1>6, NewFrame DEF IInv, TypeOK
  <2>2. CASE Goto(t, Idle)
    BY <2>2, <1>1, IdleFrame, NewFrame DEF IInv, TypeOK
  <2> QED  BY <2>1, <2>2 DEF Validate
<1> QED  BY <1>1, <1>7, SameRows DEF IInv

\* The locks are read, or written back: neither touches the status or the deck.
LEMMA ReadLocksKeeps ==
  ASSUME IInv, NEW t \in Threads, ReadLocks(t)
  PROVE  IInv'
<1> DEFINE f == pc[t]
           g == [at |-> "store", e |-> f.e, manual |-> row[f.e].manual, system |-> f.system]
<1>1. f.at = "locks" /\ row' = row /\ Goto(t, g)
  BY DEF ReadLocks
<1>2. f \in LockFrames
  BY <1>1 DEF IInv, TypeOK, Frames, WorkFrames, ToggleFrames, StoreFrames, Idle
<1>3. f.e \in Entries /\ f.system \in BOOLEAN /\ row[f.e].manual \in BOOLEAN
  BY <1>2 DEF LockFrames, IInv, TypeOK, Rows
<1>4. g \in StoreFrames /\ g.at = "store"
  BY <1>3 DEF StoreFrames
<1>5. g \in Frames
  BY <1>4 DEF Frames
<1> HIDE DEF g
<1>6. TypeOK' /\ FramesOK'
  BY <1>1, <1>4, <1>5, NewFrame DEF IInv, TypeOK
<1> QED  BY <1>1, <1>6, SameRows DEF IInv

LEMMA StoreLocksKeeps ==
  ASSUME IInv, NEW t \in Threads, StoreLocks(t)
  PROVE  IInv'
<1> DEFINE f == pc[t]
<1>1. f \in StoreFrames
  BY DEF StoreLocks, IInv, TypeOK, Frames, WorkFrames, LockFrames, ToggleFrames, Idle
<1>2. f.e \in Entries /\ f.manual \in BOOLEAN /\ f.system \in BOOLEAN
  BY <1>1 DEF StoreFrames
<1>3. row' = [row EXCEPT ![f.e] = [row[f.e] EXCEPT !.manual = f.manual, !.system = f.system]]
  BY <1>2 DEF StoreLocks, IInv, TypeOK, Rows
<1>4. [row[f.e] EXCEPT !.manual = f.manual, !.system = f.system]
        \in [status : Statuses, deck : Decks \cup {NoDeck}, manual : BOOLEAN, system : BOOLEAN]
  BY <1>2 DEF IInv, TypeOK, Rows
<1>5. row' \in Rows
  BY <1>2, <1>3, <1>4 DEF IInv, TypeOK, Rows
<1>6. \A x \in Entries : row'[x].status = row[x].status /\ row'[x].deck = row[x].deck
  BY <1>2, <1>3 DEF IInv, TypeOK, Rows
<1>7. TypeOK' /\ FramesOK'
  BY <1>5, IdleFrame, NewFrame DEF StoreLocks, IInv, TypeOK
<1>8. OneActivePerDeck' /\ PreparedHasDeck' /\ TerminalHasNoDeck'
  BY <1>6 DEF IInv, OneActivePerDeck, PreparedHasDeck, TerminalHasNoDeck
<1> QED  BY <1>7, <1>8 DEF IInv

\* One row is replaced by another that is consistent with its neighbours.
LEMMA OneRow ==
  ASSUME IInv, NEW e \in Entries,
         NEW r \in [status : Statuses, deck : Decks \cup {NoDeck}, manual : BOOLEAN, system : BOOLEAN],
         row' = [row EXCEPT ![e] = r],
         IndexHolds(e, r.status, r.deck),
         r.status \in {"preparing", "ready"} => r.deck # NoDeck,
         r.status \in {"skipped", "failed", "waiting"} => r.deck = NoDeck
  PROVE  row' \in Rows /\ OneActivePerDeck' /\ PreparedHasDeck' /\ TerminalHasNoDeck'
<1>1. row \in Rows
  BY DEF IInv, TypeOK
<1>2. row' \in Rows /\ row'[e] = r /\ \A x \in Entries \ {e} : row'[x] = row[x]
  BY <1>1 DEF Rows
<1>3. OneActivePerDeck'
  <2>1. /\ r.status \in Statuses /\ r.deck \in Decks \cup {NoDeck}
        /\ row'[e].status = r.status /\ row'[e].deck = r.deck
    BY <1>2
  <2> QED  BY <1>1, <1>2, <2>1, IndexKeepsDecks DEF IInv
<1>4. PreparedHasDeck'
  BY <1>2 DEF IInv, PreparedHasDeck
<1>5. TerminalHasNoDeck'
  BY <1>2 DEF IInv, TerminalHasNoDeck
<1> QED  BY <1>2, <1>3, <1>4, <1>5

\* Many rows at once: each keeps its status and deck, or gives up its claim on a deck.
LEMMA ManyRows ==
  ASSUME IInv, row' \in Rows,
         \A x \in Entries :
           \/ row'[x].status = row[x].status /\ row'[x].deck = row[x].deck
           \/ /\ row'[x].status \notin Active
              /\ row'[x].status \in {"skipped", "failed", "waiting"} => row'[x].deck = NoDeck
  PROVE  OneActivePerDeck' /\ PreparedHasDeck' /\ TerminalHasNoDeck'
BY DEF IInv, OneActivePerDeck, PreparedHasDeck, TerminalHasNoDeck, Active

\* The frames stay as they are.
LEMMA SameFrames ==
  ASSUME IInv, row' \in Rows, pc' = pc
  PROVE  TypeOK' /\ FramesOK'
BY DEF IInv, TypeOK, FramesOK, Working

\* The conditional UPDATE.
LEMMA WriteKeeps ==
  ASSUME IInv, NEW t \in Threads, Write(t)
  PROVE  IInv'
<1> DEFINE f == pc[t]
           e == f.e
           d == DeckAfter(e, f.op.to, f.d)
           g == [at |-> "locks", e |-> e, system |-> f.op.to \in {"preparing", "ready"}]
           r == [row[e] EXCEPT !.status = f.op.to, !.deck = d]
<1>1. Working(t)
  BY DEF Write, Working
<1>2. f \in WorkFrames
  BY <1>1, WorkingFrame DEF IInv, TypeOK
<1>3. /\ f.op \in GuiOperations \cup WorkerOperations
      /\ f.op.to \in {"preparing", "ready"} => f.d # NoDeck
  BY <1>1 DEF IInv, FramesOK
<1>4. e \in Entries /\ f.op \in Operation /\ f.op.to \in Statuses /\ f.d \in Decks \cup {NoDeck}
  BY <1>2, <1>3, OperationFacts DEF WorkFrames
<1>5. g \in Frames /\ g.at = "locks"
  BY <1>4 DEF LockFrames, Frames
<1>6. row[e] \in [status : Statuses, deck : Decks \cup {NoDeck}, manual : BOOLEAN, system : BOOLEAN]
  BY <1>4 DEF IInv, TypeOK, Rows
<1>7. d \in Decks \cup {NoDeck}
  BY <1>4, <1>6 DEF DeckAfter
<1>8. CASE row' = row
  <2>1. Goto(t, g) \/ Goto(t, Idle)
    BY DEF Write
  <2> HIDE DEF g
  <2>2. TypeOK' /\ FramesOK'
    BY <1>3, <1>5, <1>8, <2>1, IdleFrame, NewFrame DEF IInv, TypeOK
  <2> QED  BY <1>8, <2>2, SameRows DEF IInv
<1>9. CASE /\ IndexHolds(e, f.op.to, d)
           /\ row' = [row EXCEPT ![e].status = f.op.to, ![e].deck = d]
           /\ Goto(t, g)
  <2>1. r \in [status : Statuses, deck : Decks \cup {NoDeck}, manual : BOOLEAN, system : BOOLEAN]
    BY <1>4, <1>6, <1>7
  <2>2. row' = [row EXCEPT ![e] = r]
    BY <1>4, <1>9 DEF IInv, TypeOK, Rows
  <2>3. r.status = f.op.to /\ r.deck = d
    BY <1>6
  <2>4. /\ f.op.to \in {"preparing", "ready"} => d # NoDeck
        /\ f.op.to \in {"skipped", "failed", "waiting"} => d = NoDeck
    BY <1>3 DEF DeckAfter
  <2> HIDE DEF r, d, g
  <2>5. row' \in Rows /\ OneActivePerDeck' /\ PreparedHasDeck' /\ TerminalHasNoDeck'
    BY <1>4, <1>9, <2>1, <2>2, <2>3, <2>4, OneRow
  <2>6. TypeOK' /\ FramesOK'
    BY <1>3, <1>5, <1>9, <2>5, NewFrame DEF IInv
  <2> QED  BY <2>5, <2>6 DEF IInv
<1> QED  BY <1>8, <1>9 DEF Write

\* The operations of the GUI thread that are one or two statements.
LEMMA GuiFrameKeeps ==
  ASSUME IInv, (\E e \in Entries : ToggleLock(e) \/ SetPriority(e)) \/ ReadSystemLock
  PROVE  IInv'
<1>1. \A e \in Entries : row[e].manual \in BOOLEAN /\ row[e].system \in BOOLEAN
  BY DEF IInv, TypeOK, Rows
<1>2. ASSUME NEW e \in Entries, NEW m \in BOOLEAN, NEW y \in BOOLEAN, row' = row,
             \/ Goto(Gui, [at |-> "store", e |-> e, manual |-> m, system |-> y])
             \/ Goto(Gui, [at |-> "toggle", e |-> e, manual |-> m])
      PROVE  IInv'
  <2> DEFINE f == [at |-> "store", e |-> e, manual |-> m, system |-> y]
             g == [at |-> "toggle", e |-> e, manual |-> m]
  <2>1. f \in Frames /\ g \in Frames /\ f.at = "store" /\ g.at = "toggle"
    BY DEF Frames, StoreFrames, ToggleFrames
  <2>2. Goto(Gui, f) \/ Goto(Gui, g)
    BY <1>2
  <2> HIDE DEF f, g
  <2>3. TypeOK' /\ FramesOK'
    BY <1>2, <2>1, <2>2, NewFrame, QueueAssumption DEF IInv, TypeOK
  <2> QED  BY <1>2, <2>3, SameRows DEF IInv
<1>3. ASSUME NEW e \in Entries, ToggleLock(e) PROVE IInv'
  BY <1>1, <1>2, <1>3 DEF ToggleLock
<1>4. ASSUME NEW e \in Entries, SetPriority(e) PROVE IInv'
  BY <1>1, <1>2, <1>4 DEF SetPriority
<1>5. CASE ReadSystemLock
  <2>1. pc[Gui] \in ToggleFrames
    BY <1>5, QueueAssumption DEF ReadSystemLock, IInv, TypeOK, Frames, WorkFrames, LockFrames, StoreFrames, Idle
  <2>2. pc[Gui].e \in Entries /\ pc[Gui].manual \in BOOLEAN
    BY <2>1 DEF ToggleFrames
  <2> QED  BY <1>1, <1>2, <1>5, <2>2 DEF ReadSystemLock
<1> QED  BY <1>3, <1>4, <1>5

LEMMA OneRowActionsKeep ==
  ASSUME IInv, NEW e \in Entries, MarkPlaying(e) \/ Complete(e) \/ ReleaseAssignment(e)
  PROVE  IInv'
<1> DEFINE Row == [status : Statuses, deck : Decks \cup {NoDeck}, manual : BOOLEAN, system : BOOLEAN]
<1>1. row[e] \in Row /\ row \in [Entries -> Row]
  BY DEF IInv, TypeOK, Rows
<1>2. PICK r \in Row : /\ row' = [row EXCEPT ![e] = r]
                       /\ IndexHolds(e, r.status, r.deck)
                       /\ r.status \in {"playing", "played"}
  <2>1. CASE MarkPlaying(e)
    <3> DEFINE r == [row[e] EXCEPT !.status = "playing", !.system = FALSE]
    <3>1. r \in Row /\ r.status = "playing" /\ r.deck = row[e].deck
      BY <1>1 DEF Statuses
    <3>2. row' = [row EXCEPT ![e] = r]
      BY <1>1, <2>1 DEF MarkPlaying
    <3> QED  BY <2>1, <3>1, <3>2 DEF MarkPlaying
  <2>2. CASE Complete(e)
    <3> DEFINE r == [row[e] EXCEPT !.status = "played", !.deck = NoDeck]
    <3>1. r \in Row /\ r.status = "played" /\ r.deck = NoDeck
      BY <1>1 DEF Statuses
    <3>2. row' = [row EXCEPT ![e] = r]
      BY <1>1, <2>2 DEF Complete
    <3> QED  BY <3>1, <3>2 DEF IndexHolds
  <2>3. CASE ReleaseAssignment(e)
    <3> DEFINE r == [row[e] EXCEPT !.deck = NoDeck]
    <3>1. r \in Row /\ r.status = row[e].status /\ r.deck = NoDeck
      BY <1>1 DEF Statuses
    <3>2. row' = [row EXCEPT ![e] = r]
      BY <1>1, <2>3 DEF ReleaseAssignment
    <3> QED  BY <2>3, <3>1, <3>2 DEF IndexHolds, ReleaseAssignment
  <2> QED  BY <2>1, <2>2, <2>3
<1>3. row' \in Rows /\ OneActivePerDeck' /\ PreparedHasDeck' /\ TerminalHasNoDeck'
  BY <1>2, OneRow
<1>4. pc' = pc
  BY DEF MarkPlaying, Complete, ReleaseAssignment
<1> QED  BY <1>3, <1>4, SameFrames DEF IInv

\* The bulk operations, the restart and the next session: what each does to a row.
RowRecord == [status : Statuses, deck : Decks \cup {NoDeck}, manual : BOOLEAN, system : BOOLEAN]
Claimless(old, new) ==
  /\ new \in RowRecord
  /\ \/ new.status = old.status /\ new.deck = old.deck
     \/ /\ new.status \notin Active
        /\ new.status \in {"skipped", "failed", "waiting"} => new.deck = NoDeck

LEMMA RemovedRow ==
  \A r \in RowRecord : Claimless(r, r) /\ Claimless(r, [r EXCEPT !.status = "removed"])
BY DEF RowRecord, Claimless, Statuses, Active

LEMMA RecoveredRow ==
  ASSUME NEW r \in RowRecord, NEW s \in {"waiting", "skipped"}
  PROVE  /\ Claimless(r, [r EXCEPT !.status = s, !.deck = NoDeck, !.system = FALSE])
         /\ Claimless(r, [r EXCEPT !.status = s, !.deck = NoDeck])
BY DEF RowRecord, Claimless, Statuses, Active

LEMMA RowsClaimless ==
  ASSUME IInv, row' = [x \in Entries |-> row'[x]], \A x \in Entries : Claimless(row[x], row'[x])
  PROVE  row' \in Rows /\ OneActivePerDeck' /\ PreparedHasDeck' /\ TerminalHasNoDeck'
<1>1. row' \in Rows
  BY DEF Claimless, RowRecord, Rows
<1> QED  BY <1>1, ManyRows DEF Claimless

LEMMA BulkKeeps ==
  ASSUME IInv, ClearWaiting \/ ClearComplete \/ RestoreSkips \/ StartSession
  PROVE  IInv'
<1>1. \A x \in Entries : row[x] \in RowRecord
  BY DEF IInv, TypeOK, Rows, RowRecord
<1>2. row' = [x \in Entries |-> row'[x]] /\ \A x \in Entries : Claimless(row[x], row'[x])
  <2>1. CASE ClearWaiting
    BY <1>1, <2>1, RemovedRow DEF ClearWaiting
  <2>2. CASE ClearComplete
    BY <1>1, <2>2, RemovedRow DEF ClearComplete
  <2>3. CASE StartSession
    <3> DEFINE gone == [status |-> "removed", deck |-> NoDeck, manual |-> FALSE, system |-> FALSE]
    <3>1. \A x \in Entries : Claimless(row[x], gone)
      BY DEF Claimless, RowRecord, Statuses, Active
    <3>2. \A x \in Entries : Claimless(row[x], [row[x] EXCEPT !.status = "waiting", !.deck = NoDeck])
      BY <1>1, RecoveredRow
    <3> HIDE DEF gone
    <3>3. row' = [x \in Entries |-> IF row[x].status \in Pending
                                    THEN [row[x] EXCEPT !.status = "waiting", !.deck = NoDeck]
                                    ELSE gone]
      BY <2>3 DEF StartSession, gone
    <3> QED  BY <3>1, <3>2, <3>3
  <2>4. CASE RestoreSkips
    <3>1. \A x \in Entries : Claimless(row[x], [row[x] EXCEPT !.status = "waiting", !.deck = NoDeck])
      BY <1>1, RecoveredRow
    <3>2. PICK chosen \in SUBSET Entries :
            row' = [x \in Entries |-> IF x \in chosen /\ row[x].status = "skipped"
                                      THEN [row[x] EXCEPT !.status = "waiting", !.deck = NoDeck]
                                      ELSE row[x]]
      BY <2>4 DEF RestoreSkips
    <3>3. \A x \in Entries : Claimless(row[x], row[x])
      BY <1>1, RemovedRow
    <3> QED  BY <3>1, <3>2, <3>3
  <2> QED  BY <2>1, <2>2, <2>3, <2>4
<1>3. pc' = pc
  BY DEF ClearWaiting, ClearComplete, RestoreSkips, StartSession
<1> QED  BY <1>2, <1>3, RowsClaimless, SameFrames DEF IInv

LEMMA RestartKeeps ==
  ASSUME IInv, Restart
  PROVE  IInv'
<1>1. \A x \in Entries : row[x] \in RowRecord
  BY DEF IInv, TypeOK, Rows, RowRecord
<1>2. row' = [x \in Entries |-> row'[x]] /\ \A x \in Entries : Claimless(row[x], row'[x])
  <2> DEFINE Back(x, s) == [row[x] EXCEPT !.status = s, !.deck = NoDeck, !.system = FALSE]
             New(x, s) == CASE row[x].status \notin Active -> row[x]
                            [] row[x].status = "playing" -> Back(x, s)
                            [] OTHER -> Back(x, "waiting")
  <2>1. PICK s \in {"waiting", "skipped"} : row' = [x \in Entries |-> New(x, s)]
    BY DEF Restart
  <2>2. ASSUME NEW x \in Entries PROVE Claimless(row[x], New(x, s))
    <3>1. Claimless(row[x], row[x]) /\ Claimless(row[x], Back(x, s)) /\ Claimless(row[x], Back(x, "waiting"))
      BY <1>1, RemovedRow, RecoveredRow
    <3> HIDE DEF Back
    <3>2. New(x, s) \in {row[x], Back(x, s), Back(x, "waiting")}
      BY DEF Active
    <3> QED  BY <3>1, <3>2
  <2> HIDE DEF New
  <2> QED  BY <2>1, <2>2
<1>3. row' \in Rows /\ OneActivePerDeck' /\ PreparedHasDeck' /\ TerminalHasNoDeck'
  BY <1>2, RowsClaimless
<1>4. TypeOK' /\ FramesOK'
  BY <1>3, IdleFrame DEF Restart, TypeOK, FramesOK, Working
<1> QED  BY <1>3, <1>4 DEF IInv
----------------------------------------------------------------------------
LEMMA InitInvariant == Init => IInv
BY IdleFrame DEF Init, IInv, TypeOK, Rows, Statuses, FramesOK, Working, OneActivePerDeck,
                 PreparedHasDeck, TerminalHasNoDeck, Active

LEMMA StutterKeeps == IInv /\ UNCHANGED vars => IInv'
BY DEF vars, IInv, TypeOK, FramesOK, Working, OneActivePerDeck, PreparedHasDeck, TerminalHasNoDeck

\* For any number of entries, decks and threads, and whatever the interleaving of
\* their statements, a crash between two of them included: the invariant holds.
THEOREM QueueInvariant == Spec => []IInv
<1>1. IInv /\ [Next]_vars => IInv'
  <2> SUFFICES ASSUME IInv, [Next]_vars PROVE IInv'
    OBVIOUS
  <2>1. ASSUME NEW t \in Threads, ThreadStep(t) PROVE IInv'
    BY <2>1, BeginKeeps, ValidateKeeps, WriteKeeps, ReadLocksKeeps, StoreLocksKeeps DEF ThreadStep
  <2>2. CASE GuiStep
    BY <2>2, GuiFrameKeeps, OneRowActionsKeep, BulkKeeps DEF GuiStep
  <2>3. ASSUME NEW e \in Entries, Complete(e) \/ ReleaseAssignment(e) PROVE IInv'
    BY <2>3, OneRowActionsKeep
  <2>4. CASE Restart
    BY <2>4, RestartKeeps
  <2>5. CASE StartSession
    BY <2>5, BulkKeeps
  <2>6. CASE UNCHANGED vars
    BY <2>6, StutterKeeps
  <2> QED  BY <2>1, <2>2, <2>3, <2>4, <2>5, <2>6 DEF Next
<1> QED  BY <1>1, InitInvariant, PTL DEF Spec

\* Two entries are never active on one deck at the same time.
THEOREM DecksAreExclusive == Spec => []OneActivePerDeck
<1>1. IInv => OneActivePerDeck
  BY DEF IInv
<1> QED  BY <1>1, QueueInvariant, PTL

\* What is prepared has a deck, and what waits, failed or was skipped has none.
THEOREM DecksMatchStatus == Spec => []StatusMatchesDeck
<1>1. IInv => StatusMatchesDeck
  BY DEF IInv, StatusMatchesDeck
<1> QED  BY <1>1, QueueInvariant, PTL

\* A statement that changes the status of a removed entry would have to accept it.
LEMMA RemovedStep ==
  ASSUME IInv, [Next]_vars, NEW x \in Entries, row[x].status = "removed"
  PROVE  row'[x].status = "removed"
<1>1. row \in [Entries -> RowRecord] /\ row[x] \in RowRecord
  BY DEF IInv, TypeOK, Rows, RowRecord
<1>2. ASSUME NEW t \in Threads, Write(t) PROVE row'[x].status = "removed"
  <2> DEFINE f == pc[t]
  <2>1. Working(t)
    BY <1>2 DEF Write, Working
  <2>2. f \in WorkFrames /\ f.op \in GuiOperations \cup WorkerOperations
    BY <2>1, WorkingFrame DEF IInv, TypeOK, FramesOK
  <2>3. "removed" \notin f.op.where /\ f.op.to \in Statuses
    BY <2>2, OperationFacts
  <2>4. CASE f.e = x /\ "removed" \in Accepts(f)
    <3>1. f.seen = "removed"
      BY <2>3, <2>4 DEF Accepts
    <3>2. Allows("removed", f.op.to)
      BY <1>2, <3>1 DEF Write, IInv, TypeOK
    <3>3. f.op.to = "removed"
      BY <2>3, <3>2, TableFacts
    <3> QED  BY <1>1, <1>2, <2>4, <3>3 DEF Write, RowRecord
  <2>5. CASE f.e # x
    BY <1>1, <1>2, <2>5 DEF Write, RowRecord
  <2>6. CASE f.e = x /\ "removed" \notin Accepts(f)
    BY <1>2, <2>6 DEF Write
  <2> QED  BY <2>4, <2>5, <2>6
<1>3. ASSUME NEW t \in Threads, StoreLocks(t) PROVE row'[x].status = "removed"
  BY <1>1, <1>3 DEF StoreLocks, RowRecord
<1>4. ASSUME NEW t \in Threads, NEW e \in Entries, NEW op \in OperationsOf(t), Begin(t, e, op)
      PROVE row'[x].status = "removed"
  BY <1>4 DEF Begin
<1>5. ASSUME NEW t \in Threads, Validate(t) \/ ReadLocks(t) PROVE row'[x].status = "removed"
  BY <1>5 DEF Validate, ReadLocks
<1>6. ASSUME NEW e \in Entries, ToggleLock(e) \/ SetPriority(e)
      PROVE row'[x].status = "removed"
  BY <1>6 DEF ToggleLock, SetPriority
<1>7. CASE ReadSystemLock
  BY <1>7 DEF ReadSystemLock
<1>8. ASSUME NEW e \in Entries, MarkPlaying(e) \/ Complete(e) \/ ReleaseAssignment(e)
      PROVE row'[x].status = "removed"
  <2>1. e # x
    BY <1>8 DEF MarkPlaying, Complete, ReleaseAssignment
  <2> QED  BY <1>1, <1>8, <2>1 DEF MarkPlaying, Complete, ReleaseAssignment
<1>9. CASE ClearWaiting \/ ClearComplete \/ RestoreSkips \/ StartSession
  <2>1. CASE ClearWaiting
    BY <1>1, <2>1 DEF ClearWaiting
  <2>2. CASE ClearComplete
    <3>1. row'[x] = [row[x] EXCEPT !.status = "removed"]
      BY <2>2 DEF ClearComplete
    <3> QED  BY <1>1, <3>1 DEF RowRecord
  <2>3. CASE StartSession
    <3>1. row[x].status \notin Pending
      BY DEF Pending, Active
    <3>2. row'[x] = [status |-> "removed", deck |-> NoDeck, manual |-> FALSE, system |-> FALSE]
      BY <2>3, <3>1 DEF StartSession
    <3> QED  BY <3>2
  <2>4. CASE RestoreSkips
    BY <2>4 DEF RestoreSkips
  <2> QED  BY <1>9, <2>1, <2>2, <2>3, <2>4
<1>10. CASE Restart
  BY <1>1, <1>10 DEF Restart, Active
<1>11. CASE UNCHANGED vars
  BY <1>11 DEF vars
<1> QED  BY <1>2, <1>3, <1>4, <1>5, <1>6, <1>7, <1>8, <1>9, <1>10, <1>11
            DEF Next, ThreadStep, GuiStep

\* Once removed, an entry stays removed, however late an operation on it goes on.
THEOREM RemovedStaysRemoved == Spec => RemovedIsFinal
<1>1. IInv /\ [Next]_vars => [\A e \in Entries : row[e].status = "removed" => row'[e].status = "removed"]_vars
  BY RemovedStep
<1>2. Spec => []IInv
  BY QueueInvariant
<1> QED  BY <1>1, <1>2, PTL DEF Spec, RemovedIsFinal

\* Who finds an entry PLAYING after a step found it loaded, playing or played before it.
LEMMA PlayingStep ==
  ASSUME IInv, [Next]_vars, NEW x \in Entries, row'[x].status = "playing"
  PROVE  row[x].status \in {"ready", "playing", "played"}
<1>1. row \in [Entries -> RowRecord] /\ row[x] \in RowRecord
  BY DEF IInv, TypeOK, Rows, RowRecord
<1>2. SUFFICES ASSUME row[x].status # "playing"
               PROVE  row[x].status \in {"ready", "played"}
  OBVIOUS
<1>3. ASSUME NEW t \in Threads, Write(t) PROVE row[x].status \in {"ready", "played"}
  <2> DEFINE f == pc[t]
  <2>1. Working(t)
    BY <1>3 DEF Write, Working
  <2>2. f \in WorkFrames /\ f.op \in GuiOperations \cup WorkerOperations
    BY <2>1, WorkingFrame DEF IInv, TypeOK, FramesOK
  <2>3. f.e = x /\ f.op.to = "playing" /\ row[x].status \in Accepts(f)
    BY <1>1, <1>2, <1>3 DEF Write, RowRecord
  <2>4. row[x].status = f.seen
    BY <2>2, <2>3, OperationFacts DEF Accepts
  <2>5. Allows(row[x].status, "playing")
    BY <1>3, <2>3, <2>4 DEF Write, IInv, TypeOK
  <2> QED  BY <1>1, <1>2, <2>5, TableFacts DEF RowRecord
<1>4. ASSUME NEW t \in Threads, StoreLocks(t) PROVE FALSE
  BY <1>1, <1>2, <1>4 DEF StoreLocks, RowRecord
<1>5. ASSUME NEW t \in Threads, NEW e \in Entries, NEW op \in OperationsOf(t), Begin(t, e, op)
      PROVE FALSE
  BY <1>2, <1>5 DEF Begin
<1>6. ASSUME NEW t \in Threads, Validate(t) \/ ReadLocks(t) PROVE FALSE
  BY <1>2, <1>6 DEF Validate, ReadLocks
<1>7. ASSUME NEW e \in Entries, ToggleLock(e) \/ SetPriority(e) PROVE FALSE
  BY <1>2, <1>7 DEF ToggleLock, SetPriority
<1>8. CASE ReadSystemLock
  BY <1>2, <1>8 DEF ReadSystemLock
<1>9. ASSUME NEW e \in Entries, MarkPlaying(e) PROVE row[x].status \in {"ready", "played"}
  BY <1>1, <1>2, <1>9 DEF MarkPlaying, RowRecord
<1>10. ASSUME NEW e \in Entries, Complete(e) \/ ReleaseAssignment(e) PROVE FALSE
  BY <1>1, <1>2, <1>10 DEF Complete, ReleaseAssignment, RowRecord
<1>11. CASE ClearWaiting \/ ClearComplete
  <2>1. row'[x] = row[x] \/ row'[x] = [row[x] EXCEPT !.status = "removed"]
    BY <1>11 DEF ClearWaiting, ClearComplete
  <2> QED  BY <1>1, <1>2, <2>1 DEF RowRecord
<1>12. CASE RestoreSkips
  <2>1. row'[x] = row[x] \/ row'[x] = [row[x] EXCEPT !.status = "waiting", !.deck = NoDeck]
    BY <1>12 DEF RestoreSkips
  <2> QED  BY <1>1, <1>2, <2>1 DEF RowRecord
<1>13. CASE StartSession
  <2>1. CASE row[x].status \in Pending
    <3>1. row'[x] = [row[x] EXCEPT !.status = "waiting", !.deck = NoDeck]
      BY <1>13, <2>1 DEF StartSession
    <3> QED  BY <1>1, <3>1 DEF RowRecord
  <2>2. CASE row[x].status \notin Pending
    <3>1. row'[x] = [status |-> "removed", deck |-> NoDeck, manual |-> FALSE, system |-> FALSE]
      BY <1>13, <2>2 DEF StartSession
    <3> QED  BY <3>1
  <2> QED  BY <2>1, <2>2
<1>14. CASE Restart
  <2>1. \/ row'[x] = row[x]
        \/ \E s \in {"waiting", "skipped"} :
             row'[x] = [row[x] EXCEPT !.status = s, !.deck = NoDeck, !.system = FALSE]
    BY <1>14 DEF Restart
  <2> QED  BY <1>1, <1>2, <2>1 DEF RowRecord
<1>15. CASE UNCHANGED vars
  BY <1>2, <1>15 DEF vars
<1> QED  BY <1>3, <1>4, <1>5, <1>6, <1>7, <1>8, <1>9, <1>10, <1>11, <1>12, <1>13, <1>14, <1>15
            DEF Next, ThreadStep, GuiStep

\* Nothing becomes PLAYING that no deck had loaded before.
THEOREM PlayingWasLoaded == Spec => PlayingWasPrepared
<1>1. IInv /\ [Next]_vars =>
        [\A e \in Entries : row'[e].status = "playing" => row[e].status \in {"ready", "playing", "played"}]_vars
  BY PlayingStep
<1> QED  BY <1>1, QueueInvariant, PTL DEF Spec, PlayingWasPrepared
\* For any number of entries, decks and threads each row of party_queue and each thread's
\* frame keep their ranges: no status or deck outside the schema's is ever written.
THEOREM QueueTypes == Spec => []TypeOK
BY QueueInvariant, PTL DEF IInv
=============================================================================
