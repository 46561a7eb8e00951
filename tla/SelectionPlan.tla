--------------------------- MODULE SelectionPlan ---------------------------
(***************************************************************************)
(* The plan of the dynamic automatic: a stored sequence of titles of which *)
(* one after the other becomes an entry of the queue                       *)
(* (automatic_selection_plan_execution.py, _recovery.py, _ui.py and their  *)
(* repository).  Its writers share no lock: the execution service fills    *)
(* the queue under one, the recovery decisions take another, playback and  *)
(* the end of the session take none.  What holds them together is the      *)
(* revision of a plan, which each of them reads first and compares in the  *)
(* statement that writes, and an index that allows one resumable plan a    *)
(* session.  A method of the repository is a step where nothing but that   *)
(* comparison decides; where it looks at another table first, it is two.   *)
(***************************************************************************)
EXTENDS Naturals, Sequences, FiniteSets

CONSTANTS
  MaxPlans,     \* bound: plans that are ever drafted in the session
  MaxEntries,   \* bound: titles the planning can find, one entry each
  Depth,        \* titles in a plan at most
  Target,       \* _dynamic_automatic_target_count, the minimum stock
  Scenarios     \* bound: what may happen besides, each thing once

ASSUME Bounds == /\ MaxPlans \in Nat \ {0} /\ MaxEntries \in Nat \ {0}
                 /\ Depth \in Nat \ {0} /\ Target \in Nat \ {0}
                 /\ Scenarios \subseteq SUBSET {"adopt", "dialog", "end", "foreign", "drop", "restart", "close"}

Plans == 1..MaxPlans
Entries == 1..MaxEntries
NoPlan == 0
NoEntry == 0

VARIABLES
  plan,     \* automatic_selection_plans with their steps
  row,      \* the automatic entries of party_queue
  phase,    \* startup, decision about a kept plan, running, closing, session finished
  exec,     \* the thread inside the execution service's lock
  ui,       \* the operator's dialogs and the worker of the current action
  foreign,  \* what the observer of a foreign playback has read
  gui,      \* MainController: whether a stock is kept filled, and the refill's flags
  may       \* what may still happen

vars == <<plan, row, phase, exec, ui, foreign, gui, may>>
----------------------------------------------------------------------------
(* Plans.                                                                  *)

Resumable == {"ACTIVE", "PAUSED"}
Ended == {"COMPLETED", "INVALIDATED", "DISCARDED"}

Statuses == {"none", "DRAFT", "ACTIVE", "PAUSED"} \cup Ended

Transitions ==
  [s \in Statuses |->
     CASE s = "DRAFT"  -> {"ACTIVE", "DISCARDED"}
       [] s = "ACTIVE" -> {"PAUSED"} \cup Ended
       [] s = "PAUSED" -> {"ACTIVE", "INVALIDATED", "DISCARDED"}
       [] OTHER        -> {}]

Step(s, e) == [st |-> s, entry |-> e]
Planned == Step("PLANNED", NoEntry)
Draft(n) == [status |-> "DRAFT", rev |-> 0, steps |-> [i \in 1..n |-> Planned]]
Unused == [status |-> "none", rev |-> 0, steps |-> << >>]

PlannedAt(q) == {i \in DOMAIN q.steps : q.steps[i].st = "PLANNED"}
First(S) == CHOOSE i \in S : \A j \in S : i <= j
EntriesOf(q) == {q.steps[i].entry : i \in DOMAIN q.steps} \ {NoEntry}

\* every write of a plan counts its revision up; what ends a plan drops what is still planned
Moved(q, s) == [q EXCEPT !.status = s, !.rev = @ + 1]
Dropped(q) == [q EXCEPT !.steps = [i \in DOMAIN @ |-> IF @[i].st = "PLANNED" THEN Step("INVALIDATED", NoEntry) ELSE @[i]]]
\* Variant: the titles that are still planned stay as they are.
RetiredKeeping(q, s) == Moved(q, s)
Retired(q, s) == Dropped(Moved(q, s))

\* _update_plan_cas and _require_revision, at the moment of the write
\* Variant: the UPDATE does not ask for the revision.
UnchangedAnyway(p, rev) == plan[p].status # "none"
UnchangedSince(p, rev) == plan[p].rev = rev

\* uq_automatic_selection_plans_resumable_session
\* Variant: there is no unique index.
SoleAnyway(p) == TRUE
Sole(p) == \A q \in Plans \ {p} : plan[q].status \notin Resumable

Current == {p \in Plans : plan[p].status \in Resumable}
TheCurrent == CHOOSE p \in Current : TRUE
Free == {p \in Plans : plan[p].status = "none"}
Latest == CHOOSE p \in Plans \ Free : \A q \in Plans \ Free : q <= p
SessionOpen == phase # "over"
----------------------------------------------------------------------------
(* The queue.                                                              *)

NewEntries == {e \in Entries : row[e] = "none"}
Lengths == {n \in 1..Depth : n <= Cardinality(NewEntries)}
Stock == {e \in Entries : row[e] \in {"waiting", "loaded"}}
Waiting == {e \in Entries : row[e] = "waiting"}

\* the rows of a plan that is discarded or replaced, of which only those that wait are removed
TakenBack(p) == [e \in Entries |-> IF e \in EntriesOf(plan[p]) \cap Waiting THEN "removed" ELSE row[e]]
QueueChanged == gui' = [gui EXCEPT !.changed = @ \/ row' # row]
----------------------------------------------------------------------------
Once(c) == c \in may /\ may' = may \ {c}

IdleExec == [at |-> "idle", goal |-> "none", present |-> 0, p |-> NoPlan, rev |-> 0]
IdleUi == [at |-> "idle", p |-> NoPlan, rev |-> 0, n |-> NoPlan]
Unobserved == [p |-> NoPlan, rev |-> 0]
IdleGui == [auto |-> FALSE, refill |-> "none", again |-> FALSE, changed |-> FALSE]

Init == /\ plan = [p \in Plans |-> Unused]
        /\ row = [e \in Entries |-> "none"]
        /\ phase = "boot"
        /\ exec = IdleExec /\ ui = IdleUi /\ foreign = Unobserved /\ gui = IdleGui
        /\ may \in Scenarios
----------------------------------------------------------------------------
(* AutomaticSelectionPlanExecutionService, one thread at a time.           *)

Exec(at) == exec.at = at
Running == phase \in {"up", "closing", "over"}

Success == {"queued", "fine"}

\* the call returns with its result; a refill publishes its callback
Return(result) ==
  /\ exec' = IdleExec
  /\ gui' = [gui EXCEPT !.refill = IF exec.goal = "refill" THEN "answered" ELSE @,
                        !.auto = @ \/ (exec.goal = "adopt" /\ result \in Success),
                        !.changed = @ \/ result = "queued"]
  /\ ui' = IF exec.goal = "adopt" THEN IdleUi ELSE ui

\* ensure_next_step, asked for a candidate because nothing waits in the queue
EnsureNextStep ==
  /\ phase = "up" /\ Exec("idle") /\ Waiting = {}
  /\ exec' = [IdleExec EXCEPT !.at = "load", !.goal = "next"]
  /\ UNCHANGED <<plan, row, phase, ui, foreign, gui, may>>

\* ensure_buffer, called by the refill's worker or by the one that adopts a preview
EnsureBuffer ==
  /\ Running /\ Exec("idle")
  /\ \/ /\ gui.refill = "started"
        /\ exec' = [IdleExec EXCEPT !.at = "count", !.goal = "refill"]
        /\ gui' = [gui EXCEPT !.refill = "running"]
        /\ UNCHANGED ui
     \/ /\ ui.at = "fill"
        /\ exec' = [IdleExec EXCEPT !.at = "count", !.goal = "adopt"]
        /\ ui' = [ui EXCEPT !.at = "filling"]
        /\ UNCHANGED gui
  /\ UNCHANGED <<plan, row, phase, foreign, may>>

Count ==
  /\ Exec("count")
  /\ IF Cardinality(Stock) >= Target
     THEN Return("fine")
     ELSE exec' = [exec EXCEPT !.at = "load", !.present = Cardinality(Stock)] /\ UNCHANGED <<ui, gui>>
  /\ UNCHANGED <<plan, row, phase, foreign, may>>

\* get_resumable_for_session; ensure_next_step is content with an entry that is linked already
LoadPlan ==
  /\ Exec("load")
  /\ IF Current = {} THEN exec' = [exec EXCEPT !.at = "create"] /\ UNCHANGED <<ui, gui>>
     ELSE IF plan[TheCurrent].status = "PAUSED" THEN Return("paused")
     ELSE IF exec.goal = "next" /\ EntriesOf(plan[TheCurrent]) \cap Stock # {} THEN Return("fine")
     ELSE exec' = [exec EXCEPT !.at = "look", !.p = TheCurrent, !.rev = plan[TheCurrent].rev] /\ UNCHANGED <<ui, gui>>
  /\ UNCHANGED <<plan, row, phase, foreign, may>>

\* create_draft_plan with what no automatic entry has used; activate_draft_plan follows
CreateDraft ==
  /\ Exec("create")
  /\ \/ /\ Free # {} /\ NewEntries # {} /\ SessionOpen
        /\ \E n \in Lengths :
             /\ plan' = [plan EXCEPT ![First(Free)] = Draft(n)]
             /\ exec' = [exec EXCEPT !.at = "activate", !.p = First(Free), !.rev = 0]
        /\ UNCHANGED <<ui, gui>>
     \/ /\ Free = {} \/ NewEntries = {}
        /\ Return("nocandidate") /\ UNCHANGED plan
     \/ ~SessionOpen /\ Return("failed") /\ UNCHANGED plan
  /\ UNCHANGED <<row, phase, foreign, may>>

\* activate_draft_plan looks at the session, the steps and the other plans ...
MayActivate(p, rev) ==
  /\ plan[p].status = "DRAFT" /\ plan[p].rev = rev /\ SessionOpen
  /\ PlannedAt(plan[p]) # {} /\ Current = {}

\* ... and writes where the revision and the index still allow it.
Activated(p) == [plan EXCEPT ![p] = Moved(@, "ACTIVE")]

CheckDraft ==
  /\ Exec("activate")
  /\ IF MayActivate(exec.p, exec.rev)
     THEN exec' = [exec EXCEPT !.at = "activated"] /\ UNCHANGED <<ui, gui>>
     ELSE \E r \in {"conflict", "inactive"} : Return(r)
  /\ UNCHANGED <<plan, row, phase, foreign, may>>

ActivateDraft ==
  /\ Exec("activated")
  /\ IF UnchangedSince(exec.p, exec.rev) /\ Sole(exec.p)
     THEN /\ plan' = Activated(exec.p)
          /\ exec' = [exec EXCEPT !.at = "look", !.rev = @ + 1]
          /\ UNCHANGED <<ui, gui>>
     ELSE /\ \E r \in {"conflict", "failed"} : Return(r)
          /\ UNCHANGED plan
  /\ UNCHANGED <<row, phase, foreign, may>>

\* materialize_next_step reads the plan and evaluates its first planned title
EvaluateStep ==
  /\ Exec("look")
  /\ LET q == plan[exec.p]
     IN  IF q.status # "ACTIVE" THEN Return("inactive")
         ELSE IF q.rev # exec.rev THEN Return("conflict")
         ELSE /\ \E next \in IF PlannedAt(q) = {} THEN {"complete"}
                             ELSE {"reject"} \cup {"queue" : e \in NewEntries} :
                   exec' = [exec EXCEPT !.at = next]
              /\ UNCHANGED <<ui, gui>>
  /\ UNCHANGED <<plan, row, phase, foreign, may>>

\* both transactions that end an evaluation ask again: the revision, the status, the step
\* Variant: they rely on the evaluation for the revision and the status.
StillPlansAnyway(p, rev) == PlannedAt(plan[p]) # {}
StillPlans(p, rev) == UnchangedSince(p, rev) /\ plan[p].status = "ACTIVE" /\ PlannedAt(plan[p]) # {}

\* materialize_step: the entry, its link and the revision are one transaction
MaterializeStep ==
  /\ Exec("queue")
  /\ LET q == plan[exec.p]
         e == First(NewEntries)
         present == exec.present + 1
     IN  IF StillPlans(exec.p, exec.rev)
         THEN /\ plan' = [plan EXCEPT ![exec.p] = [Moved(q, q.status) EXCEPT !.steps[First(PlannedAt(q))] = Step("QUEUED", e)]]
              /\ row' = [row EXCEPT ![e] = "waiting"]
              /\ IF exec.goal = "next" \/ present >= Target THEN Return("queued")
                 ELSE /\ exec' = [exec EXCEPT !.at = "look", !.rev = @ + 1, !.present = present]
                      /\ gui' = [gui EXCEPT !.changed = TRUE]
                      /\ UNCHANGED ui
         ELSE Return("conflict") /\ UNCHANGED <<plan, row>>
  /\ UNCHANGED <<phase, foreign, may>>

\* pause_invalid_step: the rejected title and the pause are one transaction
PauseInvalidStep ==
  /\ Exec("reject")
  /\ LET q == plan[exec.p]
     IN  IF StillPlans(exec.p, exec.rev)
         THEN /\ plan' = [plan EXCEPT ![exec.p] = [Moved(q, "PAUSED") EXCEPT !.steps[First(PlannedAt(q))] = Step("INVALIDATED", NoEntry)]]
              /\ Return("rejected")
         ELSE Return("conflict") /\ UNCHANGED plan
  /\ UNCHANGED <<row, phase, foreign, may>>

\* _reconcile_completion: nothing is left to plan, and a successor follows
CompletePlan ==
  /\ Exec("complete")
  /\ IF UnchangedSince(exec.p, exec.rev) /\ "COMPLETED" \in Transitions[plan[exec.p].status]
     THEN /\ plan' = [plan EXCEPT ![exec.p] = Moved(@, "COMPLETED")]
          /\ exec' = [exec EXCEPT !.at = "create"]
          /\ UNCHANGED <<ui, gui>>
     ELSE Return("conflict") /\ UNCHANGED plan
  /\ UNCHANGED <<row, phase, foreign, may>>

\* any statement may raise (the database is busy, the rules have changed since)
ExecutionFails ==
  /\ exec.at # "idle" /\ Return("failed")
  /\ UNCHANGED <<plan, row, phase, foreign, may>>

ExecutionStep ==
  \/ Count \/ LoadPlan \/ CreateDraft \/ CheckDraft \/ ActivateDraft
  \/ EvaluateStep \/ MaterializeStep \/ PauseInvalidStep \/ CompletePlan \/ ExecutionFails

Execution == EnsureNextStep \/ EnsureBuffer \/ ExecutionStep
----------------------------------------------------------------------------
(* The operator's decisions: one worker at a time, on what a dialog had    *)
(* shown when it was opened.  At startup the decision is about the plan    *)
(* that was kept, and a decision that fails leaves the dialog open.        *)

Ui(at) == ui.at = at /\ phase # "boot"
Commanded(c) == ui.at = "idle" /\ phase = "up" /\ Once(c)

Decided(ok) ==
  IF phase = "ask" THEN /\ phase' = IF ok THEN "up" ELSE "ask"
                        /\ ui' = IF ok THEN IdleUi ELSE [ui EXCEPT !.at = "asked", !.n = NoPlan]
                   ELSE ui' = IdleUi /\ UNCHANGED phase

\* available_plan_actions
Actions(status) ==
  CASE status = "DRAFT"  -> {"activate", "discard"}
    [] status = "ACTIVE" -> {"inspect", "discard"}
    [] status = "PAUSED" -> {"resume", "inspect", "discard"}
    [] OTHER             -> {}

\* overview and the choice of an action on what it shows; it sets the minimum stock of a
\* plan that can go on, and the run is taken to be active
ChooseAction ==
  /\ Commanded("dialog") /\ Free # Plans
  /\ \E a \in Actions(plan[Latest].status) :
       ui' = [IdleUi EXCEPT !.at = a, !.p = Latest, !.rev = plan[Latest].rev]
  /\ gui' = [gui EXCEPT !.auto = @ \/ plan[Latest].status \in Resumable]
  /\ UNCHANGED <<plan, row, phase, exec, foreign>>

\* activate of a draft, from the dialog or after the adoption of a preview, which fills the buffer
CheckUiDraft ==
  /\ Ui("activate")
  /\ IF MayActivate(ui.p, ui.rev) THEN ui' = [ui EXCEPT !.at = "activated"] ELSE ui' = IdleUi
  /\ UNCHANGED <<plan, row, phase, exec, foreign, gui, may>>

ActivateUiDraft ==
  /\ Ui("activated")
  /\ IF UnchangedSince(ui.p, ui.rev) /\ Sole(ui.p)
     THEN /\ plan' = Activated(ui.p)
          /\ ui' = IF ui.n = ui.p THEN [ui EXCEPT !.at = "fill"] ELSE IdleUi
     ELSE ui' = IdleUi /\ UNCHANGED plan
  /\ UNCHANGED <<row, phase, exec, foreign, gui, may>>

\* recovery_state pauses the session's plan before it describes it
Inspected == [p \in Plans |-> IF plan[p].status = "ACTIVE" THEN Moved(plan[p], "PAUSED") ELSE plan[p]]
Interrupted(p) == \E e \in EntriesOf(plan[p]) : row[e] = "interrupted"

\* resume_plan: the revision, the state of the recovery, the rules for each title ...
ResumeChecks ==
  /\ Ui("resume")
  /\ IF plan[ui.p].rev # ui.rev THEN Decided(FALSE) /\ UNCHANGED plan
     ELSE /\ plan' = Inspected
          /\ \/ Decided(FALSE)
             \/ /\ Current # {} /\ ~Interrupted(TheCurrent)
                /\ ui' = [ui EXCEPT !.at = "resumed"] /\ UNCHANGED phase
  /\ UNCHANGED <<row, exec, foreign, gui, may>>

\* ... and resume_recovered_plan with the revision of the dialog
ResumePlan ==
  /\ Ui("resumed")
  /\ IF UnchangedSince(ui.p, ui.rev) /\ "ACTIVE" \in Transitions[plan[ui.p].status] /\ Sole(ui.p)
     THEN plan' = [plan EXCEPT ![ui.p] = Moved(@, "ACTIVE")] /\ Decided(TRUE)
     ELSE Decided(FALSE) /\ UNCHANGED plan
  /\ UNCHANGED <<row, exec, foreign, gui, may>>

\* recalculate of the dialog takes the revision from the inspection, whichever plan that is
\* of, unless the inspection fails
InspectForRecalculation ==
  /\ Ui("inspect")
  /\ \/ /\ plan' = Inspected
        /\ ui' = [ui EXCEPT !.at = "recalculate", !.rev = IF Current = {} THEN @ ELSE Inspected[TheCurrent].rev]
     \/ ui' = [ui EXCEPT !.at = "recalculate"] /\ UNCHANGED plan
  /\ UNCHANGED <<row, phase, exec, foreign, gui, may>>

\* recalculate_plan: a new draft for what remains ...
DraftReplacement ==
  /\ Ui("recalculate")
  /\ \/ /\ plan[ui.p].rev = ui.rev /\ Free # {} /\ NewEntries # {} /\ SessionOpen
        /\ \E n \in Lengths : plan' = [plan EXCEPT ![First(Free)] = Draft(n)]
        /\ ui' = [ui EXCEPT !.at = "replace", !.n = First(Free)] /\ UNCHANGED phase
     \/ /\ plan[ui.p].rev # ui.rev \/ Free = {} \/ NewEntries = {} \/ ~SessionOpen
        /\ Decided(FALSE) /\ UNCHANGED plan
  /\ UNCHANGED <<row, exec, foreign, gui, may>>

\* ... and replace_recovered_plan in one transaction
Exchanged(p, n, new) == [plan EXCEPT ![p] = Retired(@, "INVALIDATED"), ![n] = new]

ReplacePlan ==
  /\ Ui("replace")
  /\ IF UnchangedSince(ui.p, ui.rev) /\ plan[ui.n].status = "DRAFT" /\ Sole(ui.p)
     THEN /\ plan' = Exchanged(ui.p, ui.n, Moved(plan[ui.n], "ACTIVE"))
          /\ row' = TakenBack(ui.p)
          /\ Decided(TRUE)
     ELSE Decided(FALSE) /\ UNCHANGED <<plan, row>>
  /\ QueueChanged
  /\ UNCHANGED <<exec, foreign, may>>

\* discard_recovered_plan asks for a title that plays ...
CheckDiscard ==
  /\ Ui("discard")
  /\ IF plan[ui.p].rev = ui.rev /\ \A e \in EntriesOf(plan[ui.p]) : row[e] # "playing"
     THEN ui' = [ui EXCEPT !.at = "discarded"] /\ UNCHANGED phase
     ELSE Decided(plan[ui.p].status = "DISCARDED")
  /\ UNCHANGED <<plan, row, exec, foreign, gui, may>>

\* ... before it takes back what waits.
DiscardPlan ==
  /\ Ui("discarded")
  /\ IF UnchangedSince(ui.p, ui.rev)
     THEN /\ plan' = [plan EXCEPT ![ui.p] = Retired(@, "DISCARDED")]
          /\ row' = TakenBack(ui.p)
          /\ Decided(TRUE)
     ELSE Decided(FALSE) /\ UNCHANGED <<plan, row>>
  /\ QueueChanged
  /\ UNCHANGED <<exec, foreign, may>>

\* stop_automatic_queue ends the refill at once; end_dynamic_automatic_queue goes on in a
\* worker, which looks for the plan ...
EndAutomatic ==
  /\ Commanded("end")
  /\ gui' = [gui EXCEPT !.auto = FALSE]
  /\ ui' \in {ui, [IdleUi EXCEPT !.at = "end"]}
  /\ UNCHANGED <<plan, row, phase, exec, foreign>>

FindPlanToEnd ==
  /\ Ui("end")
  /\ ui' = IF Current = {} THEN IdleUi
           ELSE [ui EXCEPT !.at = "ended", !.p = TheCurrent, !.rev = plan[TheCurrent].rev]
  /\ UNCHANGED <<plan, row, phase, exec, foreign, gui, may>>

\* ... and ends it with what is already in the queue left there.
EndPlan ==
  /\ Ui("ended")
  /\ plan' = IF UnchangedSince(ui.p, ui.rev) /\ "DISCARDED" \in Transitions[plan[ui.p].status]
             THEN [plan EXCEPT ![ui.p] = Retired(@, "DISCARDED")] ELSE plan
  /\ ui' = IdleUi
  /\ UNCHANGED <<row, phase, exec, foreign, gui, may>>

\* adopt_preview, for the first time or after the operator agreed to replace a plan
Adopt ==
  /\ Commanded("adopt")
  /\ ui' = [IdleUi EXCEPT !.at = "adopt"]
  /\ UNCHANGED <<plan, row, phase, exec, foreign, gui>>

CheckAdoption ==
  /\ Ui("adopt")
  /\ IF Current \subseteq {ui.p} THEN ui' = [ui EXCEPT !.at = "write"]
     ELSE \/ ui' = [ui EXCEPT !.p = TheCurrent, !.rev = plan[TheCurrent].rev]
          \/ ui' = IdleUi
  /\ UNCHANGED <<plan, row, phase, exec, foreign, gui, may>>

\* create, which is activated after it, or create_replacing_resumable in one transaction
WriteAdoption ==
  /\ Ui("write")
  /\ \/ /\ ui.p = NoPlan /\ Free # {} /\ NewEntries # {} /\ SessionOpen
        /\ \E n \in Lengths : plan' = [plan EXCEPT ![First(Free)] = Draft(n)]
        /\ ui' = [ui EXCEPT !.at = "activate", !.p = First(Free), !.n = First(Free)]
        /\ UNCHANGED row
     \/ /\ ui.p # NoPlan /\ Free # {} /\ NewEntries # {} /\ SessionOpen
        /\ UnchangedSince(ui.p, ui.rev) /\ plan[ui.p].status \in Resumable /\ Sole(ui.p)
        /\ \E n \in Lengths : plan' = Exchanged(ui.p, First(Free), Moved(Draft(n), "ACTIVE"))
        /\ row' = TakenBack(ui.p)
        /\ ui' = [ui EXCEPT !.at = "fill"]
     \/ ui' = IdleUi /\ UNCHANGED <<plan, row>>
  /\ QueueChanged
  /\ UNCHANGED <<phase, exec, foreign, may>>

\* any statement of the worker may raise
ActionFails ==
  /\ ui.at \notin {"idle", "asked", "fill", "filling"} /\ phase # "boot"
  /\ Decided(FALSE)
  /\ UNCHANGED <<plan, row, exec, foreign, gui, may>>

Operator ==
  \/ ChooseAction \/ CheckUiDraft \/ ActivateUiDraft \/ ResumeChecks \/ ResumePlan
  \/ InspectForRecalculation \/ DraftReplacement \/ ReplacePlan \/ CheckDiscard \/ DiscardPlan
  \/ EndAutomatic \/ FindPlanToEnd \/ EndPlan \/ Adopt \/ CheckAdoption \/ WriteAdoption \/ ActionFails
----------------------------------------------------------------------------
(* Playback: the automatic entries go over the decks, and a title that no  *)
(* plan has queued may start in between.                                   *)

OnDecks == {e \in Entries : row[e] \in {"loaded", "playing"}}

Play(from, to) ==
  /\ phase = "up"
  /\ \E e \in Entries : row[e] \in from /\ row' = [row EXCEPT ![e] = to]
  /\ QueueChanged
  /\ UNCHANGED <<plan, phase, exec, ui, foreign>>

LoadTitle == Cardinality(OnDecks) < 2 /\ Play({"waiting"}, "loaded") /\ UNCHANGED may
StartTitle == Play({"loaded"}, "playing") /\ UNCHANGED may
EndTitle == Play({"playing"}, "over") /\ UNCHANGED may
DropTitle == Once("drop") /\ Play({"waiting", "loaded"}, "over")

\* pause_for_foreign_playback reads the active plan and that no step of it is linked ...
ForeignTitleStarts ==
  /\ phase = "up" /\ foreign = Unobserved /\ Once("foreign")
  /\ \E p \in Plans : plan[p].status = "ACTIVE" /\ foreign' = [p |-> p, rev |-> plan[p].rev]
  /\ UNCHANGED <<plan, row, phase, exec, ui, gui>>

\* ... and pauses it; observe_playback_started swallows the conflict.
PauseForForeignPlayback ==
  /\ foreign # Unobserved /\ phase # "boot"
  /\ plan' = IF UnchangedSince(foreign.p, foreign.rev)
             THEN [plan EXCEPT ![foreign.p] = Retired(@, "PAUSED")] ELSE plan
  /\ foreign' = Unobserved
  /\ UNCHANGED <<row, phase, exec, ui, gui, may>>

Playback == LoadTitle \/ StartTitle \/ EndTitle \/ DropTitle \/ ForeignTitleStarts \/ PauseForForeignPlayback
----------------------------------------------------------------------------
(* _refresh_queue and _request_automatic_buffer_refill on the GUI thread.  *)

Requested(g) == IF ~g.auto THEN g
                ELSE IF g.refill # "none" THEN [g EXCEPT !.again = TRUE]
                ELSE [g EXCEPT !.refill = "started", !.again = FALSE]
Refreshed(g) == IF g.changed THEN Requested([g EXCEPT !.changed = FALSE]) ELSE g

\* Variant: a request that came while the refill was running is forgotten.
AnsweredOnce(g) == Refreshed([g EXCEPT !.refill = "none", !.again = FALSE])
Answered(g) == LET h == Refreshed([g EXCEPT !.refill = "none", !.again = FALSE])
               IN  IF g.again THEN Requested(h) ELSE h

RefreshQueue ==
  /\ phase = "up" /\ gui.changed
  /\ gui' = Refreshed(gui)
  /\ UNCHANGED <<plan, row, phase, exec, ui, foreign, may>>

RefillAnswered ==
  /\ phase = "up" /\ gui.refill = "answered"
  /\ gui' = Answered(gui)
  /\ UNCHANGED <<plan, row, phase, exec, ui, foreign, may>>
----------------------------------------------------------------------------
(* The process: startup with its decision, the end of the session, crashes.*)

\* inspect_recovery before the controller is initialised; a failed inspection is no decision
InspectAtStartup ==
  /\ phase = "boot"
  /\ \/ /\ Current # {} /\ phase' = "ask"
        /\ plan' = Inspected
        /\ ui' = [IdleUi EXCEPT !.at = "asked", !.p = TheCurrent, !.rev = Inspected[TheCurrent].rev]
     \/ phase' = "up" /\ UNCHANGED <<plan, ui>>
  /\ UNCHANGED <<row, exec, foreign, gui, may>>

Decide ==
  /\ phase = "ask" /\ ui.at = "asked"
  /\ \/ /\ \E a \in {"recalculate", "discard"} \cup {"resume" : p \in {q \in Current : ~Interrupted(q)}} :
             ui' = [ui EXCEPT !.at = a]
        /\ UNCHANGED phase
     \/ phase' = "up" /\ ui' = IdleUi
  /\ UNCHANGED <<plan, row, exec, foreign, gui, may>>

\* PartySessionService.finish while the workers run on: the plan first, then the session
CloseSession ==
  /\ phase = "up" /\ phase' = "closing" /\ Once("close")
  /\ UNCHANGED <<plan, row, exec, ui, foreign, gui>>

DiscardForFinishedSession ==
  /\ phase = "closing" /\ phase' = "closed"
  /\ plan' = [p \in Plans |-> IF p \in Current THEN Retired(plan[p], "DISCARDED") ELSE plan[p]]
  /\ UNCHANGED <<row, exec, ui, foreign, gui, may>>

FinishSession ==
  /\ phase = "closed" /\ phase' = "over"
  /\ UNCHANGED <<plan, row, exec, ui, foreign, gui, may>>

\* the end of the process, and recover_queue_after_restart of the next one
Restart ==
  /\ phase # "over" /\ Once("restart")
  /\ row' = [e \in Entries |-> CASE row[e] = "playing" -> "interrupted"
                                 [] row[e] = "loaded"  -> "waiting"
                                 [] OTHER              -> row[e]]
  /\ phase' = "boot"
  /\ exec' = IdleExec /\ ui' = IdleUi /\ foreign' = Unobserved /\ gui' = IdleGui
  /\ UNCHANGED plan

Process == InspectAtStartup \/ Decide \/ CloseSession \/ DiscardForFinishedSession \/ FinishSession \/ Restart

Next == Execution \/ Operator \/ Playback \/ RefreshQueue \/ RefillAnswered \/ Process

Spec == Init /\ [][Next]_vars
----------------------------------------------------------------------------
(* Properties.                                                             *)

StepRecord == [st : {"PLANNED", "QUEUED", "INVALIDATED"}, entry : Entries \cup {NoEntry}]
PlanRecord == [status : Statuses, rev : Nat, steps : Seq(StepRecord)]

OneResumable == \A p, q \in Plans : plan[p].status \in Resumable /\ plan[q].status \in Resumable => p = q

\* Plans, rows and what the threads hold keep their ranges, and of the plans of the session
\* one at most can go on, whoever activates one and however the activations meet.
TypeOK ==
  /\ plan \in [Plans -> PlanRecord] /\ OneResumable
  /\ row \in [Entries -> {"none", "waiting", "loaded", "playing", "over", "interrupted", "removed"}]
  /\ exec.present \in 0..Target
  /\ \A holder \in {exec, ui, foreign} : holder.p \in Plans \cup {NoPlan} /\ holder.rev \in Nat
  /\ ui.n \in Plans \cup {NoPlan}

\* Plans and queue keep one account: every automatic entry was queued by exactly one step,
\* and a plan that has ended plans nothing any more, whichever writers met at its revision.
OneAccount ==
  /\ \A e \in Entries \ NewEntries :
       \E p \in Plans : \E i \in DOMAIN plan[p].steps :
         /\ plan[p].steps[i].entry = e
         /\ \A q \in Plans : \A j \in DOMAIN plan[q].steps : plan[q].steps[j].entry = e => <<q, j>> = <<p, i>>
  /\ \A p \in Plans : /\ EntriesOf(plan[p]) \cap NewEntries = {}
                      /\ plan[p].status \in Ended => PlannedAt(plan[p]) = {}

\* What has ended stays as it ended: no late worker and no dialog with an old view
\* changes the status or the steps of a completed, replaced or discarded plan.
EndedPlanStays ==
  [][\A p \in Plans : plan[p].status \in Ended
        => plan'[p].status \in Ended /\ plan'[p].steps = plan[p].steps]_vars

\* A title gets into the queue only by the plan that is active at that very moment: after a
\* pause, an end, a replacement or a restart nothing that was evaluated before is queued.
OnlyActivePlanQueues ==
  [][\A e \in Entries : row[e] = "none" /\ row'[e] # "none"
       => \E p \in Plans : plan[p].status = "ACTIVE" /\ plan'[p].status = "ACTIVE" /\ e \in EntriesOf(plan'[p])]_vars

\* The thread inside the lock goes on, the one that fills the buffer gets it in the end,
\* and the GUI thread comes round to its refresh and its callbacks.
Fairness == /\ WF_vars(ExecutionStep) /\ SF_vars(EnsureBuffer)
            /\ WF_vars(RefreshQueue) /\ WF_vars(RefillAnswered)
FairSpec == Spec /\ Fairness

\* No change of the queue gets lost between two refills: while the automatic is on, one that
\* comes when a refill has already counted makes a later one count again.
ChangeIsCounted ==
  (phase = "up" /\ gui.auto /\ gui.changed)
    ~> (phase # "up" \/ ~gui.auto \/ (exec.at = "count" /\ exec.goal = "refill"))
=============================================================================
