------------------------- MODULE SelectionPlanProof -------------------------
(***************************************************************************)
(* Proofs about SelectionPlan, for any number of plans and titles and any  *)
(* stock to keep, whatever happens besides and how often: at most one plan *)
(* of the session can go on, only an active plan queues titles, what has   *)
(* ended stays as it is, and plans and queue keep one account.             *)
(*                                                                         *)
(* The argument is the one of the code: a writer holds a plan and the      *)
(* revision it has read, and a plan of which this is still the revision    *)
(* has not been written since.                                             *)
(***************************************************************************)
EXTENDS SelectionPlan, FiniteSetTheorems, SequenceTheorems, WellFoundedInduction, TLAPS

\* One plan at most can go on, and a plan is never written without a higher revision.
PlansOK(f) ==
  /\ f \in [Plans -> PlanRecord]
  /\ \A p, q \in Plans : f[p].status \in Resumable /\ f[q].status \in Resumable => p = q
Grows(f, g) ==
  \A p \in Plans : \/ g[p] = f[p] \/ f[p].status = "none"
                   \/ g[p].rev > f[p].rev /\ g[p].status # "none"
MayBecome(g) == PlansOK(g) /\ Grows(plan, g)

Rows == [Entries -> {"none", "waiting", "loaded", "playing", "over", "interrupted", "removed"}]
PlanOrNone == Plans \cup {NoPlan}
Evaluating == {"activate", "activated", "look", "queue", "reject", "complete"}
Execs == [at : {"idle", "count", "load", "create"} \cup Evaluating, goal : {"none", "next", "refill", "adopt"},
          present : 0..Target, p : PlanOrNone, rev : Nat]
UiAts == {"idle", "asked", "fill", "filling", "activate", "activated", "resume", "resumed", "inspect",
          "recalculate", "replace", "discard", "discarded", "end", "ended", "adopt", "write"}
Uis == [at : UiAts, p : PlanOrNone, rev : Nat, n : PlanOrNone]
Foreigns == [p : PlanOrNone, rev : Nat]

\* What the execution service is about to write is about a plan, and about a title that is
\* not in the queue.
HoldsPlan == exec.at \in Evaluating => exec.p \in Plans
HoldsTitle == exec.at = "queue" => NewEntries # {}

\* A plan that still has the revision it was seen active at is active.
SeenActive ==
  foreign.p \in Plans =>
    /\ plan[foreign.p].status # "none" /\ foreign.rev <= plan[foreign.p].rev
    /\ foreign.rev = plan[foreign.p].rev => plan[foreign.p].status = "ACTIVE"

PlanInv == /\ PlansOK(plan) /\ row \in Rows
           /\ exec \in Execs /\ ui \in Uis /\ foreign \in Foreigns
           /\ HoldsPlan /\ HoldsTitle /\ SeenActive

\* What each step has to keep.
NewStayNew == \A e \in Entries : row[e] = "none" => row'[e] = "none"
QueuedByActive ==
  \A e \in Entries : row[e] = "none" /\ row'[e] # "none"
    => \E p \in Plans : plan[p].status = "ACTIVE" /\ plan'[p].status = "ACTIVE" /\ e \in EntriesOf(plan'[p])
Kept == PlanInv' /\ QueuedByActive /\ Grows(plan, plan')
----------------------------------------------------------------------------
(* Numbers. *)

LEMMA Constants ==
  /\ MaxPlans \in Nat \ {0} /\ MaxEntries \in Nat \ {0} /\ Depth \in Nat \ {0} /\ Target \in Nat \ {0}
  /\ Plans \subseteq Nat /\ Entries \subseteq Nat /\ NoPlan \notin Plans /\ NoEntry \notin Entries
  /\ NoPlan \in Nat
BY Bounds DEF Plans, Entries, NoPlan, NoEntry

LEMMA Least ==
  ASSUME NEW S \in SUBSET Nat, S # {}
  PROVE  \E i \in S : \A j \in S : i <= j
<1>1. PICK i \in S : \A j \in S : ~ (<<j, i>> \in OpToRel(<, Nat))
  BY NatLessThanWellFounded, WFMin
<1>2. \A j \in S : ~ (j < i)
  BY <1>1 DEF OpToRel
<1> QED  BY <1>2

LEMMA FirstIsIn ==
  ASSUME NEW S \in SUBSET Nat, S # {}
  PROVE  First(S) \in S
BY Least DEF First

LEMMA LatestIsPlan ==
  ASSUME Free # Plans
  PROVE  Latest \in Plans
<1> DEFINE S == Plans \ Free
           T == {MaxPlans - p : p \in S}
<1>1. S # {} /\ S \subseteq Plans
  BY DEF Free
<1>2. T \in SUBSET Nat /\ T # {}
  BY <1>1, Constants DEF Plans
<1>3. PICK i \in T : \A j \in T : i <= j
  BY <1>2, Least
<1>4. PICK p \in S : i = MaxPlans - p
  BY <1>3
<1>5. ASSUME NEW q \in S PROVE q <= p
  <2>1. MaxPlans - q \in T
    OBVIOUS
  <2>2. MaxPlans - p <= MaxPlans - q
    BY <1>3, <1>4, <2>1
  <2>3. p \in Nat /\ q \in Nat
    BY <1>1, Constants
  <2> QED  BY <2>2, <2>3, Constants
<1> QED  BY <1>1, <1>5 DEF Latest

LEMMA StockCounts == Cardinality(Stock) \in Nat
<1>1. IsFiniteSet(1..MaxEntries)
  BY Constants, FS_Interval
<1>2. Stock \subseteq 1..MaxEntries
  BY DEF Stock, Entries
<1> QED  BY <1>1, <1>2, FS_Subset, FS_CardinalityType
----------------------------------------------------------------------------
(* Plans. *)

LEMMA MovedTyped ==
  ASSUME NEW q \in PlanRecord, NEW s \in Statuses
  PROVE  /\ Moved(q, s) \in PlanRecord
         /\ Moved(q, s).status = s /\ Moved(q, s).rev = q.rev + 1 /\ Moved(q, s).steps = q.steps
<1>1. q.rev \in Nat /\ q.steps \in Seq(StepRecord)
  BY DEF PlanRecord
<1>2. /\ DOMAIN Moved(q, s) = {"status", "rev", "steps"}
      /\ Moved(q, s).status = s /\ Moved(q, s).rev = q.rev + 1 /\ Moved(q, s).steps = q.steps
  BY DEF Moved, PlanRecord
<1>3. Moved(q, s) \in PlanRecord
  <2> DEFINE r == [q EXCEPT !.status = s]
  <2>1. r \in PlanRecord /\ r.rev = q.rev
    BY DEF PlanRecord
  <2> HIDE DEF r
  <2>2. [r EXCEPT !.rev = r.rev + 1] \in PlanRecord
    BY <2>1 DEF PlanRecord
  <2>3. Moved(q, s) = [r EXCEPT !.rev = r.rev + 1]
    BY DEF Moved, r
  <2> QED  BY <2>2, <2>3
<1> QED  BY <1>2, <1>3

LEMMA StepsTyped ==
  ASSUME NEW q \in PlanRecord
  PROVE  /\ Dropped(q) \in PlanRecord
         /\ Dropped(q).status = q.status /\ Dropped(q).rev = q.rev
<1> DEFINE steps == [i \in DOMAIN q.steps |->
                       IF q.steps[i].st = "PLANNED" THEN Step("INVALIDATED", NoEntry) ELSE q.steps[i]]
<1>1. q.steps \in Seq(StepRecord)
  BY DEF PlanRecord
<1>2. steps \in Seq(StepRecord)
  <2>1. DOMAIN q.steps = 1..Len(q.steps) /\ Len(q.steps) \in Nat
    BY <1>1, LenProperties
  <2>2. \A i \in 1..Len(q.steps) : steps[i] \in StepRecord
    BY <1>1, <2>1, ElementOfSeq DEF Step, StepRecord
  <2>3. steps \in [1..Len(q.steps) -> StepRecord]
    BY <2>1, <2>2
  <2> QED  BY <2>1, <2>3, SeqDef
<1>3. Dropped(q) = [q EXCEPT !.steps = steps]
  BY DEF Dropped
<1> HIDE DEF steps
<1> QED  BY <1>2, <1>3 DEF PlanRecord

LEMMA RetiredTyped ==
  ASSUME NEW q \in PlanRecord, NEW s \in Statuses
  PROVE  /\ Retired(q, s) \in PlanRecord
         /\ Retired(q, s).status = s /\ Retired(q, s).rev = q.rev + 1
BY MovedTyped, StepsTyped DEF Retired

LEMMA DraftTyped ==
  ASSUME NEW n \in Lengths
  PROVE  Draft(n) \in PlanRecord /\ Draft(n).status = "DRAFT" /\ Draft(n).rev = 0
<1>1. n \in Nat
  BY Constants DEF Lengths
<1>2. [i \in 1..n |-> Planned] \in [1..n -> StepRecord]
  BY DEF Planned, Step, StepRecord
<1>3. [i \in 1..n |-> Planned] \in Seq(StepRecord)
  BY <1>1, <1>2, SeqDef
<1> QED  BY <1>3 DEF Draft, PlanRecord, Statuses

\* One step of a plan is settled.
LEMMA SettledTyped ==
  ASSUME NEW q \in PlanRecord, PlannedAt(q) # {}, NEW x \in StepRecord, NEW s \in Statuses
  PROVE  LET i == First(PlannedAt(q))
             r == [Moved(q, s) EXCEPT !.steps[i] = x]
         IN  /\ r \in PlanRecord /\ r.status = s /\ r.rev = q.rev + 1
             /\ i \in DOMAIN r.steps /\ r.steps[i] = x
<1> DEFINE i == First(PlannedAt(q))
           m == Moved(q, s)
<1>1. m \in PlanRecord /\ m.status = s /\ m.rev = q.rev + 1 /\ m.steps = q.steps
  BY MovedTyped
<1>2. q.steps \in Seq(StepRecord)
  BY DEF PlanRecord
<1>3. DOMAIN q.steps = 1..Len(q.steps) /\ Len(q.steps) \in Nat
  BY <1>2, LenProperties
<1>4. i \in DOMAIN q.steps
  <2>1. PlannedAt(q) \in SUBSET Nat
    BY <1>3 DEF PlannedAt
  <2> QED  BY <2>1, FirstIsIn DEF PlannedAt
<1> HIDE DEF i, m
<1>5. [m.steps EXCEPT ![i] = x] \in Seq(StepRecord) /\ DOMAIN [m.steps EXCEPT ![i] = x] = DOMAIN q.steps
  BY <1>1, <1>2, <1>4, ExceptSeq
<1> DEFINE r == [m EXCEPT !.steps[i] = x]
<1>6. r.steps = [m.steps EXCEPT ![i] = x] /\ r.status = m.status /\ r.rev = m.rev /\ r \in PlanRecord
  BY <1>1, <1>5 DEF PlanRecord
<1>7. i \in DOMAIN r.steps /\ r.steps[i] = x
  BY <1>1, <1>4, <1>5, <1>6
<1> QED  BY <1>1, <1>6, <1>7 DEF i, m
----------------------------------------------------------------------------
(* Writes of plans. *)

\* One plan is written: it may go on if it could before, or if no other can.
LEMMA WritePlan ==
  ASSUME PlansOK(plan), NEW p, NEW r,
         p \in Plans => /\ r \in PlanRecord
                        /\ plan[p].status = "none" \/ (r.rev > plan[p].rev /\ r.status # "none")
                        /\ r.status \in Resumable => Sole(p) \/ plan[p].status \in Resumable
  PROVE  MayBecome([plan EXCEPT ![p] = r])
<1> DEFINE g == [plan EXCEPT ![p] = r]
<1>1. g \in [Plans -> PlanRecord]
  BY DEF PlansOK
<1>2. \A q \in Plans : g[q] = IF q = p THEN r ELSE plan[q]
  BY DEF PlansOK
<1>3. Grows(plan, g)
  BY <1>2 DEF Grows
<1>4. ASSUME NEW a \in Plans, NEW b \in Plans, g[a].status \in Resumable, g[b].status \in Resumable
      PROVE  a = b
  BY <1>2, <1>4 DEF PlansOK, Sole
<1> HIDE DEF g
<1>5. MayBecome(g)
  BY <1>1, <1>3, <1>4 DEF MayBecome, PlansOK
<1> QED  BY <1>5 DEF g

LEMMA SamePlans ==
  ASSUME PlansOK(plan)
  PROVE  MayBecome(plan)
BY DEF MayBecome, Grows

\* The first plan that is not used gets a draft.
LEMMA WriteDraft ==
  ASSUME PlansOK(plan), Free # {}, NEW n \in Lengths
  PROVE  /\ MayBecome([plan EXCEPT ![First(Free)] = Draft(n)])
         /\ First(Free) \in Plans /\ plan[First(Free)].status = "none"
<1>1. Free \in SUBSET Nat
  BY Constants DEF Free
<1>2. First(Free) \in Plans /\ plan[First(Free)].status = "none"
  BY <1>1, FirstIsIn DEF Free
<1>3. MayBecome([plan EXCEPT ![First(Free)] = Draft(n)])
  <2>1. Draft(n) \in PlanRecord /\ Draft(n).status \notin Resumable
    BY DraftTyped DEF Resumable
  <2> QED  BY <1>2, <2>1, WritePlan
<1> QED  BY <1>2, <1>3

\* A plan is activated where the index allows it, or paused or ended.
LEMMA WriteMoved ==
  ASSUME PlansOK(plan), NEW p, NEW s \in Statuses \ {"none"},
         s \in Resumable => Sole(p) \/ plan[p].status \in Resumable
  PROVE  /\ MayBecome([plan EXCEPT ![p] = Moved(@, s)])
         /\ MayBecome([plan EXCEPT ![p] = Retired(@, s)])
<1>1. CASE p \in Plans
  <2>1. plan[p] \in PlanRecord
    BY <1>1 DEF PlansOK
  <2>2. plan[p].rev \in Nat
    BY <2>1 DEF PlanRecord
  <2>3. /\ Moved(plan[p], s) \in PlanRecord /\ Moved(plan[p], s).status = s
        /\ Moved(plan[p], s).rev > plan[p].rev
    BY <2>1, <2>2, MovedTyped
  <2>4. /\ Retired(plan[p], s) \in PlanRecord /\ Retired(plan[p], s).status = s
        /\ Retired(plan[p], s).rev > plan[p].rev
    BY <2>1, <2>2, RetiredTyped
  <2>5. MayBecome([plan EXCEPT ![p] = Moved(plan[p], s)])
    BY <2>3, WritePlan
  <2>6. MayBecome([plan EXCEPT ![p] = Retired(plan[p], s)])
    BY <2>4, WritePlan
  <2> QED  BY <2>5, <2>6
<1>2. CASE p \notin Plans
  <2>1. [plan EXCEPT ![p] = Moved(@, s)] = plan /\ [plan EXCEPT ![p] = Retired(@, s)] = plan
    BY <1>2 DEF PlansOK
  <2> QED  BY <2>1, SamePlans
<1> QED  BY <1>1, <1>2

\* One plan takes the place of another in one transaction.
LEMMA WriteExchange ==
  ASSUME PlansOK(plan), NEW p, Sole(p), NEW n, NEW r,
         n \in Plans => r \in PlanRecord /\ r.status # "none"
                        /\ (plan[n].status = "none" \/ r.rev > plan[n].rev)
  PROVE  MayBecome(Exchanged(p, n, r))
<1> DEFINE g == Exchanged(p, n, r)
<1>1. p \in Plans => /\ Retired(plan[p], "INVALIDATED") \in PlanRecord
                     /\ Retired(plan[p], "INVALIDATED").status = "INVALIDATED"
                     /\ Retired(plan[p], "INVALIDATED").rev > plan[p].rev
  <2> SUFFICES ASSUME p \in Plans
               PROVE  /\ Retired(plan[p], "INVALIDATED") \in PlanRecord
                      /\ Retired(plan[p], "INVALIDATED").status = "INVALIDATED"
                      /\ Retired(plan[p], "INVALIDATED").rev > plan[p].rev
    OBVIOUS
  <2>1. plan[p] \in PlanRecord
    BY DEF PlansOK
  <2>2. plan[p].rev \in Nat
    BY <2>1 DEF PlanRecord
  <2>3. "INVALIDATED" \in Statuses
    BY DEF Statuses, Ended
  <2> QED  BY <2>1, <2>2, <2>3, RetiredTyped
<1>2. \A q \in Plans : g[q] = IF q = n THEN r ELSE IF q = p THEN Retired(plan[p], "INVALIDATED") ELSE plan[q]
  BY DEF Exchanged, PlansOK
<1>3. g \in [Plans -> PlanRecord]
  <2>1. DOMAIN g = Plans /\ g = [q \in Plans |-> g[q]]
    BY DEF Exchanged, PlansOK
  <2>2. \A q \in Plans : g[q] \in PlanRecord
    BY <1>1, <1>2 DEF PlansOK
  <2> HIDE DEF g
  <2> QED  BY <2>1, <2>2
<1> HIDE DEF g
<1>4. Grows(plan, g)
  BY <1>1, <1>2 DEF Grows
<1>5. ASSUME NEW a \in Plans, NEW b \in Plans, g[a].status \in Resumable, g[b].status \in Resumable
      PROVE  a = b
  <2>1. \A q \in Plans : g[q].status \in Resumable => q = n
    BY <1>1, <1>2 DEF Sole, Resumable
  <2> QED  BY <1>5, <2>1
<1>6. MayBecome(g)
  BY <1>3, <1>4, <1>5 DEF MayBecome, PlansOK
<1> QED  BY <1>6 DEF g

\* What recovery_state does to the plans, and the end of a session.
LEMMA WriteInspected ==
  ASSUME PlansOK(plan)
  PROVE  MayBecome(Inspected)
<1>1. \A p \in Plans : /\ Moved(plan[p], "PAUSED") \in PlanRecord
                       /\ Moved(plan[p], "PAUSED").status = "PAUSED"
                       /\ Moved(plan[p], "PAUSED").rev > plan[p].rev
  <2> TAKE p \in Plans
  <2>1. plan[p] \in PlanRecord
    BY DEF PlansOK
  <2>2. plan[p].rev \in Nat
    BY <2>1 DEF PlanRecord
  <2>3. "PAUSED" \in Statuses
    BY DEF Statuses
  <2> QED  BY <2>1, <2>2, <2>3, MovedTyped
<1>2. Inspected \in [Plans -> PlanRecord]
  BY <1>1 DEF Inspected, PlansOK
<1>3. Grows(plan, Inspected)
  BY <1>1 DEF Inspected, Grows
<1>4. \A p \in Plans : Inspected[p].status \in Resumable => plan[p].status \in Resumable
  BY <1>1 DEF Inspected, Resumable
<1> HIDE DEF Inspected
<1> QED  BY <1>2, <1>3, <1>4 DEF MayBecome, PlansOK

LEMMA WriteDiscarded ==
  ASSUME PlansOK(plan)
  PROVE  MayBecome([p \in Plans |-> IF p \in Current THEN Retired(plan[p], "DISCARDED") ELSE plan[p]])
<1> DEFINE g == [p \in Plans |-> IF p \in Current THEN Retired(plan[p], "DISCARDED") ELSE plan[p]]
<1>1. \A p \in Plans : /\ Retired(plan[p], "DISCARDED") \in PlanRecord
                       /\ Retired(plan[p], "DISCARDED").status = "DISCARDED"
                       /\ Retired(plan[p], "DISCARDED").rev > plan[p].rev
  <2> TAKE p \in Plans
  <2>1. plan[p] \in PlanRecord
    BY DEF PlansOK
  <2>2. plan[p].rev \in Nat
    BY <2>1 DEF PlanRecord
  <2>3. "DISCARDED" \in Statuses
    BY DEF Statuses, Ended
  <2> QED  BY <2>1, <2>2, <2>3, RetiredTyped
<1>2. g \in [Plans -> PlanRecord]
  BY <1>1 DEF PlansOK
<1>3. Grows(plan, g)
  BY <1>1 DEF Grows
<1>4. \A p \in Plans : g[p].status \notin Resumable
  BY <1>1 DEF Current, Resumable
<1> HIDE DEF g
<1>5. MayBecome(g)
  BY <1>2, <1>3, <1>4 DEF MayBecome, PlansOK
<1> QED  BY <1>5 DEF g

LEMMA CurrentIsPlan ==
  ASSUME PlansOK(plan), Current # {}
  PROVE  TheCurrent \in Plans /\ plan[TheCurrent].rev \in Nat /\ Inspected[TheCurrent].rev \in Nat
<1>1. TheCurrent \in Plans
  BY DEF TheCurrent, Current
<1>2. plan[TheCurrent] \in PlanRecord /\ Inspected[TheCurrent] \in PlanRecord
  BY <1>1, WriteInspected DEF PlansOK, MayBecome
<1> QED  BY <1>1, <1>2 DEF PlanRecord
----------------------------------------------------------------------------
(* Steps. *)

LEMMA TakenBackTyped ==
  ASSUME row \in Rows, NEW p
  PROVE  TakenBack(p) \in Rows /\ \A e \in Entries : row[e] = "none" => TakenBack(p)[e] = "none"
BY DEF TakenBack, Rows, Waiting

LEMMA Resting == IdleExec \in Execs /\ IdleUi \in Uis /\ Unobserved \in Foreigns
BY Constants DEF IdleExec, IdleUi, Unobserved, Execs, Uis, UiAts, Foreigns, PlanOrNone

LEMMA DecidedTyped ==
  ASSUME ui \in Uis, NEW ok, Decided(ok)
  PROVE  ui' \in Uis
<1>1. [ui EXCEPT !.at = "asked", !.n = NoPlan] \in Uis
  BY DEF Uis, UiAts, PlanOrNone
<1> QED  BY <1>1, Resting DEF Decided

LEMMA ReturnTyped ==
  ASSUME ui \in Uis, NEW result, Return(result)
  PROVE  exec' = IdleExec /\ ui' \in Uis
BY Resting DEF Return

\* What the observer has seen stays true of the plan.
LEMMA ObservedKept ==
  ASSUME PlanInv, MayBecome(plan'), foreign' = foreign
  PROVE  SeenActive'
<1> SUFFICES ASSUME foreign.p \in Plans
             PROVE  /\ plan'[foreign.p].status # "none" /\ foreign.rev <= plan'[foreign.p].rev
                    /\ foreign.rev = plan'[foreign.p].rev => plan'[foreign.p].status = "ACTIVE"
  BY DEF SeenActive
<1>1. plan[foreign.p] \in PlanRecord /\ plan'[foreign.p] \in PlanRecord /\ foreign.rev \in Nat
  BY DEF PlanInv, PlansOK, MayBecome, Foreigns
<1>2. plan[foreign.p].rev \in Nat /\ plan'[foreign.p].rev \in Nat
  BY <1>1 DEF PlanRecord
<1> QED  BY <1>1, <1>2 DEF PlanInv, SeenActive, MayBecome, Grows

\* What every step has to show, but the one that queues a title.
LEMMA KeptBy ==
  ASSUME PlanInv, MayBecome(plan'), row' \in Rows, NewStayNew,
         exec' \in Execs, HoldsPlan', exec'.at = "queue" => exec.at = "queue" \/ NewEntries # {},
         ui' \in Uis, foreign' \in {foreign, Unobserved}
  PROVE  Kept
<1>1. PlansOK(plan') /\ Grows(plan, plan')
  BY DEF MayBecome
<1>2. foreign' \in Foreigns
  BY Resting DEF PlanInv
<1>3. NewEntries # {} => NewEntries' # {}
  BY DEF NewStayNew, NewEntries
<1>4. HoldsTitle'
  BY <1>3 DEF HoldsTitle, PlanInv
<1>5. SeenActive'
  <2>1. CASE foreign' = Unobserved
    BY <2>1, Constants DEF SeenActive, Unobserved
  <2>2. CASE foreign' = foreign
    BY <2>2, ObservedKept
  <2> QED  BY <2>1, <2>2
<1>6. PlanInv'
  BY <1>1, <1>2, <1>4, <1>5 DEF PlanInv, Rows
<1> QED  BY <1>1, <1>6 DEF Kept, QueuedByActive, NewStayNew
----------------------------------------------------------------------------
(* The execution service. *)

\* Steps that leave the queue and the observer alone.
LEMMA KeptQuietly ==
  ASSUME PlanInv, MayBecome(plan'), row' = row, foreign' = foreign, ui' \in Uis,
         exec' \in Execs, HoldsPlan', exec'.at = "queue" => exec.at = "queue" \/ NewEntries # {}
  PROVE  Kept
BY KeptBy DEF PlanInv, NewStayNew

\* ... and that only return, or go on without a plan.
LEMMA KeptReturning ==
  ASSUME PlanInv, MayBecome(plan'), row' = row, foreign' = foreign, NEW result, Return(result)
  PROVE  Kept
<1>1. exec' = IdleExec /\ ui' \in Uis
  BY ReturnTyped DEF PlanInv
<1>2. exec' \in Execs /\ HoldsPlan' /\ exec'.at # "queue"
  BY <1>1, Resting DEF HoldsPlan, IdleExec, Evaluating
<1> QED  BY <1>1, <1>2, KeptQuietly

\* ... and that go on with the plan.
LEMMA KeptGoingOn ==
  ASSUME PlanInv, MayBecome(plan'), row' = row, foreign' = foreign, ui' = ui, exec' \in Execs,
         exec'.at \in Evaluating => exec'.p \in Plans, exec'.at = "queue" => NewEntries # {}
  PROVE  Kept
<1>1. ui' \in Uis /\ HoldsPlan'
  BY DEF PlanInv, HoldsPlan
<1> QED  BY <1>1, KeptQuietly

Going(at, p, rev) == [exec EXCEPT !.at = at, !.p = p, !.rev = rev]

LEMMA ExecFields ==
  ASSUME PlanInv, NEW at \in Evaluating, NEW p \in PlanOrNone, NEW rev \in Nat
  PROVE  /\ Going(at, p, rev) \in Execs
         /\ Going(at, p, rev).at = at /\ Going(at, p, rev).p = p
<1> DEFINE x1 == [exec EXCEPT !.at = at]
           x2 == [x1 EXCEPT !.p = p]
           x3 == [x2 EXCEPT !.rev = rev]
<1>1. x1 \in Execs /\ x1.at = at
  BY DEF PlanInv, Execs
<1>2. Going(at, p, rev) = x3
  BY DEF Going
<1> HIDE DEF x1
<1>3. x2 \in Execs /\ x2.at = at /\ x2.p = p
  BY <1>1 DEF Execs
<1> HIDE DEF x2
<1>4. x3 \in Execs /\ x3.at = at /\ x3.p = p
  BY <1>3 DEF Execs
<1> HIDE DEF x3
<1> QED  BY <1>2, <1>4

LEMMA StartsKept ==
  ASSUME PlanInv, EnsureNextStep \/ EnsureBuffer
  PROVE  Kept
<1>1. plan' = plan /\ row' = row /\ foreign' = foreign
  BY DEF EnsureNextStep, EnsureBuffer
<1>4. ui' \in Uis
  BY DEF EnsureNextStep, EnsureBuffer, PlanInv, Uis, UiAts
<1>5. exec' \in Execs /\ exec'.at \in {"load", "count"}
  <2>1. \A at \in {"load", "count"}, goal \in {"next", "refill", "adopt"} :
          LET x == [IdleExec EXCEPT !.at = at, !.goal = goal] IN x \in Execs /\ x.at = at
    BY Resting DEF Execs
  <2> QED  BY <2>1 DEF EnsureNextStep, EnsureBuffer
<1>2. HoldsPlan' /\ exec'.at # "queue"
  BY <1>5 DEF HoldsPlan, Evaluating
<1>3. MayBecome(plan')
  BY <1>1, SamePlans DEF PlanInv
<1> QED  BY <1>1, <1>2, <1>3, <1>4, <1>5, KeptQuietly

LEMMA CountKept ==
  ASSUME PlanInv, Count
  PROVE  Kept
<1>1. plan' = plan /\ row' = row /\ foreign' = foreign /\ MayBecome(plan')
  BY SamePlans DEF Count, PlanInv
<1>2. CASE Cardinality(Stock) >= Target
  BY <1>1, <1>2, KeptReturning DEF Count
<1>3. CASE ~ (Cardinality(Stock) >= Target)
  <2>1. Cardinality(Stock) \in 0..Target
    BY <1>3, StockCounts, Constants
  <2>2. ui' = ui /\ exec' = [exec EXCEPT !.at = "load", !.present = Cardinality(Stock)]
    BY <1>3 DEF Count
  <2>3. exec' \in Execs /\ exec'.at = "load"
    BY <2>1, <2>2 DEF PlanInv, Execs
  <2> QED  BY <1>1, <2>2, <2>3, KeptGoingOn DEF Evaluating
<1> QED  BY <1>2, <1>3

LEMMA LoadPlanKept ==
  ASSUME PlanInv, LoadPlan
  PROVE  Kept
<1>1. plan' = plan /\ row' = row /\ foreign' = foreign /\ MayBecome(plan')
  BY SamePlans DEF LoadPlan, PlanInv
<1>2. CASE \E r : Return(r)
  BY <1>1, <1>2, KeptReturning
<1>3. CASE Current = {} /\ exec' = [exec EXCEPT !.at = "create"] /\ ui' = ui
  <2>1. exec' \in Execs /\ exec'.at = "create"
    BY <1>3 DEF PlanInv, Execs
  <2> QED  BY <1>1, <1>3, <2>1, KeptGoingOn DEF Evaluating
<1>4. CASE Current # {} /\ exec' = [exec EXCEPT !.at = "look", !.p = TheCurrent, !.rev = plan[TheCurrent].rev] /\ ui' = ui
  <2>1. TheCurrent \in Plans /\ plan[TheCurrent].rev \in Nat
    BY <1>4, CurrentIsPlan DEF PlanInv
  <2>2. exec' \in Execs /\ exec'.at = "look" /\ exec'.p = TheCurrent
    <3>1. "look" \in Evaluating /\ TheCurrent \in PlanOrNone
      BY <2>1 DEF Evaluating, PlanOrNone
    <3>2. exec' = Going("look", TheCurrent, plan[TheCurrent].rev)
      BY <1>4 DEF Going
    <3> QED  BY <2>1, <3>1, <3>2, ExecFields
  <2> QED  BY <1>1, <1>4, <2>1, <2>2, KeptGoingOn
<1> QED  BY <1>2, <1>3, <1>4 DEF LoadPlan

LEMMA CreateDraftKept ==
  ASSUME PlanInv, CreateDraft
  PROVE  Kept
<1>1. row' = row /\ foreign' = foreign
  BY DEF CreateDraft
<1>2. CASE plan' = plan /\ \E r : Return(r)
  BY <1>1, <1>2, KeptReturning, SamePlans DEF PlanInv
<1>3. CASE /\ Free # {} /\ ui' = ui
           /\ \E n \in Lengths : /\ plan' = [plan EXCEPT ![First(Free)] = Draft(n)]
                                 /\ exec' = [exec EXCEPT !.at = "activate", !.p = First(Free), !.rev = 0]
  <2>1. MayBecome(plan') /\ First(Free) \in Plans
    BY <1>3, WriteDraft DEF PlanInv
  <2>2. exec' \in Execs /\ exec'.at = "activate" /\ exec'.p = First(Free)
    <3>1. "activate" \in Evaluating /\ First(Free) \in PlanOrNone /\ 0 \in Nat
      BY <2>1 DEF Evaluating, PlanOrNone
    <3>2. exec' = Going("activate", First(Free), 0)
      BY <1>3 DEF Going
    <3> QED  BY <3>1, <3>2, ExecFields
  <2> QED  BY <1>1, <1>3, <2>1, <2>2, KeptGoingOn
<1> QED  BY <1>2, <1>3 DEF CreateDraft

LEMMA CheckDraftKept ==
  ASSUME PlanInv, CheckDraft
  PROVE  Kept
<1>1. plan' = plan /\ row' = row /\ foreign' = foreign /\ MayBecome(plan')
  BY SamePlans DEF CheckDraft, PlanInv
<1>2. CASE \E r : Return(r)
  BY <1>1, <1>2, KeptReturning
<1>3. CASE exec' = [exec EXCEPT !.at = "activated"] /\ ui' = ui
  <2>1. exec' \in Execs /\ exec'.at = "activated" /\ exec'.p = exec.p
    BY <1>3 DEF PlanInv, Execs, Evaluating
  <2>2. exec.p \in Plans
    BY DEF CheckDraft, Exec, PlanInv, HoldsPlan, Evaluating
  <2> QED  BY <1>1, <1>3, <2>1, <2>2, KeptGoingOn
<1> QED  BY <1>2, <1>3 DEF CheckDraft

LEMMA ActivateDraftKept ==
  ASSUME PlanInv, ActivateDraft
  PROVE  Kept
<1>1. row' = row /\ foreign' = foreign
  BY DEF ActivateDraft
<1>2. CASE plan' = plan /\ \E r : Return(r)
  BY <1>1, <1>2, KeptReturning, SamePlans DEF PlanInv
<1>3. CASE Sole(exec.p) /\ plan' = Activated(exec.p) /\ exec' = [exec EXCEPT !.at = "look", !.rev = @ + 1] /\ ui' = ui
  <2>1. MayBecome(plan')
    BY <1>3, WriteMoved DEF PlanInv, Activated, Statuses
  <2>2. exec' \in Execs /\ exec'.at = "look" /\ exec'.p = exec.p
    <3>1. exec' = Going("look", exec.p, exec.rev + 1)
      BY <1>3 DEF PlanInv, Execs, Going
    <3>2. "look" \in Evaluating /\ exec.p \in PlanOrNone /\ exec.rev + 1 \in Nat
      BY DEF Evaluating, PlanInv, Execs
    <3> QED  BY <3>1, <3>2, ExecFields
  <2>3. exec.p \in Plans
    BY DEF ActivateDraft, Exec, PlanInv, HoldsPlan, Evaluating
  <2> QED  BY <1>1, <1>3, <2>1, <2>2, <2>3, KeptGoingOn
<1> QED  BY <1>2, <1>3 DEF ActivateDraft

LEMMA EvaluateStepKept ==
  ASSUME PlanInv, EvaluateStep
  PROVE  Kept
<1>1. plan' = plan /\ row' = row /\ foreign' = foreign /\ MayBecome(plan')
  BY SamePlans DEF EvaluateStep, PlanInv
<1>2. CASE \E r : Return(r)
  BY <1>1, <1>2, KeptReturning
<1>3. CASE ui' = ui /\ \E next \in {"complete", "reject", "queue"} :
                         (next = "queue" => NewEntries # {}) /\ exec' = [exec EXCEPT !.at = next]
  <2>1. PICK next \in {"complete", "reject", "queue"} :
               (next = "queue" => NewEntries # {}) /\ exec' = [exec EXCEPT !.at = next]
    BY <1>3
  <2>2. exec' \in Execs /\ exec'.at = next /\ exec'.p = exec.p
    BY <2>1 DEF PlanInv, Execs, Evaluating
  <2>3. exec.p \in Plans
    BY DEF EvaluateStep, Exec, PlanInv, HoldsPlan, Evaluating
  <2> QED  BY <1>1, <1>3, <2>1, <2>2, <2>3, KeptGoingOn
<1>4. ASSUME ~ (\E r : Return(r))
      PROVE  ui' = ui /\ \E next \in {"complete", "reject", "queue"} :
                           (next = "queue" => NewEntries # {}) /\ exec' = [exec EXCEPT !.at = next]
  BY <1>4 DEF EvaluateStep
<1> QED  BY <1>2, <1>3, <1>4

LEMMA CompletePlanKept ==
  ASSUME PlanInv, CompletePlan
  PROVE  Kept
<1>1. row' = row /\ foreign' = foreign
  BY DEF CompletePlan
<1>2. CASE plan' = plan /\ \E r : Return(r)
  BY <1>1, <1>2, KeptReturning, SamePlans DEF PlanInv
<1>3. CASE plan' = [plan EXCEPT ![exec.p] = Moved(@, "COMPLETED")] /\ exec' = [exec EXCEPT !.at = "create"] /\ ui' = ui
  <2>1. MayBecome(plan')
    BY <1>3, WriteMoved DEF PlanInv, Statuses, Ended, Resumable
  <2>2. exec' \in Execs /\ exec'.at = "create"
    BY <1>3 DEF PlanInv, Execs
  <2> QED  BY <1>1, <1>3, <2>1, <2>2, KeptGoingOn DEF Evaluating
<1> QED  BY <1>2, <1>3 DEF CompletePlan

LEMMA PauseInvalidStepKept ==
  ASSUME PlanInv, PauseInvalidStep
  PROVE  Kept
<1>1. row' = row /\ foreign' = foreign
  BY DEF PauseInvalidStep
<1>2. PICK r : Return(r)
  BY DEF PauseInvalidStep
<1>3. CASE plan' = plan
  BY <1>1, <1>2, <1>3, KeptReturning, SamePlans DEF PlanInv
<1>4. CASE StillPlans(exec.p, exec.rev)
  <2> DEFINE q == plan[exec.p]
             x == Step("INVALIDATED", NoEntry)
             w == [Moved(q, "PAUSED") EXCEPT !.steps[First(PlannedAt(q))] = x]
  <2>1. exec.p \in Plans
    BY DEF PauseInvalidStep, Exec, PlanInv, HoldsPlan, Evaluating
  <2>2. q \in PlanRecord /\ q.status = "ACTIVE" /\ PlannedAt(q) # {} /\ q.rev \in Nat
    BY <1>4, <2>1 DEF StillPlans, PlanInv, PlansOK, PlanRecord
  <2>3. x \in StepRecord /\ "PAUSED" \in Statuses
    BY DEF Step, StepRecord, Statuses
  <2>4. w \in PlanRecord /\ w.status = "PAUSED" /\ w.rev = q.rev + 1
    BY <2>2, <2>3, SettledTyped
  <2>5. plan' = [plan EXCEPT ![exec.p] = w]
    BY <1>4 DEF PauseInvalidStep
  <2> HIDE DEF w
  <2>6. plan[exec.p].status \in Resumable /\ w.rev > plan[exec.p].rev
    BY <2>2, <2>4 DEF Resumable
  <2>7. MayBecome([plan EXCEPT ![exec.p] = w])
    BY <2>1, <2>4, <2>6, WritePlan DEF PlanInv
  <2> QED  BY <1>1, <1>2, <2>5, <2>7, KeptReturning
<1> QED  BY <1>3, <1>4 DEF PauseInvalidStep

\* The title that is queued gets a row in the transaction that links the step to it.
LEMMA MaterializeStepKept ==
  ASSUME PlanInv, MaterializeStep
  PROVE  Kept
<1> DEFINE q == plan[exec.p]
           e == First(NewEntries)
           i == First(PlannedAt(q))
           x == Step("QUEUED", e)
           w == [Moved(q, q.status) EXCEPT !.steps[i] = x]
           present == exec.present + 1
<1>1. foreign' = foreign
  BY DEF MaterializeStep
<1>2. CASE plan' = plan /\ row' = row /\ Return("conflict")
  BY <1>1, <1>2, KeptReturning, SamePlans DEF PlanInv
<1>3. CASE StillPlans(exec.p, exec.rev)
  <2>1. exec.p \in Plans /\ NewEntries # {}
    BY DEF MaterializeStep, Exec, PlanInv, HoldsPlan, HoldsTitle, Evaluating
  <2>2. q \in PlanRecord /\ q.status = "ACTIVE" /\ PlannedAt(q) # {} /\ q.rev \in Nat
    BY <1>3, <2>1 DEF StillPlans, PlanInv, PlansOK, PlanRecord
  <2>3. e \in Entries /\ row[e] = "none"
    <3>1. NewEntries \in SUBSET Nat
      BY Constants DEF NewEntries
    <3> QED  BY <2>1, <3>1, FirstIsIn DEF NewEntries
  <2>4. x \in StepRecord /\ "ACTIVE" \in Statuses /\ x.entry = e
    BY <2>3 DEF Step, StepRecord, Statuses
  <2>5. /\ w \in PlanRecord /\ w.status = "ACTIVE" /\ w.rev = q.rev + 1
        /\ i \in DOMAIN w.steps /\ w.steps[i] = x
    BY <2>2, <2>4, SettledTyped
  <2>6. plan' = [plan EXCEPT ![exec.p] = w] /\ row' = [row EXCEPT ![e] = "waiting"]
    BY <1>3 DEF MaterializeStep
  <2>7. \/ Return("queued")
        \/ /\ present < Target /\ ui' = ui
           /\ exec' = [exec EXCEPT !.at = "look", !.rev = @ + 1, !.present = present]
    BY <1>3, Constants DEF MaterializeStep, PlanInv, Execs
  <2> HIDE DEF w, x, i, e
  <2>8. MayBecome(plan')
    <3>1. plan[exec.p].status \in Resumable /\ w.rev > plan[exec.p].rev
      BY <2>2, <2>5 DEF Resumable
    <3>2. MayBecome([plan EXCEPT ![exec.p] = w])
      BY <2>1, <2>5, <3>1, WritePlan DEF PlanInv
    <3> QED  BY <2>6, <3>2
  <2>9. row' \in Rows
    BY <2>3, <2>6 DEF PlanInv, Rows
  <2>10. QueuedByActive
    <3>1. \A f \in Entries : row[f] = "none" /\ row'[f] # "none" => f = e
      BY <2>3, <2>6 DEF PlanInv, Rows
    <3>2. plan[exec.p].status = "ACTIVE" /\ plan'[exec.p] = w
      BY <2>1, <2>2, <2>6 DEF PlanInv, PlansOK
    <3>3. e \in EntriesOf(w)
      BY <2>3, <2>4, <2>5, Constants DEF EntriesOf
    <3> QED  BY <2>1, <2>5, <3>1, <3>2, <3>3 DEF QueuedByActive
  <2>11. exec' \in Execs /\ HoldsPlan' /\ exec'.at # "queue" /\ ui' \in Uis
    <3>1. CASE Return("queued")
      <4>1. exec' = IdleExec /\ ui' \in Uis
        BY <3>1, ReturnTyped DEF PlanInv
      <4> QED  BY <4>1, Resting DEF HoldsPlan, IdleExec, Evaluating
    <3>2. CASE present < Target /\ ui' = ui /\ exec' = [exec EXCEPT !.at = "look", !.rev = @ + 1, !.present = present]
      <4> DEFINE y == Going("look", exec.p, exec.rev + 1)
      <4>1. "look" \in Evaluating /\ exec.p \in PlanOrNone /\ exec.rev + 1 \in Nat /\ present \in 0..Target
        BY <3>2, Constants DEF Evaluating, PlanInv, Execs
      <4>2. y \in Execs /\ y.at = "look" /\ y.p = exec.p
        BY <4>1, ExecFields
      <4>3. exec' = [y EXCEPT !.present = present]
        BY <3>2 DEF PlanInv, Execs, Going
      <4> HIDE DEF y, present
      <4>4. exec' \in Execs /\ exec'.at = "look" /\ exec'.p = exec.p
        BY <4>1, <4>2, <4>3 DEF Execs
      <4> QED  BY <2>1, <3>2, <4>4 DEF HoldsPlan, PlanInv
    <3> QED  BY <2>7, <3>1, <3>2
  <2>12. PlansOK(plan') /\ foreign' \in Foreigns /\ HoldsTitle'
    BY <1>1, <2>8, <2>11 DEF MayBecome, HoldsTitle, PlanInv
  <2>13. SeenActive'
    BY <1>1, <2>8, ObservedKept
  <2> QED  BY <2>8, <2>9, <2>10, <2>11, <2>12, <2>13 DEF Kept, MayBecome, PlanInv, Rows
<1> QED  BY <1>2, <1>3 DEF MaterializeStep

LEMMA ExecutionKept ==
  ASSUME PlanInv, Execution
  PROVE  Kept
<1>1. CASE ExecutionFails
  <2>1. plan' = plan /\ row' = row /\ foreign' = foreign /\ \E r : Return(r)
    BY <1>1 DEF ExecutionFails
  <2> QED  BY <2>1, KeptReturning, SamePlans DEF PlanInv
<1> QED  BY <1>1, StartsKept, CountKept, LoadPlanKept, CreateDraftKept, CheckDraftKept, ActivateDraftKept,
            EvaluateStepKept, MaterializeStepKept, PauseInvalidStepKept, CompletePlanKept
         DEF Execution, ExecutionStep
----------------------------------------------------------------------------
(* The operator. *)

\* A decision moves its dialog or worker, and writes a plan or none.
LEMMA KeptByDecision ==
  ASSUME PlanInv, MayBecome(plan'), exec' = exec, foreign' = foreign, ui' \in Uis,
         row' = row \/ \E p : row' = TakenBack(p)
  PROVE  Kept
<1>1. row' \in Rows /\ NewStayNew
  BY TakenBackTyped DEF PlanInv, NewStayNew
<1>2. exec' \in Execs /\ HoldsPlan'
  BY DEF PlanInv, HoldsPlan
<1> QED  BY <1>1, <1>2, KeptBy

LEMMA KeptByLooking ==
  ASSUME PlanInv, plan' = plan, row' = row, exec' = exec, foreign' = foreign, ui' \in Uis
  PROVE  Kept
<1>1. MayBecome(plan')
  BY SamePlans DEF PlanInv
<1> QED  BY <1>1, KeptByDecision

\* What a dialog or its worker becomes.
LEMMA UiMoves ==
  ASSUME ui \in Uis, NEW at \in UiAts, NEW p \in PlanOrNone, NEW rev \in Nat
  PROVE  /\ [ui EXCEPT !.at = at] \in Uis
         /\ [ui EXCEPT !.at = at, !.n = p] \in Uis
         /\ [ui EXCEPT !.p = p, !.rev = rev] \in Uis
         /\ [ui EXCEPT !.at = at, !.rev = rev] \in Uis
         /\ [IdleUi EXCEPT !.at = at] \in Uis
<1>1. \A u \in Uis : [u EXCEPT !.at = at] \in Uis
  BY DEF Uis, UiAts
<1>2. \A u \in Uis : [u EXCEPT !.n = p] \in Uis /\ [u EXCEPT !.p = p] \in Uis /\ [u EXCEPT !.rev = rev] \in Uis
  BY DEF Uis
<1>3. /\ [ui EXCEPT !.at = at, !.n = p] = [[ui EXCEPT !.at = at] EXCEPT !.n = p]
      /\ [ui EXCEPT !.p = p, !.rev = rev] = [[ui EXCEPT !.p = p] EXCEPT !.rev = rev]
      /\ [ui EXCEPT !.at = at, !.rev = rev] = [[ui EXCEPT !.at = at] EXCEPT !.rev = rev]
  OBVIOUS
<1> QED  BY <1>1, <1>2, <1>3, Resting

LEMMA UiGoesTo ==
  ASSUME NEW u \in Uis, NEW at \in UiAts, NEW p \in PlanOrNone, NEW rev \in Nat
  PROVE  [u EXCEPT !.at = at, !.p = p, !.rev = rev] \in Uis
<1>1. [u EXCEPT !.at = at] \in Uis
  BY DEF Uis, UiAts
<1>2. [[u EXCEPT !.at = at] EXCEPT !.p = p] \in Uis
  BY <1>1 DEF Uis
<1>3. [[[u EXCEPT !.at = at] EXCEPT !.p = p] EXCEPT !.rev = rev] \in Uis
  BY <1>2 DEF Uis
<1>4. [u EXCEPT !.at = at, !.p = p, !.rev = rev] = [[[u EXCEPT !.at = at] EXCEPT !.p = p] EXCEPT !.rev = rev]
  OBVIOUS
<1> QED  BY <1>3, <1>4

LEMMA ChooseActionKept ==
  ASSUME PlanInv, ChooseAction
  PROVE  Kept
<1>1. plan' = plan /\ row' = row /\ exec' = exec /\ foreign' = foreign
  BY DEF ChooseAction
<1>2. PICK a \in {"activate", "discard", "inspect", "resume"} :
           ui' = [IdleUi EXCEPT !.at = a, !.p = Latest, !.rev = plan[Latest].rev]
  BY DEF ChooseAction, Actions
<1>3. Latest \in Plans
  BY LatestIsPlan DEF ChooseAction
<1>4. plan[Latest].rev \in Nat
  BY <1>3 DEF PlanInv, PlansOK, PlanRecord
<1>5. a \in UiAts /\ Latest \in PlanOrNone
  BY <1>3 DEF UiAts, PlanOrNone
<1>6. ui' \in Uis
  BY <1>2, <1>4, <1>5, Resting, UiGoesTo
<1> QED  BY <1>1, <1>6, KeptByLooking

LEMMA ActivationKept ==
  ASSUME PlanInv, CheckUiDraft \/ ActivateUiDraft
  PROVE  Kept
<1>1. row' = row /\ exec' = exec /\ foreign' = foreign
  BY DEF CheckUiDraft, ActivateUiDraft
<1>2. ui' \in Uis
  BY UiMoves, Resting, Constants DEF CheckUiDraft, ActivateUiDraft, PlanInv, UiAts, PlanOrNone
<1>3. MayBecome(plan')
  <2>1. CASE plan' = plan
    BY <2>1, SamePlans DEF PlanInv
  <2>2. CASE Sole(ui.p) /\ plan' = Activated(ui.p)
    BY <2>2, WriteMoved DEF PlanInv, Activated, Statuses
  <2> QED  BY <2>1, <2>2 DEF CheckUiDraft, ActivateUiDraft
<1> QED  BY <1>1, <1>2, <1>3, KeptByDecision

LEMMA ResumptionKept ==
  ASSUME PlanInv, ResumeChecks \/ ResumePlan
  PROVE  Kept
<1>1. row' = row /\ exec' = exec /\ foreign' = foreign
  BY DEF ResumeChecks, ResumePlan
<1>2. ui' \in Uis
  BY UiMoves, DecidedTyped, Constants DEF ResumeChecks, ResumePlan, PlanInv, UiAts, PlanOrNone
<1>3. MayBecome(plan')
  <2>1. CASE plan' = plan
    BY <2>1, SamePlans DEF PlanInv
  <2>2. CASE plan' = Inspected
    BY <2>2, WriteInspected DEF PlanInv
  <2>3. CASE Sole(ui.p) /\ plan' = [plan EXCEPT ![ui.p] = Moved(@, "ACTIVE")]
    BY <2>3, WriteMoved DEF PlanInv, Statuses
  <2> QED  BY <2>1, <2>2, <2>3 DEF ResumeChecks, ResumePlan
<1> QED  BY <1>1, <1>2, <1>3, KeptByDecision

LEMMA InspectionKept ==
  ASSUME PlanInv, InspectForRecalculation
  PROVE  Kept
<1>1. row' = row /\ exec' = exec /\ foreign' = foreign
  BY DEF InspectForRecalculation
<1>2. MayBecome(plan')
  BY SamePlans, WriteInspected DEF InspectForRecalculation, PlanInv
<1>3. PICK rev \in Nat : ui' \in {[ui EXCEPT !.at = "recalculate", !.rev = rev], [ui EXCEPT !.at = "recalculate"]}
  <2>1. ui.rev \in Nat
    BY DEF PlanInv, Uis
  <2>2. Current # {} => Inspected[TheCurrent].rev \in Nat
    BY CurrentIsPlan DEF PlanInv
  <2> QED  BY <2>1, <2>2 DEF InspectForRecalculation
<1>4. ui' \in Uis
  <2>1. ui \in Uis /\ "recalculate" \in UiAts /\ NoPlan \in PlanOrNone
    BY DEF PlanInv, UiAts, PlanOrNone
  <2>2. CASE ui' = [ui EXCEPT !.at = "recalculate", !.rev = rev]
    BY <2>1, <2>2, UiMoves
  <2>3. CASE ui' = [ui EXCEPT !.at = "recalculate"]
    BY <2>1, <2>3, UiMoves
  <2> QED  BY <1>3, <2>2, <2>3
<1> QED  BY <1>1, <1>2, <1>4, KeptByDecision

LEMMA DraftReplacementKept ==
  ASSUME PlanInv, DraftReplacement
  PROVE  Kept
<1>1. row' = row /\ exec' = exec /\ foreign' = foreign
  BY DEF DraftReplacement
<1>2. CASE plan' = plan /\ Decided(FALSE)
  BY <1>1, <1>2, DecidedTyped, KeptByLooking DEF PlanInv
<1>3. CASE /\ Free # {} /\ \E n \in Lengths : plan' = [plan EXCEPT ![First(Free)] = Draft(n)]
           /\ ui' = [ui EXCEPT !.at = "replace", !.n = First(Free)]
  <2>1. MayBecome(plan') /\ First(Free) \in PlanOrNone
    BY <1>3, WriteDraft DEF PlanInv, PlanOrNone
  <2>2. ui' \in Uis
    BY <1>3, <2>1, UiMoves, Constants DEF PlanInv, UiAts
  <2> QED  BY <1>1, <2>1, <2>2, KeptByDecision
<1> QED  BY <1>2, <1>3 DEF DraftReplacement

LEMMA ReplacePlanKept ==
  ASSUME PlanInv, ReplacePlan
  PROVE  Kept
<1>1. exec' = exec /\ foreign' = foreign
  BY DEF ReplacePlan
<1>2. ui' \in Uis
  BY DecidedTyped DEF ReplacePlan, PlanInv
<1>3. CASE plan' = plan /\ row' = row
  BY <1>1, <1>2, <1>3, KeptByLooking
<1>4. CASE /\ Sole(ui.p) /\ plan[ui.n].status = "DRAFT"
           /\ plan' = Exchanged(ui.p, ui.n, Moved(plan[ui.n], "ACTIVE")) /\ row' = TakenBack(ui.p)
  <2> DEFINE r == Moved(plan[ui.n], "ACTIVE")
  <2>1. ASSUME ui.n \in Plans
        PROVE  r \in PlanRecord /\ r.status = "ACTIVE" /\ r.rev > plan[ui.n].rev
    <3>1. plan[ui.n] \in PlanRecord /\ "ACTIVE" \in Statuses
      BY <2>1 DEF PlanInv, PlansOK, Statuses
    <3>2. plan[ui.n].rev \in Nat
      BY <3>1 DEF PlanRecord
    <3> QED  BY <3>1, <3>2, MovedTyped
  <2> HIDE DEF r
  <2>2. MayBecome(Exchanged(ui.p, ui.n, r))
    BY <1>4, <2>1, WriteExchange DEF PlanInv
  <2>3. MayBecome(plan')
    BY <1>4, <2>2 DEF r
  <2> QED  BY <1>1, <1>2, <1>4, <2>3, KeptByDecision
<1> QED  BY <1>3, <1>4 DEF ReplacePlan

LEMMA DiscardKept ==
  ASSUME PlanInv, CheckDiscard \/ DiscardPlan
  PROVE  Kept
<1>1. exec' = exec /\ foreign' = foreign /\ (row' = row \/ row' = TakenBack(ui.p))
  BY DEF CheckDiscard, DiscardPlan
<1>2. ui' \in Uis
  BY DecidedTyped, UiMoves, Constants DEF CheckDiscard, DiscardPlan, PlanInv, UiAts, PlanOrNone
<1>3. MayBecome(plan')
  <2>1. CASE plan' = plan
    BY <2>1, SamePlans DEF PlanInv
  <2>2. CASE plan' = [plan EXCEPT ![ui.p] = Retired(@, "DISCARDED")]
    BY <2>2, WriteMoved DEF PlanInv, Statuses, Ended, Resumable
  <2> QED  BY <2>1, <2>2 DEF CheckDiscard, DiscardPlan
<1> QED  BY <1>1, <1>2, <1>3, KeptByDecision

LEMMA EndingKept ==
  ASSUME PlanInv, EndAutomatic \/ FindPlanToEnd \/ EndPlan
  PROVE  Kept
<1>1. row' = row /\ exec' = exec /\ foreign' = foreign
  BY DEF EndAutomatic, FindPlanToEnd, EndPlan
<1>2. ui' \in Uis
  <2>1. CASE EndAutomatic \/ EndPlan
    BY <2>1, Resting, UiMoves, Constants DEF EndAutomatic, EndPlan, PlanInv, UiAts, PlanOrNone
  <2>2. CASE FindPlanToEnd /\ Current = {}
    BY <2>2, Resting DEF FindPlanToEnd
  <2>3. CASE FindPlanToEnd /\ Current # {}
    <3>1. TheCurrent \in PlanOrNone /\ plan[TheCurrent].rev \in Nat /\ "ended" \in UiAts /\ ui \in Uis
      BY <2>3, CurrentIsPlan DEF PlanInv, PlanOrNone, UiAts
    <3>2. ui' = [ui EXCEPT !.at = "ended", !.p = TheCurrent, !.rev = plan[TheCurrent].rev]
      BY <2>3 DEF FindPlanToEnd
    <3> QED  BY <3>1, <3>2, UiGoesTo
  <2> QED  BY <2>1, <2>2, <2>3
<1>3. MayBecome(plan')
  <2>1. CASE plan' = plan
    BY <2>1, SamePlans DEF PlanInv
  <2>2. CASE plan' = [plan EXCEPT ![ui.p] = Retired(@, "DISCARDED")]
    BY <2>2, WriteMoved DEF PlanInv, Statuses, Ended, Resumable
  <2> QED  BY <2>1, <2>2 DEF EndAutomatic, FindPlanToEnd, EndPlan
<1> QED  BY <1>1, <1>2, <1>3, KeptByDecision

LEMMA AdoptionKept ==
  ASSUME PlanInv, Adopt \/ CheckAdoption
  PROVE  Kept
<1>1. plan' = plan /\ row' = row /\ exec' = exec /\ foreign' = foreign
  BY DEF Adopt, CheckAdoption
<1>2. ui' \in Uis
  <2>1. CASE ui' = [ui EXCEPT !.p = TheCurrent, !.rev = plan[TheCurrent].rev] /\ Current # {}
    <3>1. TheCurrent \in PlanOrNone /\ plan[TheCurrent].rev \in Nat /\ ui \in Uis /\ "idle" \in UiAts
      BY <2>1, CurrentIsPlan DEF PlanInv, PlanOrNone, UiAts
    <3> QED  BY <2>1, <3>1, UiMoves
  <2>2. CASE \/ \E at \in {"adopt", "write"} : ui' \in {[IdleUi EXCEPT !.at = at], [ui EXCEPT !.at = at]}
             \/ ui' = IdleUi
    BY <2>2, Resting, UiMoves, Constants DEF PlanInv, UiAts, PlanOrNone
  <2> QED  BY <2>1, <2>2 DEF Adopt, CheckAdoption
<1> QED  BY <1>1, <1>2, KeptByLooking

LEMMA WriteAdoptionKept ==
  ASSUME PlanInv, WriteAdoption
  PROVE  Kept
<1>1. exec' = exec /\ foreign' = foreign
  BY DEF WriteAdoption
<1>2. CASE ui' = IdleUi /\ plan' = plan /\ row' = row
  BY <1>1, <1>2, Resting, KeptByLooking
<1>3. CASE /\ Free # {} /\ row' = row
           /\ \E n \in Lengths : plan' = [plan EXCEPT ![First(Free)] = Draft(n)]
           /\ ui' = [ui EXCEPT !.at = "activate", !.p = First(Free), !.n = First(Free)]
  <2>1. MayBecome(plan') /\ First(Free) \in PlanOrNone
    BY <1>3, WriteDraft DEF PlanInv, PlanOrNone
  <2>2. ui' \in Uis
    <3>1. "activate" \in UiAts /\ ui.rev \in Nat /\ ui \in Uis
      BY DEF UiAts, PlanInv, Uis
    <3>2. [ui EXCEPT !.at = "activate", !.p = First(Free), !.rev = ui.rev] \in Uis
      BY <2>1, <3>1, UiGoesTo
    <3>3. ui' = [[ui EXCEPT !.at = "activate", !.p = First(Free), !.rev = ui.rev] EXCEPT !.n = First(Free)]
      BY <1>3, <3>1 DEF Uis
    <3> QED  BY <2>1, <3>2, <3>3 DEF Uis
  <2> QED  BY <1>1, <1>3, <2>1, <2>2, KeptByDecision
<1>4. CASE /\ Free # {} /\ Sole(ui.p) /\ row' = TakenBack(ui.p)
           /\ \E n \in Lengths : plan' = Exchanged(ui.p, First(Free), Moved(Draft(n), "ACTIVE"))
           /\ ui' = [ui EXCEPT !.at = "fill"]
  <2>1. ui' \in Uis
    BY <1>4, UiMoves, Constants DEF PlanInv, UiAts, PlanOrNone
  <2>2. PICK n \in Lengths : plan' = Exchanged(ui.p, First(Free), Moved(Draft(n), "ACTIVE"))
    BY <1>4
  <2> DEFINE r == Moved(Draft(n), "ACTIVE")
  <2>3. r \in PlanRecord /\ r.status = "ACTIVE"
    BY DraftTyped, MovedTyped DEF Statuses
  <2> HIDE DEF r
  <2>4. plan[First(Free)].status = "none"
    BY <1>4, WriteDraft, <2>2 DEF PlanInv
  <2>5. MayBecome(Exchanged(ui.p, First(Free), r))
    BY <1>4, <2>3, <2>4, WriteExchange DEF PlanInv
  <2>6. MayBecome(plan')
    BY <2>2, <2>5 DEF r
  <2> QED  BY <1>1, <1>4, <2>1, <2>6, KeptByDecision
<1> QED  BY <1>2, <1>3, <1>4 DEF WriteAdoption

LEMMA OperatorKept ==
  ASSUME PlanInv, Operator
  PROVE  Kept
<1>1. CASE ActionFails
  BY <1>1, DecidedTyped, KeptByLooking DEF ActionFails, PlanInv
<1> QED  BY <1>1, ChooseActionKept, ActivationKept, ResumptionKept, InspectionKept, DraftReplacementKept,
            ReplacePlanKept, DiscardKept, EndingKept, AdoptionKept, WriteAdoptionKept
         DEF Operator
----------------------------------------------------------------------------
(* Playback, the GUI thread, and the process. *)

\* Steps that neither write a plan nor concern a thread.
LEMMA KeptByQueue ==
  ASSUME PlanInv, plan' = plan, exec' = exec, ui' = ui, foreign' \in {foreign, Unobserved},
         row' \in Rows, NewStayNew
  PROVE  Kept
<1>1. MayBecome(plan')
  BY SamePlans DEF PlanInv
<1>2. exec' \in Execs /\ ui' \in Uis /\ HoldsPlan'
  BY DEF PlanInv, HoldsPlan
<1> QED  BY <1>1, <1>2, KeptBy

LEMMA PlayKept ==
  ASSUME PlanInv, NEW from \in SUBSET {"waiting", "loaded", "playing"}, NEW to \in {"loaded", "playing", "over"},
         Play(from, to)
  PROVE  Kept
<1>1. plan' = plan /\ exec' = exec /\ ui' = ui /\ foreign' = foreign
  BY DEF Play
<1>2. row' \in Rows /\ NewStayNew
  BY DEF Play, PlanInv, Rows, NewStayNew
<1> QED  BY <1>1, <1>2, KeptByQueue

LEMMA ForeignTitleStartsKept ==
  ASSUME PlanInv, ForeignTitleStarts
  PROVE  Kept
<1>1. plan' = plan /\ row' = row /\ exec' = exec /\ ui' = ui
  BY DEF ForeignTitleStarts
<1>2. PICK p \in Plans : plan[p].status = "ACTIVE" /\ foreign' = [p |-> p, rev |-> plan[p].rev]
  BY DEF ForeignTitleStarts
<1>3. plan[p].rev \in Nat
  BY DEF PlanInv, PlansOK, PlanRecord
<1>4. foreign' \in Foreigns /\ SeenActive'
  BY <1>1, <1>2, <1>3 DEF Foreigns, PlanOrNone, SeenActive
<1>5. PlanInv' /\ QueuedByActive
  BY <1>1, <1>4 DEF PlanInv, HoldsPlan, HoldsTitle, NewEntries, QueuedByActive
<1> QED  BY <1>1, <1>5 DEF Kept, Grows

\* The pause holds the plan that was seen active, or finds another revision.
LEMMA PauseForForeignPlaybackKept ==
  ASSUME PlanInv, PauseForForeignPlayback
  PROVE  Kept
<1>1. row' = row /\ exec' = exec /\ ui' = ui /\ foreign' = Unobserved
  BY DEF PauseForForeignPlayback
<1>2. MayBecome(plan')
  <2>1. CASE plan' = plan
    BY <2>1, SamePlans DEF PlanInv
  <2>2. CASE foreign.p \in Plans /\ UnchangedSince(foreign.p, foreign.rev)
             /\ plan' = [plan EXCEPT ![foreign.p] = Retired(@, "PAUSED")]
    <3>1. plan[foreign.p].status \in Resumable
      BY <2>2 DEF PlanInv, SeenActive, UnchangedSince, Resumable
    <3> QED  BY <2>2, <3>1, WriteMoved DEF PlanInv, Statuses
  <2>3. CASE foreign.p \notin Plans /\ plan' = [plan EXCEPT ![foreign.p] = Retired(@, "PAUSED")]
    <3>1. plan' = plan
      BY <2>3 DEF PlanInv, PlansOK
    <3> QED  BY <2>1, <3>1
  <2> QED  BY <2>1, <2>2, <2>3 DEF PauseForForeignPlayback
<1>3. row' \in Rows /\ NewStayNew /\ exec' \in Execs /\ ui' \in Uis /\ HoldsPlan'
  BY <1>1 DEF PlanInv, NewStayNew, HoldsPlan
<1> QED  BY <1>1, <1>2, <1>3, KeptBy

LEMMA PlaybackKept ==
  ASSUME PlanInv, Playback
  PROVE  Kept
<1>1. CASE LoadTitle \/ StartTitle \/ EndTitle \/ DropTitle
  <2>1. PICK from \in SUBSET {"waiting", "loaded", "playing"}, to \in {"loaded", "playing", "over"} : Play(from, to)
    BY <1>1 DEF LoadTitle, StartTitle, EndTitle, DropTitle
  <2> QED  BY <2>1, PlayKept
<1> QED  BY <1>1, ForeignTitleStartsKept, PauseForForeignPlaybackKept DEF Playback

LEMMA ProcessKept ==
  ASSUME PlanInv, Process
  PROVE  Kept
<1>1. CASE InspectAtStartup
  <2>1. row' = row /\ exec' = exec /\ foreign' = foreign
    BY <1>1 DEF InspectAtStartup
  <2>2. CASE plan' = plan /\ ui' = ui
    BY <2>1, <2>2, KeptByLooking DEF PlanInv
  <2>3. CASE /\ Current # {} /\ plan' = Inspected
             /\ ui' = [IdleUi EXCEPT !.at = "asked", !.p = TheCurrent, !.rev = Inspected[TheCurrent].rev]
    <3>1. TheCurrent \in PlanOrNone /\ Inspected[TheCurrent].rev \in Nat /\ "asked" \in UiAts
      BY <2>3, CurrentIsPlan DEF PlanInv, PlanOrNone, UiAts
    <3>2. ui' \in Uis
      BY <2>3, <3>1, Resting, UiGoesTo
    <3>3. MayBecome(plan')
      BY <2>3, WriteInspected DEF PlanInv
    <3> QED  BY <2>1, <3>2, <3>3, KeptByDecision
  <2> QED  BY <1>1, <2>2, <2>3 DEF InspectAtStartup
<1>2. CASE Decide
  <2>1. plan' = plan /\ row' = row /\ exec' = exec /\ foreign' = foreign
    BY <1>2 DEF Decide
  <2>2. ui' = IdleUi \/ \E a \in {"recalculate", "discard", "resume"} : ui' = [ui EXCEPT !.at = a]
    BY <1>2 DEF Decide
  <2>3. ui' \in Uis
    BY <2>2, Resting DEF PlanInv, Uis, UiAts
  <2> QED  BY <2>1, <2>3, KeptByLooking
<1>3. CASE CloseSession \/ FinishSession
  <2>1. plan' = plan /\ row' = row /\ exec' = exec /\ foreign' = foreign /\ ui' = ui
    BY <1>3 DEF CloseSession, FinishSession
  <2> QED  BY <2>1, KeptByLooking DEF PlanInv
<1>4. CASE DiscardForFinishedSession
  <2>1. row' = row /\ exec' = exec /\ foreign' = foreign /\ ui' = ui
    BY <1>4 DEF DiscardForFinishedSession
  <2>2. MayBecome(plan')
    BY <1>4, WriteDiscarded DEF DiscardForFinishedSession, PlanInv
  <2> QED  BY <2>1, <2>2, KeptByDecision DEF PlanInv
<1>5. CASE Restart
  <2>1. plan' = plan /\ exec' = IdleExec /\ ui' = IdleUi /\ foreign' = Unobserved
    BY <1>5 DEF Restart
  <2>2. row' \in Rows /\ NewStayNew
    BY <1>5 DEF Restart, PlanInv, Rows, NewStayNew
  <2>3. MayBecome(plan')
    BY <2>1, SamePlans DEF PlanInv
  <2>4. exec' \in Execs /\ ui' \in Uis /\ HoldsPlan' /\ exec'.at # "queue"
    BY <2>1, Resting DEF HoldsPlan, IdleExec, Evaluating
  <2> QED  BY <2>1, <2>2, <2>3, <2>4, KeptBy
<1> QED  BY <1>1, <1>2, <1>3, <1>4, <1>5 DEF Process

LEMMA StepKept ==
  ASSUME PlanInv, [Next]_vars
  PROVE  Kept
<1>1. CASE RefreshQueue \/ RefillAnswered \/ UNCHANGED vars
  <2>1. plan' = plan /\ row' = row /\ exec' = exec /\ foreign' = foreign /\ ui' = ui
    BY <1>1 DEF RefreshQueue, RefillAnswered, vars
  <2> QED  BY <2>1, KeptByLooking DEF PlanInv
<1> QED  BY <1>1, ExecutionKept, OperatorKept, PlaybackKept, ProcessKept DEF Next

LEMMA InitKept ==
  ASSUME Init
  PROVE  PlanInv
<1>1. Unused \in PlanRecord /\ Unused.status = "none"
  <2>1. << >> \in Seq(StepRecord)
    BY EmptySeq
  <2> QED  BY <2>1 DEF Unused, PlanRecord, Statuses
<1>2. PlansOK(plan)
  BY <1>1 DEF Init, PlansOK, Resumable
<1>3. row \in Rows /\ exec \in Execs /\ ui \in Uis /\ foreign \in Foreigns
  BY Resting DEF Init, Rows
<1>4. HoldsPlan /\ HoldsTitle /\ SeenActive
  BY Constants DEF Init, HoldsPlan, HoldsTitle, SeenActive, IdleExec, Unobserved, Evaluating
<1> QED  BY <1>2, <1>3, <1>4 DEF PlanInv
----------------------------------------------------------------------------
(* The account of plans and queue: which step queued which entry, and what *)
(* a plan that has ended still plans.                                      *)

Linked(q, e) == {i \in DOMAIN q.steps : q.steps[i].entry = e}

WellKept(q) == /\ q.status = "none" => q.steps = << >>
               /\ q.status \in Ended => PlannedAt(q) = {}
               /\ \A i \in PlannedAt(q) : q.steps[i].entry = NoEntry

\* Each entry of the queue belongs to one step of one plan.
OneStepEach ==
  \A e \in Entries :
    /\ row[e] = "none" => \A p \in Plans : Linked(plan[p], e) = {}
    /\ row[e] # "none" => \E p \in Plans : /\ \E i \in DOMAIN plan[p].steps : Linked(plan[p], e) = {i}
                                           /\ \A q \in Plans \ {p} : Linked(plan[q], e) = {}

\* A plan that still has the revision of its holder is as the holder saw it.
SeenDraft(h) ==
  h.p \in Plans => /\ plan[h.p].status # "none" /\ h.rev <= plan[h.p].rev
                   /\ h.rev = plan[h.p].rev => plan[h.p].status = "DRAFT"
SeenDone(h) ==
  h.p \in Plans => /\ plan[h.p].status # "none" /\ h.rev <= plan[h.p].rev
                   /\ h.rev = plan[h.p].rev => PlannedAt(plan[h.p]) = {}

Seen == /\ exec.at = "activated" => SeenDraft(exec)
        /\ exec.at = "complete" => SeenDone(exec)
        /\ ui.at = "activated" => SeenDraft(ui)

AccountInv == PlanInv /\ (\A p \in Plans : WellKept(plan[p])) /\ OneStepEach /\ Seen

\* What a write makes of a plan: its links stay, and it stays ended.
RecordMove(q, r) ==
  WellKept(q) => /\ WellKept(r)
                 /\ \A e \in Entries : Linked(r, e) = Linked(q, e)
                 /\ q.status \in Ended => r.status \in Ended /\ r.steps = q.steps
PlansMove == \A p \in Plans : RecordMove(plan[p], plan'[p])
RowsStay == \A e \in Entries : row'[e] = "none" <=> row[e] = "none"
EndedStay ==
  \A p \in Plans : plan[p].status \in Ended => plan'[p].status \in Ended /\ plan'[p].steps = plan[p].steps

LEMMA SameRecord ==
  ASSUME NEW q
  PROVE  RecordMove(q, q)
BY DEF RecordMove

LEMMA MovedRecord ==
  ASSUME NEW q \in PlanRecord, NEW s \in Statuses \ {"none"},
         s \in Ended => PlannedAt(q) = {}, q.status \in Ended => s \in Ended
  PROVE  RecordMove(q, Moved(q, s))
<1> DEFINE r == Moved(q, s)
<1>1. r.status = s /\ r.steps = q.steps
  BY MovedTyped
<1> HIDE DEF r
<1>2. PlannedAt(r) = PlannedAt(q)
  BY <1>1 DEF PlannedAt
<1>3. RecordMove(q, r)
  BY <1>1, <1>2 DEF RecordMove, WellKept, Linked
<1> QED  BY <1>3 DEF r

LEMMA RetiredRecord ==
  ASSUME NEW q \in PlanRecord, NEW s \in Statuses \ {"none"}, q.status \in Ended => s \in Ended
  PROVE  RecordMove(q, Retired(q, s))
<1> DEFINE m == Moved(q, s)
           steps == [i \in DOMAIN q.steps |->
                       IF q.steps[i].st = "PLANNED" THEN Step("INVALIDATED", NoEntry) ELSE q.steps[i]]
           r == Retired(q, s)
<1>1. m \in PlanRecord /\ m.status = s /\ m.steps = q.steps
  BY MovedTyped
<1> HIDE DEF m
<1>2. r.status = s /\ r.steps = steps
  <2>1. r = [m EXCEPT !.steps = [i \in DOMAIN m.steps |->
                       IF m.steps[i].st = "PLANNED" THEN Step("INVALIDATED", NoEntry) ELSE m.steps[i]]]
    BY DEF Retired, Dropped, m
  <2>2. r = [m EXCEPT !.steps = steps]
    BY <1>1, <2>1
  <2> HIDE DEF steps, r
  <2> QED  BY <1>1, <2>2 DEF PlanRecord
<1>3. q.steps \in Seq(StepRecord)
  BY DEF PlanRecord
<1>4. DOMAIN q.steps = 1..Len(q.steps) /\ q.steps = [i \in DOMAIN q.steps |-> q.steps[i]]
  BY <1>3, LenProperties
<1> HIDE DEF r
<1>5. DOMAIN r.steps = DOMAIN q.steps
      /\ \A i \in DOMAIN q.steps : r.steps[i] = IF q.steps[i].st = "PLANNED" THEN Step("INVALIDATED", NoEntry) ELSE q.steps[i]
  BY <1>2
<1>6. PlannedAt(r) = {}
  BY <1>5 DEF PlannedAt, Step
<1>7. ASSUME WellKept(q), NEW e \in Entries PROVE Linked(r, e) = Linked(q, e)
  <2>1. \A i \in DOMAIN q.steps : q.steps[i].st = "PLANNED" => q.steps[i].entry = NoEntry
    BY <1>7 DEF WellKept, PlannedAt
  <2>2. \A i \in DOMAIN q.steps : r.steps[i].entry = q.steps[i].entry
    BY <1>5, <2>1 DEF Step
  <2> QED  BY <1>5, <2>2 DEF Linked
<1>8. ASSUME WellKept(q), q.status \in Ended PROVE r.steps = q.steps
  <2>1. \A i \in DOMAIN q.steps : q.steps[i].st # "PLANNED"
    BY <1>8 DEF WellKept, PlannedAt
  <2>2. steps = [i \in DOMAIN q.steps |-> q.steps[i]]
    BY <2>1
  <2> QED  BY <1>2, <1>4, <2>2
<1>9. RecordMove(q, r)
  <2>1. WellKept(r)
    BY <1>2, <1>6 DEF WellKept
  <2> QED  BY <1>2, <1>7, <1>8, <2>1 DEF RecordMove
<1> QED  BY <1>9 DEF r

LEMMA DraftRecord ==
  ASSUME NEW q, q.status = "none", NEW n \in Lengths
  PROVE  RecordMove(q, Draft(n)) /\ RecordMove(q, Moved(Draft(n), "ACTIVE"))
<1> DEFINE d == Draft(n)
           m == Moved(d, "ACTIVE")
<1>1. d \in PlanRecord /\ d.status = "DRAFT"
  BY DraftTyped
<1>2. d.steps = [i \in 1..n |-> Planned]
  BY DEF Draft
<1>3. m.status = "ACTIVE" /\ m.steps = d.steps
  BY <1>1, MovedTyped DEF Statuses
<1> HIDE DEF d, m
<1>4. \A i \in DOMAIN d.steps : d.steps[i].entry = NoEntry
  BY <1>2 DEF Planned, Step
<1>5. ASSUME WellKept(q), NEW e \in Entries
      PROVE  Linked(q, e) = {} /\ Linked(d, e) = {} /\ Linked(m, e) = {}
  <2>1. q.steps = << >>
    BY <1>5 DEF WellKept
  <2> QED  BY <1>3, <1>4, <2>1, Constants DEF Linked
<1>6. WellKept(d) /\ WellKept(m)
  BY <1>1, <1>3, <1>4 DEF WellKept, Ended, PlannedAt
<1>7. q.status \notin Ended
  BY DEF Ended
<1>8. RecordMove(q, d) /\ RecordMove(q, m)
  BY <1>5, <1>6, <1>7 DEF RecordMove
<1> QED  BY <1>8 DEF d, m

\* The first planned step of a plan is settled: with an entry, or without one.
LEMMA SettledRecord ==
  ASSUME NEW q \in PlanRecord, PlannedAt(q) # {}, q.status = "ACTIVE", WellKept(q),
         NEW x \in StepRecord, x.st # "PLANNED", NEW s \in Resumable
  PROVE  LET i == First(PlannedAt(q))
             r == [Moved(q, s) EXCEPT !.steps[i] = x]
         IN  /\ WellKept(r) /\ i \in DOMAIN r.steps
             /\ \A e \in Entries : Linked(r, e) = IF e = x.entry THEN Linked(q, e) \cup {i} ELSE Linked(q, e)
<1> DEFINE i == First(PlannedAt(q))
           m == Moved(q, s)
           r == [m EXCEPT !.steps[i] = x]
<1>0. s \in Statuses /\ s \notin Ended /\ s # "none"
  BY DEF Resumable, Statuses, Ended
<1>1. m \in PlanRecord /\ m.status = s /\ m.steps = q.steps
  BY <1>0, MovedTyped
<1>2. q.steps \in Seq(StepRecord)
  BY DEF PlanRecord
<1>3. DOMAIN q.steps = 1..Len(q.steps) /\ Len(q.steps) \in Nat
  BY <1>2, LenProperties
<1>4. i \in DOMAIN q.steps /\ i \in PlannedAt(q)
  <2>1. PlannedAt(q) \in SUBSET Nat
    BY <1>3 DEF PlannedAt
  <2> QED  BY <2>1, FirstIsIn DEF PlannedAt
<1>5. q.steps[i].entry = NoEntry
  BY <1>4 DEF WellKept
<1> HIDE DEF i, m
<1>6. r.status = m.status /\ r.steps = [q.steps EXCEPT ![i] = x]
  BY <1>1 DEF PlanRecord
<1> HIDE DEF r
<1>7. /\ DOMAIN r.steps = DOMAIN q.steps
      /\ \A j \in DOMAIN q.steps : r.steps[j] = IF j = i THEN x ELSE q.steps[j]
  BY <1>2, <1>4, <1>6
<1>8. WellKept(r)
  <2>1. \A j \in PlannedAt(r) : j \in PlannedAt(q) /\ r.steps[j] = q.steps[j]
    BY <1>7 DEF PlannedAt
  <2> QED  BY <1>0, <1>1, <1>6, <2>1 DEF WellKept
<1>9. ASSUME NEW e \in Entries
      PROVE  Linked(r, e) = IF e = x.entry THEN Linked(q, e) \cup {i} ELSE Linked(q, e)
  BY <1>4, <1>5, <1>7, Constants DEF Linked
<1> QED  BY <1>4, <1>7, <1>8, <1>9 DEF i, m, r
----------------------------------------------------------------------------
(* Writes. *)

LEMMA SamePlansMove ==
  ASSUME plan' = plan
  PROVE  PlansMove
BY SameRecord DEF PlansMove

LEMMA OnePlanMoves ==
  ASSUME PlanInv, NEW p, NEW r, p \in Plans => RecordMove(plan[p], r),
         plan' = [plan EXCEPT ![p] = r]
  PROVE  PlansMove
BY SameRecord DEF PlansMove, PlanInv, PlansOK

LEMMA DraftMoves ==
  ASSUME PlanInv, Free # {}, NEW n \in Lengths, plan' = [plan EXCEPT ![First(Free)] = Draft(n)]
  PROVE  PlansMove
<1>1. First(Free) \in Plans /\ plan[First(Free)].status = "none"
  BY WriteDraft DEF PlanInv
<1>2. RecordMove(plan[First(Free)], Draft(n))
  BY <1>1, DraftRecord
<1> QED  BY <1>2, OnePlanMoves

LEMMA ActivationMoves ==
  ASSUME PlanInv, NEW h, SeenDraft(h), UnchangedSince(h.p, h.rev), plan' = Activated(h.p)
  PROVE  PlansMove
<1>1. ASSUME h.p \in Plans PROVE RecordMove(plan[h.p], Moved(plan[h.p], "ACTIVE"))
  <2>1. plan[h.p] \in PlanRecord /\ plan[h.p].status = "DRAFT"
    BY <1>1 DEF SeenDraft, UnchangedSince, PlanInv, PlansOK
  <2> QED  BY <2>1, MovedRecord DEF Statuses, Ended
<1> QED  BY <1>1, OnePlanMoves DEF Activated

\* A plan is paused, resumed or completed where Transitions allows it.
LEMMA TransitionMoves ==
  ASSUME PlanInv, NEW p, NEW s \in {"ACTIVE", "COMPLETED"}, s \in Transitions[plan[p].status],
         s = "COMPLETED" /\ p \in Plans => PlannedAt(plan[p]) = {},
         plan' = [plan EXCEPT ![p] = Moved(@, s)]
  PROVE  PlansMove
<1>1. ASSUME p \in Plans PROVE RecordMove(plan[p], Moved(plan[p], s))
  <2>1. plan[p] \in PlanRecord
    BY <1>1 DEF PlanInv, PlansOK
  <2>2. plan[p].status \in Statuses
    BY <2>1 DEF PlanRecord
  <2>3. plan[p].status \notin Ended
    BY <2>2 DEF Transitions, Ended
  <2> QED  BY <1>1, <2>1, <2>3, MovedRecord DEF Statuses, Ended
<1> QED  BY <1>1, OnePlanMoves

LEMMA RetirementMoves ==
  ASSUME PlanInv, NEW p, NEW s \in {"PAUSED", "DISCARDED"},
         s = "PAUSED" /\ p \in Plans => plan[p].status \notin Ended,
         plan' = [plan EXCEPT ![p] = Retired(@, s)]
  PROVE  PlansMove
<1>1. ASSUME p \in Plans PROVE RecordMove(plan[p], Retired(plan[p], s))
  <2>1. plan[p] \in PlanRecord
    BY <1>1 DEF PlanInv, PlansOK
  <2> QED  BY <1>1, <2>1, RetiredRecord DEF Statuses, Ended
<1> QED  BY <1>1, OnePlanMoves

LEMMA InspectionMoves ==
  ASSUME PlanInv, plan' = Inspected
  PROVE  PlansMove
<1> SUFFICES ASSUME NEW p \in Plans PROVE RecordMove(plan[p], plan'[p])
  BY DEF PlansMove
<1>1. plan[p] \in PlanRecord
  BY DEF PlanInv, PlansOK
<1>2. CASE plan[p].status = "ACTIVE"
  <2>1. RecordMove(plan[p], Moved(plan[p], "PAUSED"))
    BY <1>1, <1>2, MovedRecord DEF Statuses, Ended
  <2> QED  BY <1>2, <2>1 DEF Inspected
<1>3. CASE plan[p].status # "ACTIVE"
  BY <1>3, SameRecord DEF Inspected
<1> QED  BY <1>2, <1>3

LEMMA SessionEndMoves ==
  ASSUME PlanInv, DiscardForFinishedSession
  PROVE  PlansMove
<1> SUFFICES ASSUME NEW p \in Plans PROVE RecordMove(plan[p], plan'[p])
  BY DEF PlansMove
<1>1. plan[p] \in PlanRecord
  BY DEF PlanInv, PlansOK
<1>2. RecordMove(plan[p], Retired(plan[p], "DISCARDED"))
  BY <1>1, RetiredRecord DEF Statuses, Ended
<1> QED  BY <1>2, SameRecord DEF DiscardForFinishedSession

LEMMA ExchangeMoves ==
  ASSUME PlanInv, NEW p, NEW n, NEW r, plan' = Exchanged(p, n, r),
         n \in Plans => RecordMove(plan[n], r)
  PROVE  PlansMove
<1> SUFFICES ASSUME NEW q \in Plans PROVE RecordMove(plan[q], plan'[q])
  BY DEF PlansMove
<1>1. plan[q] \in PlanRecord
  BY DEF PlanInv, PlansOK
<1>2. RecordMove(plan[q], Retired(plan[q], "INVALIDATED"))
  BY <1>1, RetiredRecord DEF Statuses, Ended
<1>3. plan'[q] = IF q = n THEN r ELSE IF q = p THEN Retired(plan[q], "INVALIDATED") ELSE plan[q]
  BY DEF Exchanged, PlanInv, PlansOK
<1> QED  BY <1>2, <1>3, SameRecord

\* What the execution service rejects.
LEMMA RejectionMoves ==
  ASSUME AccountInv, PauseInvalidStep
  PROVE  PlansMove
<1>1. CASE plan' = plan
  BY <1>1, SamePlansMove
<1>2. CASE StillPlans(exec.p, exec.rev)
  <2> DEFINE q == plan[exec.p]
             x == Step("INVALIDATED", NoEntry)
             i == First(PlannedAt(q))
             w == [Moved(q, "PAUSED") EXCEPT !.steps[i] = x]
  <2>1. plan' = [plan EXCEPT ![exec.p] = w]
    BY <1>2 DEF PauseInvalidStep
  <2>2. ASSUME exec.p \in Plans PROVE RecordMove(q, w)
    <3>1. q \in PlanRecord /\ q.status = "ACTIVE" /\ PlannedAt(q) # {} /\ WellKept(q)
      BY <1>2, <2>2 DEF StillPlans, AccountInv, PlanInv, PlansOK
    <3>2. x \in StepRecord /\ x.st # "PLANNED" /\ x.entry = NoEntry /\ "PAUSED" \in Resumable
      BY DEF Step, StepRecord, Resumable
    <3>3. WellKept(w) /\ \A e \in Entries : Linked(w, e) = IF e = x.entry THEN Linked(q, e) \cup {i} ELSE Linked(q, e)
      BY <3>1, <3>2, SettledRecord
    <3> HIDE DEF w, i, x
    <3> QED  BY <3>1, <3>2, <3>3, Constants DEF RecordMove, Ended
  <2> HIDE DEF w
  <2> QED  BY <2>1, <2>2, OnePlanMoves DEF AccountInv
<1> QED  BY <1>1, <1>2 DEF PauseInvalidStep
----------------------------------------------------------------------------
(* Steps. *)

LEMMA EveryPlanMoves ==
  ASSUME AccountInv, [Next]_vars, ~MaterializeStep
  PROVE  PlansMove
<1> PlanInv
  BY DEF AccountInv
<1>1. CASE plan' = plan
  BY <1>1, SamePlansMove
<1>2. CASE CreateDraft \/ DraftReplacement
  BY <1>2, SamePlansMove, DraftMoves DEF CreateDraft, DraftReplacement
<1>3. CASE ActivateDraft
  <2>1. SeenDraft(exec)
    BY <1>3 DEF ActivateDraft, Exec, AccountInv, Seen
  <2> QED  BY <1>3, <2>1, SamePlansMove, ActivationMoves DEF ActivateDraft
<1>4. CASE ActivateUiDraft
  <2>1. SeenDraft(ui)
    BY <1>4 DEF ActivateUiDraft, Ui, AccountInv, Seen
  <2> QED  BY <1>4, <2>1, SamePlansMove, ActivationMoves DEF ActivateUiDraft
<1>5. CASE CompletePlan
  <2>1. SeenDone(exec)
    BY <1>5 DEF CompletePlan, Exec, AccountInv, Seen
  <2> QED  BY <1>5, <2>1, SamePlansMove, TransitionMoves DEF CompletePlan, SeenDone, UnchangedSince
<1>6. CASE ResumePlan
  BY <1>6, SamePlansMove, TransitionMoves DEF ResumePlan
<1>7. CASE ResumeChecks \/ InspectForRecalculation \/ InspectAtStartup
  BY <1>7, SamePlansMove, InspectionMoves DEF ResumeChecks, InspectForRecalculation, InspectAtStartup
<1>8. CASE ReplacePlan
  <2>1. CASE plan[ui.n].status = "DRAFT" /\ plan' = Exchanged(ui.p, ui.n, Moved(plan[ui.n], "ACTIVE"))
    <3>1. ASSUME ui.n \in Plans PROVE RecordMove(plan[ui.n], Moved(plan[ui.n], "ACTIVE"))
      <4>1. plan[ui.n] \in PlanRecord
        BY <3>1 DEF PlanInv, PlansOK
      <4> QED  BY <2>1, <4>1, MovedRecord DEF Statuses, Ended
    <3> QED  BY <2>1, <3>1, ExchangeMoves
  <2> QED  BY <1>8, <2>1, SamePlansMove DEF ReplacePlan
<1>9. CASE DiscardPlan \/ EndPlan
  BY <1>9, SamePlansMove, RetirementMoves DEF DiscardPlan, EndPlan
<1>10. CASE WriteAdoption
  <2>1. ASSUME Free # {}, NEW n \in Lengths, plan' = Exchanged(ui.p, First(Free), Moved(Draft(n), "ACTIVE"))
        PROVE  PlansMove
    <3>1. plan[First(Free)].status = "none"
      BY <2>1, WriteDraft DEF PlanInv
    <3>2. RecordMove(plan[First(Free)], Moved(Draft(n), "ACTIVE"))
      BY <3>1, DraftRecord
    <3> QED  BY <2>1, <3>2, ExchangeMoves
  <2> QED  BY <1>10, <2>1, SamePlansMove, DraftMoves DEF WriteAdoption
<1>11. CASE PauseForForeignPlayback
  <2>1. UnchangedSince(foreign.p, foreign.rev) /\ foreign.p \in Plans => plan[foreign.p].status \notin Ended
    BY DEF PlanInv, SeenActive, UnchangedSince, Ended
  <2> QED  BY <1>11, <2>1, SamePlansMove, RetirementMoves DEF PauseForForeignPlayback
<1>12. CASE DiscardForFinishedSession
  BY <1>12, SessionEndMoves
<1>13. CASE PauseInvalidStep
  BY <1>13, RejectionMoves
<1>14. ASSUME plan' # plan
       PROVE  \/ CreateDraft \/ DraftReplacement \/ ActivateDraft \/ ActivateUiDraft \/ CompletePlan
              \/ ResumePlan \/ ResumeChecks \/ InspectForRecalculation \/ InspectAtStartup \/ ReplacePlan
              \/ DiscardPlan \/ EndPlan \/ WriteAdoption \/ PauseForForeignPlayback
              \/ DiscardForFinishedSession \/ PauseInvalidStep
  <2>1. CASE Execution
    BY <1>14, <2>1 DEF Execution, ExecutionStep, EnsureNextStep, EnsureBuffer, Count, LoadPlan, CheckDraft,
       EvaluateStep, ExecutionFails
  <2>2. CASE Operator
    BY <1>14, <2>2 DEF Operator, ChooseAction, CheckUiDraft, CheckDiscard, EndAutomatic, FindPlanToEnd,
       Adopt, CheckAdoption, ActionFails
  <2>3. CASE Playback
    BY <1>14, <2>3 DEF Playback, LoadTitle, StartTitle, EndTitle, DropTitle, Play, ForeignTitleStarts
  <2>4. CASE Process
    BY <1>14, <2>4 DEF Process, Decide, CloseSession, FinishSession, Restart
  <2>5. CASE RefreshQueue \/ RefillAnswered \/ UNCHANGED vars
    BY <1>14, <2>5 DEF RefreshQueue, RefillAnswered, vars
  <2> QED  BY <2>1, <2>2, <2>3, <2>4, <2>5 DEF Next
<1> QED  BY <1>1, <1>2, <1>3, <1>4, <1>5, <1>6, <1>7, <1>8, <1>9, <1>10, <1>11, <1>12, <1>13, <1>14

\* No row appears or disappears but by the step that queues a title.
LEMMA EveryRowStays ==
  ASSUME PlanInv, [Next]_vars, ~MaterializeStep
  PROVE  RowsStay
<1>1. CASE row' = row
  BY <1>1 DEF RowsStay
<1>2. CASE \E p : row' = TakenBack(p)
  BY <1>2 DEF RowsStay, TakenBack, Waiting
<1>3. CASE LoadTitle \/ StartTitle \/ EndTitle \/ DropTitle
  BY <1>3 DEF LoadTitle, StartTitle, EndTitle, DropTitle, Play, PlanInv, Rows, RowsStay
<1>4. CASE Restart
  BY <1>4 DEF Restart, RowsStay
<1>5. ASSUME row' # row
      PROVE  (\E p : row' = TakenBack(p)) \/ LoadTitle \/ StartTitle \/ EndTitle \/ DropTitle \/ Restart
  <2>1. CASE Execution
    BY <1>5, <2>1 DEF Execution, ExecutionStep, EnsureNextStep, EnsureBuffer, Count, LoadPlan, CheckDraft,
       EvaluateStep, ExecutionFails, CreateDraft, ActivateDraft, CompletePlan, PauseInvalidStep
  <2>2. CASE Operator
    BY <1>5, <2>2 DEF Operator, ChooseAction, CheckUiDraft, CheckDiscard, EndAutomatic, FindPlanToEnd,
       Adopt, CheckAdoption, ActionFails, ActivateUiDraft, ResumeChecks, ResumePlan, InspectForRecalculation,
       DraftReplacement, ReplacePlan, DiscardPlan, EndPlan, WriteAdoption
  <2>3. CASE Playback
    BY <1>5, <2>3 DEF Playback, ForeignTitleStarts, PauseForForeignPlayback
  <2>4. CASE Process
    BY <1>5, <2>4 DEF Process, Decide, CloseSession, FinishSession, InspectAtStartup, DiscardForFinishedSession
  <2>5. CASE RefreshQueue \/ RefillAnswered \/ UNCHANGED vars
    BY <1>5, <2>5 DEF RefreshQueue, RefillAnswered, vars
  <2> QED  BY <2>1, <2>2, <2>3, <2>4, <2>5 DEF Next
<1> QED  BY <1>1, <1>2, <1>3, <1>4, <1>5

\* What a thread has seen of a plan that another one writes.
LEMMA ViewKept ==
  ASSUME PlanInv, PlanInv', Grows(plan, plan'), NEW h, h.p \in PlanOrNone, h.rev \in Nat
  PROVE  /\ SeenDraft(h) /\ h.p \in Plans =>
              /\ plan'[h.p].status # "none" /\ h.rev <= plan'[h.p].rev
              /\ h.rev = plan'[h.p].rev => plan'[h.p].status = "DRAFT"
         /\ SeenDone(h) /\ h.p \in Plans =>
              /\ plan'[h.p].status # "none" /\ h.rev <= plan'[h.p].rev
              /\ h.rev = plan'[h.p].rev => PlannedAt(plan'[h.p]) = {}
<1> SUFFICES ASSUME h.p \in Plans
             PROVE  /\ SeenDraft(h) =>
                         /\ plan'[h.p].status # "none" /\ h.rev <= plan'[h.p].rev
                         /\ h.rev = plan'[h.p].rev => plan'[h.p].status = "DRAFT"
                    /\ SeenDone(h) =>
                         /\ plan'[h.p].status # "none" /\ h.rev <= plan'[h.p].rev
                         /\ h.rev = plan'[h.p].rev => PlannedAt(plan'[h.p]) = {}
  OBVIOUS
<1>1. plan[h.p].rev \in Nat /\ plan'[h.p].rev \in Nat
  BY DEF PlanInv, PlansOK, PlanRecord
<1>2. plan'[h.p] = plan[h.p] \/ plan[h.p].status = "none"
        \/ (plan'[h.p].rev > plan[h.p].rev /\ plan'[h.p].status # "none")
  BY DEF Grows
<1> QED  BY <1>1, <1>2 DEF SeenDraft, SeenDone

LEMMA ExecutionSees ==
  ASSUME AccountInv, PlanInv', Grows(plan, plan'), [Next]_vars
  PROVE  /\ exec'.at = "activated" => SeenDraft(exec)'
         /\ exec'.at = "complete" => SeenDone(exec)'
<1> PlanInv
  BY DEF AccountInv
<1>1. CASE exec' = exec
  <2>1. exec.p \in PlanOrNone /\ exec.rev \in Nat
    BY DEF PlanInv, Execs
  <2> QED  BY <1>1, <2>1, ViewKept DEF SeenDraft, SeenDone, AccountInv, Seen
<1>2. CASE exec'.at \notin {"activated", "complete"}
  BY <1>2
<1>3. CASE CheckDraft /\ exec' = [exec EXCEPT !.at = "activated"]
  <2>1. plan' = plan /\ plan[exec.p].status = "DRAFT" /\ plan[exec.p].rev = exec.rev
    BY <1>3, Resting DEF CheckDraft, MayActivate, Return, IdleExec
  <2>2. exec'.p = exec.p /\ exec'.rev = exec.rev /\ exec'.at = "activated" /\ exec.rev \in Nat
    BY <1>3 DEF PlanInv, Execs
  <2> QED  BY <2>1, <2>2 DEF SeenDraft
<1>4. CASE EvaluateStep /\ exec' = [exec EXCEPT !.at = "complete"]
  <2>1. exec'.p = exec.p /\ exec'.rev = exec.rev /\ exec'.at = "complete" /\ exec.rev \in Nat
    BY <1>4 DEF PlanInv, Execs
  <2>2. plan' = plan /\ plan[exec.p].status = "ACTIVE" /\ plan[exec.p].rev = exec.rev
    BY <1>4, <2>1 DEF EvaluateStep, Return, IdleExec
  <2>3. PlannedAt(plan[exec.p]) = {}
    BY <1>4, <2>1, <2>2 DEF EvaluateStep, Return, IdleExec, PlanInv, Execs
  <2> QED  BY <2>1, <2>2, <2>3 DEF SeenDone
<1>5. ASSUME exec' # exec, exec'.at \in {"activated", "complete"}
      PROVE  \/ CheckDraft /\ exec' = [exec EXCEPT !.at = "activated"]
             \/ EvaluateStep /\ exec' = [exec EXCEPT !.at = "complete"]
  <2>0. /\ \A at : [exec EXCEPT !.at = at].at = at
        /\ IdleExec.at = "idle"
    BY DEF PlanInv, Execs, IdleExec
  <2>1. ASSUME NEW r, Return(r) PROVE FALSE
    BY <1>5, <2>0, <2>1 DEF Return
  <2>2. CASE Execution
    <3>1. CASE CheckDraft \/ ExecutionFails \/ CompletePlan \/ PauseInvalidStep
      <4>1. [exec EXCEPT !.at = "create"].at = "create"
        BY <2>0
      <4> QED  BY <1>5, <2>1, <3>1, <4>1 DEF CheckDraft, ExecutionFails, CompletePlan, PauseInvalidStep
    <3>2. CASE EvaluateStep
      <4>1. PICK next \in {"complete", "reject", "queue"} : exec' = [exec EXCEPT !.at = next]
        BY <2>1, <3>2 DEF EvaluateStep
      <4> QED  BY <1>5, <2>0, <3>2, <4>1
    <3>3. CASE EnsureNextStep \/ EnsureBuffer \/ Count \/ LoadPlan \/ CreateDraft \/ ActivateDraft \/ MaterializeStep
      <4>1. exec'.at \in {"idle", "load", "count", "create", "look", "activate"}
        <5>1. CASE EnsureNextStep \/ EnsureBuffer
          BY <5>1 DEF EnsureNextStep, EnsureBuffer, IdleExec
        <5>2. CASE Count \/ LoadPlan
          BY <2>1, <5>2 DEF Count, LoadPlan, PlanInv, Execs
        <5>3. CASE CreateDraft
          BY <2>1, <5>3 DEF CreateDraft, PlanInv, Execs
        <5>4. CASE ActivateDraft
          BY <2>1, <5>4 DEF ActivateDraft, PlanInv, Execs
        <5>5. CASE MaterializeStep
          BY <2>1, <5>5 DEF MaterializeStep, PlanInv, Execs
        <5> QED  BY <3>3, <5>1, <5>2, <5>3, <5>4, <5>5
      <4> QED  BY <1>5, <4>1
    <3> QED  BY <2>2, <3>1, <3>2, <3>3 DEF Execution, ExecutionStep
  <2>3. CASE Operator
    BY <1>5, <2>3 DEF Operator, ChooseAction, CheckUiDraft, CheckDiscard, EndAutomatic, FindPlanToEnd,
       Adopt, CheckAdoption, ActionFails, ActivateUiDraft, ResumeChecks, ResumePlan, InspectForRecalculation,
       DraftReplacement, ReplacePlan, DiscardPlan, EndPlan, WriteAdoption
  <2>4. CASE Playback
    BY <1>5, <2>4 DEF Playback, LoadTitle, StartTitle, EndTitle, DropTitle, Play, ForeignTitleStarts, PauseForForeignPlayback
  <2>5. CASE Process
    BY <1>5, <2>0, <2>5 DEF Process, Decide, CloseSession, FinishSession, InspectAtStartup, DiscardForFinishedSession, Restart
  <2>6. CASE RefreshQueue \/ RefillAnswered \/ UNCHANGED vars
    BY <1>5, <2>6 DEF RefreshQueue, RefillAnswered, vars
  <2> QED  BY <2>2, <2>3, <2>4, <2>5, <2>6 DEF Next
<1> QED  BY <1>1, <1>2, <1>3, <1>4, <1>5

LEMMA OperatorSees ==
  ASSUME AccountInv, PlanInv', Grows(plan, plan'), [Next]_vars
  PROVE  ui'.at = "activated" => SeenDraft(ui)'
<1> PlanInv
  BY DEF AccountInv
<1>1. CASE ui' = ui
  <2>1. ui.p \in PlanOrNone /\ ui.rev \in Nat
    BY DEF PlanInv, Uis
  <2> QED  BY <1>1, <2>1, ViewKept DEF SeenDraft, AccountInv, Seen
<1>2. CASE ui'.at # "activated"
  BY <1>2
<1>3. CASE CheckUiDraft /\ ui' = [ui EXCEPT !.at = "activated"]
  <2>1. ui'.p = ui.p /\ ui'.rev = ui.rev /\ ui'.at = "activated" /\ ui.rev \in Nat
    BY <1>3 DEF PlanInv, Uis
  <2>2. plan' = plan /\ plan[ui.p].status = "DRAFT" /\ plan[ui.p].rev = ui.rev
    BY <1>3, <2>1 DEF CheckUiDraft, MayActivate, IdleUi
  <2> QED  BY <2>1, <2>2 DEF SeenDraft
<1>4. ASSUME ui' # ui, ui'.at = "activated"
      PROVE  CheckUiDraft /\ ui' = [ui EXCEPT !.at = "activated"]
  <2>0. ui' # IdleUi /\ \A ok \in BOOLEAN : ~Decided(ok)
    <3>1. IdleUi.at = "idle" /\ [ui EXCEPT !.at = "asked", !.n = NoPlan].at = "asked"
      BY DEF IdleUi, PlanInv, Uis
    <3>2. ASSUME NEW ok \in BOOLEAN, Decided(ok)
          PROVE  ui' \in {IdleUi, [ui EXCEPT !.at = "asked", !.n = NoPlan]}
      BY <3>2, Zenon DEF Decided
    <3> QED  BY <1>4, <3>1, <3>2
  <2>1. CASE Execution
    BY <1>4, <2>0, <2>1 DEF Execution, ExecutionStep, EnsureNextStep, EnsureBuffer, Count, LoadPlan, CheckDraft,
       EvaluateStep, ExecutionFails, CreateDraft, ActivateDraft, CompletePlan, PauseInvalidStep, MaterializeStep,
       Return, PlanInv, Uis
  <2>2. CASE Operator
    <3>1. CASE ChooseAction
      BY <1>4, <3>1 DEF ChooseAction, Actions, IdleUi
    <3>2. CASE CheckUiDraft
      BY <2>0, <3>2 DEF CheckUiDraft
    <3>3. CASE ActivateUiDraft \/ ResumeChecks \/ ResumePlan \/ InspectForRecalculation \/ DraftReplacement
      BY <1>4, <2>0, <3>3 DEF ActivateUiDraft, ResumeChecks, ResumePlan, InspectForRecalculation,
         DraftReplacement, PlanInv, Uis
    <3>4. CASE ReplacePlan \/ CheckDiscard \/ DiscardPlan \/ ActionFails
      BY <1>4, <2>0, <3>4 DEF ReplacePlan, CheckDiscard, DiscardPlan, ActionFails, PlanInv, Uis
    <3>5. CASE EndAutomatic \/ FindPlanToEnd \/ EndPlan \/ Adopt
      BY <1>4, <2>0, <3>5 DEF EndAutomatic, FindPlanToEnd, EndPlan, Adopt, IdleUi, PlanInv, Uis
    <3>6. CASE CheckAdoption \/ WriteAdoption
      BY <1>4, <2>0, <3>6 DEF CheckAdoption, WriteAdoption, Ui, PlanInv, Uis
    <3> QED  BY <2>2, <3>1, <3>2, <3>3, <3>4, <3>5, <3>6 DEF Operator
  <2>3. CASE Playback
    BY <1>4, <2>3 DEF Playback, LoadTitle, StartTitle, EndTitle, DropTitle, Play, ForeignTitleStarts, PauseForForeignPlayback
  <2>4. CASE Process
    BY <1>4, <2>0, <2>4 DEF Process, Decide, CloseSession, FinishSession, InspectAtStartup, DiscardForFinishedSession,
       Restart, IdleUi, PlanInv, Uis
  <2>5. CASE RefreshQueue \/ RefillAnswered \/ UNCHANGED vars
    BY <1>4, <2>5 DEF RefreshQueue, RefillAnswered, vars
  <2> QED  BY <2>1, <2>2, <2>3, <2>4, <2>5 DEF Next
<1> QED  BY <1>1, <1>2, <1>3, <1>4

\* The step that queues a title links it where nothing was linked.
LEMMA MaterializeAccounts ==
  ASSUME AccountInv, MaterializeStep
  PROVE  (\A p \in Plans : WellKept(plan'[p])) /\ OneStepEach' /\ EndedStay
<1> PlanInv /\ (\A p \in Plans : WellKept(plan[p])) /\ OneStepEach
  BY DEF AccountInv
<1>1. CASE plan' = plan /\ row' = row
  BY <1>1 DEF OneStepEach, EndedStay
<1>2. CASE StillPlans(exec.p, exec.rev)
  <2> DEFINE q == plan[exec.p]
             e == First(NewEntries)
             i == First(PlannedAt(q))
             x == Step("QUEUED", e)
             w == [Moved(q, q.status) EXCEPT !.steps[i] = x]
  <2>1. exec.p \in Plans /\ NewEntries # {}
    BY DEF MaterializeStep, Exec, PlanInv, HoldsPlan, HoldsTitle, Evaluating
  <2>2. q \in PlanRecord /\ q.status = "ACTIVE" /\ PlannedAt(q) # {} /\ WellKept(q) /\ q.status \in Resumable
    BY <1>2, <2>1 DEF StillPlans, PlanInv, PlansOK, Resumable
  <2>3. e \in Entries /\ row[e] = "none"
    <3>1. NewEntries \in SUBSET Nat
      BY Constants DEF NewEntries
    <3> QED  BY <2>1, <3>1, FirstIsIn DEF NewEntries
  <2>4. x \in StepRecord /\ x.st # "PLANNED" /\ x.entry = e
    BY <2>3 DEF Step, StepRecord
  <2>5. /\ WellKept(w) /\ i \in DOMAIN w.steps
        /\ \A f \in Entries : Linked(w, f) = IF f = x.entry THEN Linked(q, f) \cup {i} ELSE Linked(q, f)
    BY <2>2, <2>4, SettledRecord
  <2>6. plan' = [plan EXCEPT ![exec.p] = w] /\ row' = [row EXCEPT ![e] = "waiting"]
    BY <1>2 DEF MaterializeStep
  <2> HIDE DEF w, x, i, e
  <2>7. \A p \in Plans : plan'[p] = IF p = exec.p THEN w ELSE plan[p]
    BY <2>1, <2>6 DEF PlanInv, PlansOK
  <2>8. \A p \in Plans : WellKept(plan'[p])
    BY <2>5, <2>7
  <2>9. EndedStay
    BY <2>2, <2>7 DEF EndedStay, Ended
  <2>10. \A p \in Plans : Linked(plan[p], e) = {}
    BY <2>3 DEF OneStepEach
  <2>11. row'[e] = "waiting" /\ \A f \in Entries \ {e} : row'[f] = row[f]
    BY <2>3, <2>6 DEF PlanInv, Rows
  <2>12. Linked(plan'[exec.p], e) = {i} /\ i \in DOMAIN plan'[exec.p].steps
    BY <2>1, <2>3, <2>4, <2>5, <2>7, <2>10
  <2>13. \A p \in Plans \ {exec.p} : Linked(plan'[p], e) = {}
    BY <2>7, <2>10
  <2>14. ASSUME NEW f \in Entries \ {e}, NEW p \in Plans
         PROVE  /\ Linked(plan'[p], f) = Linked(plan[p], f)
                /\ \A j \in Linked(plan[p], f) : j \in DOMAIN plan'[p].steps
    <3>1. Linked(plan'[p], f) = Linked(plan[p], f)
      BY <2>1, <2>4, <2>5, <2>7
    <3> QED  BY <3>1 DEF Linked
  <2>15. OneStepEach'
    <3> SUFFICES ASSUME NEW f \in Entries
                 PROVE  /\ row'[f] = "none" => \A p \in Plans : Linked(plan'[p], f) = {}
                        /\ row'[f] # "none" =>
                             \E p \in Plans : /\ \E j \in DOMAIN plan'[p].steps : Linked(plan'[p], f) = {j}
                                              /\ \A r \in Plans \ {p} : Linked(plan'[r], f) = {}
      BY DEF OneStepEach
    <3>1. CASE f = e
      BY <2>1, <2>11, <2>12, <2>13, <3>1
    <3>2. CASE f # e
      <4>1. /\ row'[f] = row[f]
            /\ \A p \in Plans : /\ Linked(plan'[p], f) = Linked(plan[p], f)
                               /\ \A j \in Linked(plan[p], f) : j \in DOMAIN plan'[p].steps
        BY <2>11, <2>14, <3>2
      <4>2. CASE row[f] = "none"
        BY <4>1, <4>2 DEF OneStepEach
      <4>3. CASE row[f] # "none"
        <5>1. PICK p \in Plans : /\ \E j \in DOMAIN plan[p].steps : Linked(plan[p], f) = {j}
                                 /\ \A r \in Plans \ {p} : Linked(plan[r], f) = {}
          BY <4>3 DEF OneStepEach
        <5>2. PICK j : Linked(plan[p], f) = {j}
          BY <5>1
        <5>3. Linked(plan'[p], f) = {j} /\ j \in DOMAIN plan'[p].steps
          BY <4>1, <5>2
        <5> QED  BY <4>1, <4>3, <5>1, <5>3
      <4> QED  BY <4>2, <4>3
    <3> QED  BY <3>1, <3>2
  <2> QED  BY <2>8, <2>9, <2>15
<1> QED  BY <1>1, <1>2 DEF MaterializeStep

\* All others leave every link, and every row that is there, where it is.
LEMMA OthersAccount ==
  ASSUME AccountInv, PlansMove, RowsStay
  PROVE  (\A p \in Plans : WellKept(plan'[p])) /\ OneStepEach' /\ EndedStay
<1>1. \A p \in Plans : /\ WellKept(plan'[p])
                       /\ \A e \in Entries : Linked(plan'[p], e) = Linked(plan[p], e)
                       /\ plan[p].status \in Ended => plan'[p].status \in Ended /\ plan'[p].steps = plan[p].steps
  BY DEF AccountInv, PlansMove, RecordMove
<1>2. \A p \in Plans, e \in Entries : \A j \in Linked(plan'[p], e) : j \in DOMAIN plan'[p].steps
  BY DEF Linked
<1>3. OneStepEach'
  <2> SUFFICES ASSUME NEW e \in Entries
               PROVE  /\ row'[e] = "none" => \A p \in Plans : Linked(plan'[p], e) = {}
                      /\ row'[e] # "none" =>
                           \E p \in Plans : /\ \E j \in DOMAIN plan'[p].steps : Linked(plan'[p], e) = {j}
                                            /\ \A r \in Plans \ {p} : Linked(plan'[r], e) = {}
    BY DEF OneStepEach
  <2>1. CASE row[e] = "none"
    BY <1>1, <2>1 DEF RowsStay, AccountInv, OneStepEach
  <2>2. CASE row[e] # "none"
    <3>1. PICK p \in Plans : /\ \E i \in DOMAIN plan[p].steps : Linked(plan[p], e) = {i}
                             /\ \A q \in Plans \ {p} : Linked(plan[q], e) = {}
      BY <2>2 DEF AccountInv, OneStepEach
    <3>2. PICK i : Linked(plan[p], e) = {i}
      BY <3>1
    <3>3. Linked(plan'[p], e) = {i} /\ i \in DOMAIN plan'[p].steps
      BY <1>1, <1>2, <3>2
    <3> QED  BY <1>1, <2>2, <3>1, <3>3 DEF RowsStay
  <2> QED  BY <2>1, <2>2
<1> QED  BY <1>1, <1>3 DEF EndedStay

LEMMA AccountStep ==
  ASSUME AccountInv, [Next]_vars
  PROVE  AccountInv' /\ EndedStay
<1>1. PlanInv' /\ Grows(plan, plan')
  BY StepKept DEF AccountInv, Kept
<1>2. (\A p \in Plans : WellKept(plan'[p])) /\ OneStepEach' /\ EndedStay
  <2>1. CASE MaterializeStep
    BY <2>1, MaterializeAccounts
  <2>2. CASE ~MaterializeStep
    BY <2>2, EveryPlanMoves, EveryRowStays, OthersAccount DEF AccountInv
  <2> QED  BY <2>1, <2>2
<1>3. Seen'
  BY <1>1, ExecutionSees, OperatorSees DEF Seen
<1> QED  BY <1>1, <1>2, <1>3 DEF AccountInv

LEMMA AccountInit ==
  ASSUME Init
  PROVE  AccountInv
<1>1. PlanInv
  BY InitKept
<1>2. \A p \in Plans : plan[p] = Unused
  BY DEF Init
<1>3. \A p \in Plans : WellKept(plan[p])
  BY <1>2 DEF WellKept, Unused, Ended, PlannedAt
<1>4. OneStepEach
  BY <1>2 DEF Init, OneStepEach, Linked, Unused
<1>5. Seen
  BY DEF Init, Seen, IdleExec, IdleUi
<1> QED  BY <1>1, <1>3, <1>4, <1>5 DEF AccountInv
----------------------------------------------------------------------------
\* For any number of plans and titles, and whatever meets: what each writer holds is what
\* it has read, as long as the revision is still the one it read.
THEOREM PlanInvariant == Spec => []PlanInv
<1>1. PlanInv /\ [Next]_vars => PlanInv'
  BY StepKept DEF Kept
<1> QED  BY InitKept, <1>1, PTL DEF Spec

\* Plans, rows and what the threads hold keep their ranges, and one plan of the session at
\* most can go on, whoever activates, resumes, pauses or replaces one.
THEOREM OnePlanGoesOn == Spec => []TypeOK
<1>1. PlanInv => TypeOK
  <2> SUFFICES ASSUME PlanInv PROVE TypeOK
    OBVIOUS
  <2>1. plan \in [Plans -> PlanRecord] /\ OneResumable /\ row \in [Entries -> {"none", "waiting", "loaded",
               "playing", "over", "interrupted", "removed"}]
    BY DEF PlanInv, PlansOK, OneResumable, Rows
  <2>2. /\ exec.present \in 0..Target /\ exec.p \in PlanOrNone /\ exec.rev \in Nat
        /\ ui.p \in PlanOrNone /\ ui.rev \in Nat /\ ui.n \in PlanOrNone
        /\ foreign.p \in PlanOrNone /\ foreign.rev \in Nat
    BY DEF PlanInv, Execs, Uis, Foreigns
  <2>3. \A holder \in {exec, ui, foreign} : holder.p \in Plans \cup {NoPlan} /\ holder.rev \in Nat
    BY <2>2 DEF PlanOrNone
  <2> QED  BY <2>1, <2>2, <2>3 DEF TypeOK, PlanOrNone
<1> QED  BY <1>1, PlanInvariant, PTL

\* A title gets into the queue only by the plan that is active at that very moment.
THEOREM ActivePlanQueues == Spec => OnlyActivePlanQueues
<1>1. PlanInv /\ [Next]_vars =>
        [\A e \in Entries : row[e] = "none" /\ row'[e] # "none"
           => \E p \in Plans : plan[p].status = "ACTIVE" /\ plan'[p].status = "ACTIVE" /\ e \in EntriesOf(plan'[p])]_vars
  BY StepKept DEF Kept, QueuedByActive
<1> QED  BY <1>1, PlanInvariant, PTL DEF Spec, OnlyActivePlanQueues

\* Whatever meets at a revision, every entry keeps its one step, and what is seen of a plan
\* at its revision is so.
THEOREM AccountInvariant == Spec => []AccountInv
<1>1. AccountInv /\ [Next]_vars => AccountInv'
  BY AccountStep
<1> QED  BY AccountInit, <1>1, PTL DEF Spec

\* Plans and queue keep one account: every automatic entry of party_queue was queued by
\* exactly one step of one plan, and a plan that has ended plans nothing any more.
THEOREM PlansAndQueueAgree == Spec => []OneAccount
<1>1. AccountInv => OneAccount
  <2> SUFFICES ASSUME AccountInv PROVE OneAccount
    OBVIOUS
  <2>1. ASSUME NEW e \in Entries \ NewEntries
        PROVE  \E p \in Plans : \E i \in DOMAIN plan[p].steps :
                 /\ plan[p].steps[i].entry = e
                 /\ \A q \in Plans : \A j \in DOMAIN plan[q].steps : plan[q].steps[j].entry = e => <<q, j>> = <<p, i>>
    <3>1. row[e] # "none"
      BY <2>1 DEF NewEntries
    <3>2. PICK p \in Plans : /\ \E i \in DOMAIN plan[p].steps : Linked(plan[p], e) = {i}
                             /\ \A q \in Plans \ {p} : Linked(plan[q], e) = {}
      BY <3>1 DEF AccountInv, OneStepEach
    <3>3. PICK i \in DOMAIN plan[p].steps : Linked(plan[p], e) = {i}
      BY <3>2
    <3>4. plan[p].steps[i].entry = e
      BY <3>3 DEF Linked
    <3>5. \A q \in Plans : \A j \in DOMAIN plan[q].steps : plan[q].steps[j].entry = e => q = p /\ j = i
      BY <3>2, <3>3 DEF Linked
    <3> QED  BY <3>4, <3>5
  <2>2. ASSUME NEW p \in Plans
        PROVE  EntriesOf(plan[p]) \cap NewEntries = {} /\ (plan[p].status \in Ended => PlannedAt(plan[p]) = {})
    <3>1. \A e \in NewEntries : e \in Entries /\ Linked(plan[p], e) = {}
      BY DEF AccountInv, OneStepEach, NewEntries
    <3>2. EntriesOf(plan[p]) \cap NewEntries = {}
      BY <3>1 DEF EntriesOf, Linked
    <3> QED  BY <3>2 DEF AccountInv, WellKept
  <2> QED  BY <2>1, <2>2 DEF OneAccount
<1> QED  BY <1>1, AccountInvariant, PTL

\* A completed, replaced or discarded plan stays ended with the steps it ended with: no late
\* worker and no dialog with an old view reaches it.
THEOREM EndedPlansStay == Spec => EndedPlanStays
<1>1. AccountInv /\ [Next]_vars =>
        [\A p \in Plans : plan[p].status \in Ended
           => plan'[p].status \in Ended /\ plan'[p].steps = plan[p].steps]_vars
  BY AccountStep DEF EndedStay
<1> QED  BY <1>1, AccountInvariant, PTL DEF Spec, EndedPlanStays
=============================================================================
