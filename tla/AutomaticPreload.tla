-------------------------- MODULE AutomaticPreload --------------------------
(***************************************************************************)
(* The background preload of controllers/main_controller.py.  The GUI      *)
(* thread looks for a free deck and submits a search to the preload        *)
(* executor (one worker, FIFO); the result comes back as a GUI callback    *)
(* that submits the preparation of the chosen entry; the prepared medium   *)
(* comes back as a callback that adopts it on the deck and submits the     *)
(* commit of the entry as READY; a last callback closes the cycle.         *)
(*                                                                         *)
(* Every job, callback and timer remembers the preload generation it was   *)
(* made in and is compared with the current one.  As the generation only   *)
(* grows, what was made in an older one never becomes current again: the   *)
(* number is represented by the flag `live`, and increasing it (Outdate)   *)
(* clears the flag of everything outstanding.                              *)
(*                                                                         *)
(* A call of the queue service is one step here; QueueLifecycle splits it  *)
(* into its statements.  Playback is what the preload needs of it: decks   *)
(* start, end and are mixed, and the end of a title is committed to the    *)
(* queue by another executor.                                              *)
(***************************************************************************)
EXTENDS Naturals, Sequences, FiniteSets

CONSTANTS Entries,       \* queue entries
          DeckA, DeckB,
          Capacity,      \* jobs running and waiting on the preload executor
          MaxEvents,     \* bound: unprocessed callbacks before the GUI acts
          Operators,     \* what the operator does in this instance
          Slow,          \* stages that may outlast a timer or a tick
          Failing        \* stages that may fail

AllOperators == {"load", "play", "pause", "resume", "skip", "remove", "move", "retry"}
AllStages == {"prepare", "persist", "commit"}
AllFailures == {"media", "adopt", "persist", "handover"}

VARIABLES row,      \* party_queue: status and loaded_deck of each entry
          ctl,      \* what the controller keeps on the GUI thread
          jobs,     \* the preload executor: head is running
          events,   \* GUI callbacks, oldest first
          timer,    \* the preparation timeout of the current generation
          commits   \* ends of playback not committed to the queue yet

vars == <<row, ctl, jobs, events, timer, commits>>
pipe == <<jobs, events, timer>>

Decks == {DeckA, DeckB}
Other(d) == IF d = DeckA THEN DeckB ELSE DeckA
NoDeck == "none"
NoEntry == "none"
MaximumFailures == 3

ASSUME PreloadAssumption ==
  /\ IsFiniteSet(Entries) /\ DeckA # DeckB
  /\ NoEntry \notin Entries /\ NoDeck \notin Decks
  /\ Capacity \in Nat \ {0} /\ MaxEvents \in Nat
  /\ Operators \subseteq AllOperators /\ Slow \subseteq AllStages /\ Failing \subseteq AllFailures

Statuses == {"waiting", "preparing", "ready", "playing", "played", "skipped", "failed", "removed"}
Active == {"preparing", "ready", "playing"}
Rows == [Entries -> [status : Statuses, deck : Decks \cup {NoDeck}]]

EmptyDeck == [track |-> NoEntry, phase |-> "empty", queue |-> NoEntry]
NoTimer == [e |-> NoEntry, d |-> NoDeck]

\* The handover under way: the deck that is mixed out, and what was on it when it began.
NoMix == [deck |-> NoDeck, track |-> NoEntry, queue |-> NoEntry]
Mixing(g) == g.ctl.mix # NoMix

JobKinds == {"search", "load", "persist", "cleanup"}
EventKinds == {"found", "unavailable", "failed", "complete", "followup", "persistFailed"}
----------------------------------------------------------------------------
(* The queue service, one call at a time.                                  *)

AllowedTransitions ==
  [waiting   |-> {"preparing", "ready", "played", "skipped", "failed", "removed"},
   preparing |-> {"ready", "waiting", "skipped", "failed", "removed"},
   ready     |-> {"playing", "waiting", "skipped", "failed", "removed"},
   playing   |-> {"ready", "played", "skipped", "failed", "removed"},
   played    |-> {"playing", "waiting", "removed"},
   skipped   |-> {"waiting", "removed"},
   failed    |-> {"waiting", "removed"},
   removed   |-> {}]

\* loaded_deck after _update_queue_status.
DeckAfter(r, e, target, d) == CASE target \in {"removed", "failed", "skipped"} -> NoDeck
                                [] OTHER -> IF d = NoDeck THEN r[e].deck ELSE d

\* idx_party_queue_active_deck: one active entry a deck.
DeckTaken(r, e, d) == \E x \in Entries \ {e} : r[x].deck = d /\ r[x].status \in Active

CanMove(r, e, target, d) ==
  /\ r[e].status = target \/ target \in AllowedTransitions[r[e].status]
  /\ target \in Active /\ DeckAfter(r, e, target, d) # NoDeck
       => ~DeckTaken(r, e, DeckAfter(r, e, target, d))

Moved(r, e, target, d) == [r EXCEPT ![e] = [status |-> target, deck |-> DeckAfter(r, e, target, d)]]

\* release_deck_assignments(d, e).
Released(r, d, e) == [x \in Entries |->
                        IF x # e /\ r[x].deck = d /\ r[x].status \in {"ready", "playing"}
                        THEN [status |-> "skipped", deck |-> NoDeck] ELSE r[x]]

Reset(r, e) == [r EXCEPT ![e] = [status |-> "waiting", deck |-> NoDeck]]

\* Variant: every ready assignment counts as lost.
ReconciledBlindly(r, seen) == [x \in Entries |->
                                 IF r[x].status = "ready"
                                 THEN [status |-> "waiting", deck |-> NoDeck] ELSE r[x]]

\* reconcile_deck_assignments, given the tracks the decks showed.
Reconciled(r, seen) == [x \in Entries |->
                          IF /\ r[x].status = "ready" /\ r[x].deck \in Decks
                             /\ seen[r[x].deck] # x
                          THEN [status |-> "waiting", deck |-> NoDeck] ELSE r[x]]
----------------------------------------------------------------------------
(* The GUI thread between two callbacks.  A handler is a composition of    *)
(* functions on g, the state a handler reads and writes.                   *)

G == [row |-> row, ctl |-> ctl, jobs |-> jobs, events |-> events,
      timer |-> timer, commits |-> commits]
Done(g) == /\ row' = g.row /\ ctl' = g.ctl /\ jobs' = g.jobs
           /\ events' = g.events /\ timer' = g.timer /\ commits' = g.commits

Stale(s) == [i \in DOMAIN s |-> [s[i] EXCEPT !.live = FALSE]]

\* _preload_generation += 1; _preload_in_progress = False
Outdate(g) == [g EXCEPT !.jobs = Stale(@), !.events = Stale(@),
                        !.timer = NoTimer, !.ctl.busy = FALSE]

\* _refresh_queue: removed entries keep their row here, nothing asks for them.
Refresh(g) == [g EXCEPT !.ctl.cache = g.row]

\* _pause_automatic_queue
Pause(g) == [Outdate(g) EXCEPT !.ctl.running = FALSE, !.ctl.paused = TRUE, !.ctl.mix = NoMix]

\* _manual_override
Override(g) == [Outdate(g) EXCEPT !.ctl.streak = 0, !.ctl.running = FALSE, !.ctl.mix = NoMix]

Job(kind, e, d) == [kind |-> kind, e |-> e, d |-> d, live |-> TRUE, at |-> "start",
                    recovery |-> FALSE, changed |-> FALSE, seen |-> [x \in Decks |-> NoEntry]]

\* Variant: the job that runs does not count.
HasRoomForOneMore(g) == Len(g.jobs) <= Capacity
HasRoom(g) == Len(g.jobs) < Capacity

\* _start_worker: a full executor rejects the job.
Submit(g, job) == IF HasRoom(g) THEN [g EXCEPT !.jobs = Append(@, job)] ELSE g

\* _free_decks_requiring_preload
FreeDecks(g) == {d \in Decks : /\ g.ctl.deck[d] = EmptyDeck
                               /\ \A x \in Entries : ~( g.ctl.cache[x].deck = d
                                                      /\ g.ctl.cache[x].status \in Active )}

CachedWaiting(g) == {x \in Entries : g.ctl.cache[x].status = "waiting"}

\* _auto_load, _auto_load_in_background
AutoLoad(g, recovery) ==
  IF g.ctl.paused \/ g.ctl.busy \/ FreeDecks(g) = {} THEN g
  ELSE IF CachedWaiting(g) = {}
       THEN IF recovery /\ g.ctl.running THEN Pause(g) ELSE g
       ELSE LET job == [Job("search", NoEntry, NoDeck) EXCEPT !.recovery = recovery]
            IN  [Submit(Outdate(g), job) EXCEPT !.ctl.busy = HasRoom(g)]

\* _start_background_preload; a rejected job leaves the flag to the timer.
StartPreload(g, e, d) ==
  [Submit(Outdate(g), Job("load", e, d)) EXCEPT !.ctl.busy = TRUE, !.timer = [e |-> e, d |-> d]]

\* _continue_after_preparation_failure
ContinueAfterFailure(g) ==
  LET counted == [g EXCEPT !.ctl.streak = IF @ < MaximumFailures THEN @ + 1 ELSE @]
  IN  IF counted.ctl.streak = MaximumFailures THEN Pause(counted) ELSE AutoLoad(counted, TRUE)

\* _deck_is_ready_for_automatic_playback
DeckIsReady(g, d) == /\ g.ctl.deck[d].phase = "loaded"
                     /\ LET q == g.ctl.deck[d].queue
                        IN  q = NoEntry \/ g.row[q].status \in {"ready", "playing"}

\* deck_action("play"): mark_playing of the deck's entry or, when that is refused,
\* of the entry the queue shows on the deck; then refresh.  A new playback of the
\* entry makes an older end of it obsolete.
Startable(g, x) == x # NoEntry /\ g.row[x].status \in {"ready", "playing", "played"}

StartDeck(g, d) ==
  LET k == g.ctl.deck[d]
      heard == CASE Startable(g, k.queue) -> k.queue
                 [] Startable(g, k.track) /\ g.row[k.track].deck = d -> k.track
                 [] OTHER -> NoEntry
      started == [g EXCEPT !.ctl.deck[d] = [k EXCEPT !.phase = "playing", !.queue = heard],
                           !.commits = {c \in @ : c.e # k.queue}]
  IN  Refresh(IF heard = NoEntry THEN started ELSE [started EXCEPT !.row[heard].status = "playing"])

Playing(g) == {d \in Decks : g.ctl.deck[d].phase = "playing"}
ReadyDecks(g) == {d \in Decks : DeckIsReady(g, d)}

\* _automatic_playback_tick while nothing plays and nothing is mixed: start the first
\* ready deck; with nothing left in the queue the automatic run ends.
StartNext(g) ==
  IF ~g.ctl.running \/ Mixing(g) \/ g.ctl.busy \/ Playing(g) # {} THEN g
  ELSE IF ReadyDecks(g) # {}
       THEN StartDeck(g, IF DeckA \in ReadyDecks(g) THEN DeckA ELSE DeckB)
       ELSE IF \E x \in Entries : g.ctl.cache[x].status \in {"waiting", "ready"} THEN g
            ELSE [g EXCEPT !.ctl.running = FALSE, !.ctl.paused = FALSE]
----------------------------------------------------------------------------
(* The preload worker.  A job publishes one callback and ends.             *)

Running(kind, at) == jobs # << >> /\ jobs[1].kind = kind /\ jobs[1].at = at
Advances(at) == jobs' = [jobs EXCEPT ![1].at = at]
Ends == jobs' = Tail(jobs)

Event(kind, job) == [kind |-> kind, e |-> job.e, d |-> job.d, live |-> job.live,
                     changed |-> job.changed, recovery |-> job.recovery]
Publishes(ev) == events' = Append(events, ev)

\* search_worker: reconcile_deck_assignments reads the decks, then the queue.
SearchSees ==
  /\ Running("search", "start")
  /\ jobs' = [jobs EXCEPT ![1].at = "seen", ![1].seen = [d \in Decks |-> ctl.deck[d].track]]
  /\ UNCHANGED <<row, ctl, events, timer, commits>>

\* Variant: a search that only ever offers the first deck.
SearchReconcilesFirstDeckOnly ==
  /\ Running("search", "seen")
  /\ row' = Reconciled(row, jobs[1].seen)
  /\ jobs' = [jobs EXCEPT ![1].at = "choosing", ![1].changed = (row' # row),
                          ![1].d = IF ctl.deck[DeckA].track = NoEntry THEN DeckA ELSE NoDeck]
  /\ UNCHANGED <<ctl, events, timer, commits>>

\* ... resets what the decks did not show; next_load_candidate takes the first
\* deck that is empty now, if there is one.
SearchReconciles ==
  /\ Running("search", "seen")
  /\ LET empty == {d \in Decks : ctl.deck[d].track = NoEntry}
     IN  /\ row' = Reconciled(row, jobs[1].seen)
         /\ jobs' = [jobs EXCEPT ![1].at = "choosing", ![1].changed = (row' # row),
                                 ![1].d = CASE DeckA \in empty -> DeckA
                                            [] empty = {DeckB} -> DeckB
                                            [] OTHER -> NoDeck]
  /\ UNCHANGED <<ctl, events, timer, commits>>

\* A waiting entry that breaks a rule or has lost its file is rejected for good.
SearchRejects ==
  /\ Running("search", "choosing") /\ jobs[1].d # NoDeck /\ "media" \in Failing
  /\ \E x \in Entries, target \in {"skipped", "failed"} :
       /\ row[x].status = "waiting"
       /\ row' = Moved(row, x, target, NoDeck)
  /\ UNCHANGED <<ctl, pipe, commits>>

\* The queue's order decides which waiting entry is next; any may be first.
SearchFinds ==
  /\ Running("search", "choosing")
  /\ LET waiting == {x \in Entries : row[x].status = "waiting"}
     IN  IF jobs[1].d = NoDeck \/ waiting = {}
         THEN Publishes(Event("found", jobs[1]))
         ELSE \E x \in waiting : Publishes([Event("found", jobs[1]) EXCEPT !.e = x])
  /\ Ends
  /\ UNCHANGED <<row, ctl, timer, commits>>

\* revalidate_candidate: cancelled, no longer waiting, or the file is not available.
Validate ==
  /\ Running("load", "start")
  /\ \/ /\ jobs[1].live /\ row[jobs[1].e].status = "waiting"
        /\ Advances("validated")
        /\ UNCHANGED events
     \/ /\ \/ ~jobs[1].live
           \/ row[jobs[1].e].status # "waiting"
           \/ "media" \in Failing
        /\ Publishes(Event("unavailable", jobs[1]))
        /\ Ends
  /\ UNCHANGED <<row, ctl, timer, commits>>

MarkPreparing ==
  /\ Running("load", "validated")
  /\ LET job == jobs[1]
     IN  IF CanMove(row, job.e, "preparing", job.d)
         THEN /\ row' = Moved(row, job.e, "preparing", job.d)
              /\ Advances("marked")
              /\ UNCHANGED events
         ELSE /\ Publishes(Event("failed", job))
              /\ Ends
              /\ UNCHANGED row
  /\ UNCHANGED <<ctl, timer, commits>>

Prepare ==
  /\ Running("load", "marked")
  /\ \/ Publishes(Event("complete", jobs[1]))
     \/ "media" \in Failing /\ Publishes(Event("failed", jobs[1]))
  /\ Ends
  /\ UNCHANGED <<row, ctl, timer, commits>>

\* persist_preload: what an older generation left is not committed; a generation
\* that ends after the second look is not noticed.
PersistReleases ==
  /\ Running("persist", "start")
  /\ IF jobs[1].live
     THEN row' = Released(row, jobs[1].d, jobs[1].e) /\ Advances("released")
     ELSE Ends /\ UNCHANGED row
  /\ UNCHANGED <<ctl, events, timer, commits>>

PersistChecks ==
  /\ Running("persist", "released")
  /\ IF jobs[1].live THEN Advances("checked") ELSE Ends
  /\ UNCHANGED <<row, ctl, events, timer, commits>>

PersistMarksLoaded ==
  /\ Running("persist", "checked")
  /\ LET job == jobs[1]
     IN  \/ /\ CanMove(row, job.e, "ready", job.d)
            /\ row' = Moved(row, job.e, "ready", job.d)
            /\ Publishes(Event("followup", job))
         \/ /\ "persist" \in Failing \/ ~CanMove(row, job.e, "ready", job.d)
            /\ Publishes(Event("persistFailed", job))
            /\ UNCHANGED row
  /\ Ends
  /\ UNCHANGED <<ctl, timer, commits>>

\* backend.stop of a deck that was emptied.
Cleanup == /\ Running("cleanup", "start")
           /\ Ends
           /\ UNCHANGED <<row, ctl, events, timer, commits>>

Worker == \/ SearchSees \/ SearchReconciles \/ SearchFinds \/ Validate \/ MarkPreparing
          \/ PersistReleases \/ PersistChecks \/ PersistMarksLoaded \/ Cleanup
----------------------------------------------------------------------------
(* The GUI callbacks of the worker.                                        *)

Arrived(kind) == events # << >> /\ events[1].kind = kind
Processed == [G EXCEPT !.events = Tail(@)]
Ignored == /\ events' = Tail(events)
           /\ UNCHANGED <<row, ctl, jobs, timer, commits>>
Idle(g) == [g EXCEPT !.ctl.busy = FALSE]

\* A result that came too late ends the handover under way, too: _transition.reset().
TooLate(g) == [g EXCEPT !.ctl.busy = FALSE, !.ctl.mix = NoMix]

\* search_complete
OnFound ==
  /\ Arrived("found")
  /\ LET ev == events[1]
         seen == IF ev.changed THEN Refresh(Idle(Processed)) ELSE Idle(Processed)
     IN  IF ~ev.live THEN Ignored
         ELSE Done(CASE ev.e # NoEntry -> StartPreload(seen, ev.e, ev.d)
                     [] ev.e = NoEntry /\ ev.recovery -> Pause(seen)
                     [] OTHER -> seen)

\* unavailable, failed: what is no longer the preload's to fail is left alone.
Rejected(targets) ==
  LET ev == events[1]
      g == Idle(Processed)
  IN  IF ~ev.live THEN Ignored
      ELSE IF row[ev.e].status \in {"waiting", "preparing"}
           THEN \E target \in targets :
                  Done(ContinueAfterFailure(Refresh([g EXCEPT !.row = Moved(@, ev.e, target, NoDeck)])))
           ELSE Done(AutoLoad(Refresh(TooLate(g)), FALSE))

OnUnavailable == Arrived("unavailable") /\ Rejected({"skipped", "failed"})
OnFailed == Arrived("failed") /\ Rejected({"failed"})

\* _preload_cache_conflicts
CacheConflicts(e) == ctl.cache[e].status \notin {"waiting", "preparing", "removed"}

Adopted(g, e, d) ==
  Submit([g EXCEPT !.ctl.deck[d] = [track |-> e, phase |-> "loaded", queue |-> e]],
         Job("persist", e, d))

\* Variant: an older generation's medium is adopted, too.
OnCompleteAnyGeneration ==
  /\ Arrived("complete")
  /\ LET ev == events[1]
     IN  IF CacheConflicts(ev.e) \/ ctl.deck[ev.d].track # NoEntry
         THEN Done(TooLate(Processed))
         ELSE Done(Adopted(Processed, ev.e, ev.d))

\* complete: adopt the medium on a deck that is still free.
OnComplete ==
  /\ Arrived("complete")
  /\ LET ev == events[1]
     IN  IF ~ev.live THEN Ignored
         ELSE IF CacheConflicts(ev.e) \/ ctl.deck[ev.d].track # NoEntry
              THEN Done(TooLate(Processed))
              ELSE \/ Done(Adopted(Processed, ev.e, ev.d))
                   \/ "adopt" \in Failing /\ Done(Idle(Processed))

\* followup: the automatic run may go on with the deck, the next search starts.
OnFollowup ==
  /\ Arrived("followup")
  /\ IF ~events[1].live THEN Ignored
     ELSE Done(AutoLoad(StartNext(Refresh(Idle(Processed))), FALSE))

\* persistence_failed: the generation is not compared here.
OnPersistFailed == /\ Arrived("persistFailed")
                   /\ Done(Idle(Processed))

Callback == OnFound \/ OnUnavailable \/ OnFailed \/ OnComplete \/ OnFollowup \/ OnPersistFailed
----------------------------------------------------------------------------
(* The rest of the GUI thread: timers, the status tick, playback.          *)

\* Jobs and callbacks of the current generation.
Outstanding == \/ \E i \in DOMAIN jobs : jobs[i].live
               \/ \E i \in DOMAIN events : events[i].live

\* Variant: whether the preload is already over is not asked.
TimerIsDueRegardless == timer # NoTimer /\ ~Outstanding

\* _handle_preload_timeout: the stage it measures is a slow one, or nothing else is
\* left of this generation.
TimerIsDue == /\ timer # NoTimer /\ ctl.busy
              /\ \/ ~Outstanding
                 \/ IF ctl.deck[timer.d].queue = timer.e THEN "persist" \in Slow
                                                         ELSE "prepare" \in Slow

\* Variant: the generation ends, its entry is forgotten.
TimeoutFiresSilently == TimerIsDue /\ Done(Outdate(G))

TimeoutFires ==
  /\ TimerIsDue
  /\ LET g == Outdate(G)
     IN  IF CanMove(row, timer.e, "failed", NoDeck)
         THEN Done(ContinueAfterFailure(Refresh([g EXCEPT !.row = Moved(@, timer.e, "failed", NoDeck)])))
         ELSE Done(g)

\* _run_status_tick: a healthy playing deck ends a row of failures.
Tick ==
  /\ Len(events) <= MaxEvents
  /\ \E healthy \in {FALSE} \cup {Playing(G) # {}} :
       LET g == IF healthy THEN [G EXCEPT !.ctl.streak = 0] ELSE G
           after == StartNext(AutoLoad(g, FALSE))
       IN  after # G /\ Done(after)

\* begin: the handover remembers what it mixes out.
Begun(g, d) == [g EXCEPT !.ctl.mix = [deck |-> d, track |-> g.ctl.deck[d].track,
                                      queue |-> g.ctl.deck[d].queue]]

\* _automatic_playback_tick near the end of the only playing deck; when both play
\* already, the one the crossfader points at is mixed out.
Crossfade(d) ==
  /\ ctl.running /\ ~ctl.busy /\ ~Mixing(G)
  /\ \/ /\ Playing(G) = {d} /\ Other(d) \in ReadyDecks(G)
        /\ Done(Begun(StartDeck(G, Other(d)), d))
     \/ Playing(G) = Decks /\ Done(Begun(G, d))

\* _wait_for_playback: without its titles the handover is aborted.
AbortTransition ==
  /\ Mixing(G)
  /\ Other(ctl.mix.deck) \notin Playing(G) \/ ctl.deck[ctl.mix.deck].track = NoEntry
  /\ Done([G EXCEPT !.ctl.mix = NoMix])

\* _handle_transition_failure: the incoming entry is no longer PLAYING, and an older end
\* of it is obsolete.
Withdrawn(g, target) ==
  LET d == Other(g.ctl.mix.deck)
      q == g.ctl.deck[d].queue
  IN  IF q = NoEntry \/ g.row[q].status # "playing" THEN g
      ELSE [g EXCEPT !.row = Moved(@, q, target, d), !.commits = {c \in @ : c.e # q},
                     !.ctl.deck[d] = IF target = "skipped" THEN EmptyDeck ELSE @]

\* INCOMING_PLAYBACK_LOST: the incoming backend is silent at the end; the run pauses.
LoseIncoming ==
  /\ "handover" \in Failing /\ Mixing(G)
  /\ Done(Refresh(Pause(Withdrawn(G, "ready"))))

\* INCOMING_PLAYBACK_NOT_CONFIRMED: it never began to play; its title is skipped.
SkipIncoming ==
  /\ "handover" \in Failing /\ Mixing(G)
  /\ LET g == Outdate(Withdrawn(G, "skipped"))
     IN  Done(Refresh(AutoLoad([g EXCEPT !.ctl.running = TRUE, !.ctl.paused = FALSE,
                                         !.ctl.mix = NoMix], FALSE)))

\* The entries whose playback ends on d: the one given, or what the cache shows.
EndingOn(d, queue) == IF queue # NoEntry THEN {queue}
               ELSE {x \in Entries : ctl.cache[x].deck = d /\ ctl.cache[x].status \in {"ready", "playing"}}

Ended(g, d, queue, keepDeck) ==
  LET ending == EndingOn(d, queue)
  IN  [g EXCEPT !.commits = @ \cup {[e |-> x, d |-> d] : x \in ending},
                !.ctl.cache = [x \in Entries |->
                    IF x \notin ending THEN @[x]
                    ELSE [status |-> "played", deck |-> IF keepDeck THEN @[x].deck ELSE NoDeck]]]

\* _complete_automatic_transition_impl: the deck is emptied if it still has the title
\* that was mixed out.
CompleteTransition ==
  /\ Mixing(G)
  /\ LET m == ctl.mix
         g == [Ended(G, m.deck, m.queue, FALSE) EXCEPT !.ctl.mix = NoMix]
     IN  Done(IF m.track # NoEntry /\ ctl.deck[m.deck].track = m.track
              THEN Submit([g EXCEPT !.ctl.deck[m.deck] = EmptyDeck], Job("cleanup", NoEntry, m.deck))
              ELSE g)

\* finish_deck: only an automatic run empties the deck at the natural end, and not
\* while it is mixed out.
FinishDeck(d) ==
  /\ ctl.mix.deck \in {NoDeck, d} /\ d \in Playing(G)
  /\ LET g == Ended(G, d, ctl.deck[d].queue, TRUE)
     IN  Done(IF ctl.running /\ ~Mixing(G) THEN [g EXCEPT !.ctl.deck[d] = EmptyDeck]
              ELSE [g EXCEPT !.ctl.deck[d].phase = "finished"])

\* complete_playing_queue_entry on the persistence executor.
Commit(c) ==
  /\ c \in commits
  /\ commits' = commits \ {c}
  /\ row' = IF row[c.e] = [status |-> "playing", deck |-> c.d]
            THEN [row EXCEPT ![c.e] = [status |-> "played", deck |-> NoDeck]] ELSE row
  /\ UNCHANGED <<ctl, pipe>>
----------------------------------------------------------------------------
(* The operator.                                                           *)

\* load_queue_track; the run is overridden before the operator is asked whether a
\* playing deck may be replaced.
Load(e, d) ==
  /\ row[e].status = "waiting"
  /\ LET g == [Override(G) EXCEPT !.ctl.deck[d] = [track |-> e, phase |-> "loaded", queue |-> e],
                                  !.row = Released(@, d, e)]
     IN  \/ Done(IF CanMove(g.row, e, "ready", d)
                 THEN Refresh([g EXCEPT !.row = Moved(@, e, "ready", d)]) ELSE g)
         \/ ctl.deck[d].phase = "playing" /\ Done(Override(G))

Play(d) == /\ ctl.deck[d].phase \in {"loaded", "finished"}
           /\ Done(StartDeck(Override(G), d))

PauseQueue == ctl.running /\ Done(Pause(G))

\* start_automatic_queue
Resume ==
  /\ ~ctl.running
  /\ \/ \E x \in Entries : row[x].status \in {"waiting", "ready", "playing"}
     \/ \E d \in Decks : ctl.deck[d].phase = "loaded"
  /\ Done(StartNext(AutoLoad([G EXCEPT !.ctl.paused = FALSE, !.ctl.running = TRUE], FALSE)))

Emptied(g, d) == [g EXCEPT !.ctl.deck[d] = EmptyDeck]

\* mark_queue_track_skipped
Skip(e) ==
  /\ CanMove(row, e, "skipped", NoDeck) /\ row[e].status # "skipped"
  /\ LET d == row[e].deck
         g == IF d # NoDeck /\ ctl.deck[d].queue = e THEN Emptied(G, d) ELSE G
     IN  Done(AutoLoad(Refresh([g EXCEPT !.row = Moved(@, e, "skipped", NoDeck)]), FALSE))

\* _release_prepared_queue_entry
MayRelease(e) == \/ row[e].status = "preparing"
                 \/ row[e].status = "ready" /\ ctl.deck[row[e].deck].phase # "playing"
ReleasedPrepared(e) ==
  IF row[e].status = "preparing" THEN [Outdate(G) EXCEPT !.ctl.mix = NoMix]
  ELSE Submit(Emptied(G, row[e].deck), Job("cleanup", NoEntry, row[e].deck))

\* remove_selected_queue_track
Remove(e) ==
  /\ \/ MayRelease(e)
     \/ row[e].status \in {"waiting", "played", "skipped", "failed"}
  /\ LET g == IF MayRelease(e) THEN ReleasedPrepared(e) ELSE G
     IN  Done(AutoLoad(Refresh([g EXCEPT !.row = Moved(@, e, "removed", NoDeck)]), FALSE))

\* move_prepared_queue_track
Move(e) == /\ MayRelease(e)
           /\ Done(Refresh([ReleasedPrepared(e) EXCEPT !.row = Reset(@, e)]))

Retry(e) == /\ row[e].status = "failed"
            /\ Done(AutoLoad(Refresh([G EXCEPT !.row = Reset(@, e)]), FALSE))

Operator ==
  /\ Len(events) <= MaxEvents
  /\ \/ "load" \in Operators /\ \E e \in Entries, d \in Decks : Load(e, d)
     \/ "play" \in Operators /\ \E d \in Decks : Play(d)
     \/ "pause" \in Operators /\ PauseQueue
     \/ "resume" \in Operators /\ Resume
     \/ "skip" \in Operators /\ \E e \in Entries : Skip(e)
     \/ "remove" \in Operators /\ \E e \in Entries : Remove(e)
     \/ "move" \in Operators /\ \E e \in Entries : Move(e)
     \/ "retry" \in Operators /\ \E e \in Entries : Retry(e)
----------------------------------------------------------------------------
Init ==
  /\ row = [e \in Entries |-> [status |-> "waiting", deck |-> NoDeck]]
  /\ ctl = [deck |-> [d \in Decks |-> EmptyDeck], cache |-> row, running |-> TRUE,
            paused |-> FALSE, streak |-> 0, busy |-> FALSE, mix |-> NoMix]
  /\ jobs = << >> /\ events = << >> /\ timer = NoTimer /\ commits = {}

\* Where commits are not slow they are over before the GUI thread goes on.
GuiMayGoOn == commits = {} \/ "commit" \in Slow

Next ==
  \/ Worker \/ SearchRejects \/ Prepare
  \/ GuiMayGoOn /\ ( \/ Callback \/ TimeoutFires \/ Tick \/ Operator \/ CompleteTransition
                     \/ AbortTransition \/ LoseIncoming \/ SkipIncoming
                     \/ \E d \in Decks : Crossfade(d) \/ FinishDeck(d) )
  \/ \E c \in commits : Commit(c)

Spec == Init /\ [][Next]_vars

\* The worker may be late, but its backend call returns; the GUI thread processes its
\* callbacks and timers; a commit ends.  Nothing is assumed of the operator, nor of
\* the moment a title ends.
GuiFairness == /\ WF_vars(GuiMayGoOn /\ Callback) /\ WF_vars(GuiMayGoOn /\ TimeoutFires)
               /\ WF_vars(GuiMayGoOn /\ Tick) /\ WF_vars(GuiMayGoOn /\ CompleteTransition)
               /\ \A e \in Entries, d \in Decks : WF_vars(Commit([e |-> e, d |-> d]))

FairSpec == Spec /\ GuiFairness /\ WF_vars(Worker) /\ WF_vars(Prepare)

----------------------------------------------------------------------------
(* Someone is still going to finish what was begun for e. *)
Owned(e) == \/ \E i \in DOMAIN jobs : jobs[i].live /\ jobs[i].e = e
            \/ \E i \in DOMAIN events : events[i].live /\ events[i].e = e
            \/ ctl.busy /\ timer.e = e

\* Types, and the bound of the executor's queue.
TypeOK ==
  /\ row \in Rows /\ ctl.cache \in Rows
  /\ ctl.deck \in [Decks -> [track : Entries \cup {NoEntry}, queue : Entries \cup {NoEntry},
                             phase : {"empty", "loaded", "playing", "finished"}]]
  /\ ctl.running \in BOOLEAN /\ ctl.paused \in BOOLEAN /\ ctl.busy \in BOOLEAN
  /\ ctl.streak \in 0..MaximumFailures /\ ctl.mix.deck \in Decks \cup {NoDeck}
  /\ Len(jobs) <= Capacity

\* An entry marked PREPARING is still prepared by someone of the current generation:
\* no path of the pipeline ends with an entry that blocks its deck for good.
PreparingIsOwned == \A e \in Entries : row[e].status = "preparing" => Owned(e)

\* What the preload put on a deck is READY in the queue, or its commit is under way:
\* _deck_is_ready_for_automatic_playback would otherwise never start it.
PreparedDeckUsable ==
  \A d \in Decks : LET k == ctl.deck[d]
                   IN  k.phase = "loaded" /\ k.queue # NoEntry
                         => row[k.queue].status = "ready" \/ Owned(k.queue)

\* One title is never on both decks.
OneDeckPerEntry == ctl.deck[DeckA].track = ctl.deck[DeckB].track => ctl.deck[DeckA].track = NoEntry

\* An entry that is PLAYING in the queue is heard, or its end is about to be committed.
PlayingIsHeard ==
  \A e \in Entries : row[e].status = "playing" =>
     \/ \E d \in Decks : ctl.deck[d].queue = e /\ ctl.deck[d].phase = "playing"
     \/ \E c \in commits : c.e = e

\* A deck a current job is about to claim for its entry is free in the queue, too: a
\* playable title is not failed by idx_party_queue_active_deck.
DeckFreeInQueueToo ==
  Running("load", "validated") /\ jobs[1].live => ~DeckTaken(row, jobs[1].e, jobs[1].d)

\* The two records of the party, the rows of the queue and the decks, which no transaction
\* spans, say the same of a title wherever a commit for it is not under way.
QueueAndDecksAgree == PreparedDeckUsable /\ OneDeckPerEntry /\ PlayingIsHeard /\ DeckFreeInQueueToo

\* While a deck goes on playing its entry, no job, timer or commit takes the entry
\* out of PLAYING.
HeardEntryKept ==
  [][\A d \in Decks : LET k == ctl.deck[d]
                      IN  k.phase = "playing" /\ k.queue # NoEntry /\ ctl'.deck[d] = k
                            => (row[k.queue].status = "playing" => row'[k.queue].status = "playing")]_vars

\* The result of a preload is adopted only for the entry that is PREPARING for that
\* very deck at this moment, whatever happened while it was prepared.
AdoptsOnlyPreparing ==
  [][\A d \in Decks, e \in Entries :
       Arrived("complete") /\ ctl.deck[d].track # e /\ ctl'.deck[d].track = e /\ Len(events') < Len(events)
         => row[e] = [status |-> "preparing", deck |-> d]]_vars

\* A free deck gets a title, unless the automatic run was paused or none is waiting.
DeckGetsFilled ==
  \A d \in Decks : ctl.deck[d] = EmptyDeck
     ~> (ctl.deck[d] # EmptyDeck \/ ctl.paused \/ \A x \in Entries : row[x].status # "waiting")
=============================================================================
