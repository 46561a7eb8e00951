----------------------------- MODULE Transition -----------------------------
(***************************************************************************)
(* The automatic handover from one deck to the other:                      *)
(* transition_controller.py with the part of main_controller.py that       *)
(* begins a transition, reacts to its failure and completes it.            *)
(*                                                                         *)
(* Five threads take part.  The GUI thread runs the status tick, the       *)
(* callbacks it scheduled (poll of the wait, render tick, finish) and the  *)
(* operator's commands, one handler at a time: a handler is a function on  *)
(* the record g.  Each crossfade has a thread that moves the fader.  The   *)
(* preload executor prepares media and stops the backend of a deck that    *)
(* was mixed out; the persistence executor commits ends of playback.  The  *)
(* backends start, fail and end by themselves.                             *)
(*                                                                         *)
(* The transition's generation only grows and an old callback returns at   *)
(* once, so only callbacks of the current generation are represented.  A   *)
(* ramp thread is different: having compared the generation it may still   *)
(* write one position (ramp.armed, late).  Whether the fader is half way   *)
(* is all that the code asks of it, so four positions are enough.          *)
(***************************************************************************)
EXTENDS Naturals, Sequences, FiniteSets

CONSTANTS N,          \* titles of the queue, in its order
          Scenarios   \* how often each command and each fault may occur

Titles == 1..N
Library == N + 1      \* a title the operator loads from the library: no queue entry
Nothing == 0
Decks == {"A", "B"}
Other(d) == IF d = "A" THEN "B" ELSE "A"
NoDeck == "none"

AllCommands == {"pause", "resume", "play", "deckpause", "deckresume", "stop", "eject", "seek", "fader", "load"}
AllFaults == {"dead", "lost", "cleanup", "commit"}

ASSUME TransitionAssumption ==
  /\ N \in Nat \ {0, 1}
  /\ \A s \in Scenarios : s \in [AllCommands \cup AllFaults -> Nat]

VARIABLES deck,      \* each deck's model, its queue entry and its backend
          fader,     \* 0 is A, 3 is B
          tr,        \* the transition and the callback that carries it on
          ramp,      \* the fader thread of the current crossfade
          late,      \* positions that threads of ended crossfades still write
          auto,      \* run, held decks, suppressed decks, preload flag, return gate
          row,       \* party_queue: status and loaded_deck
          pool,      \* the preload executor: one worker, two places
          calls,     \* callbacks the GUI thread has not run yet
          commits,   \* the persistence executor
          coord,     \* _TransitionAutoloadCoordinator of each title mixed out
          heard,     \* titles that have been audible
          operated,  \* the operator has given a command
          todo       \* commands and faults that may still occur

system == <<deck, fader, tr, ramp, late, auto, row, pool, calls, commits, coord, todo>>
vars == <<system, heard, operated>>

States == {"idle", "wait", "crossfade", "verify"}
Phases == {"empty", "loaded", "playing", "paused", "stopped", "finished"}
Backends == {"silent", "starting", "dead", "playing", "held", "ended"}
Statuses == {"waiting", "preparing", "ready", "playing", "played", "skipped", "failed"}

G == [deck |-> deck, fader |-> fader, tr |-> tr, ramp |-> ramp, late |-> late, auto |-> auto, row |-> row,
      pool |-> pool, calls |-> calls, commits |-> commits, coord |-> coord]
Done(g) == /\ deck' = g.deck /\ fader' = g.fader /\ tr' = g.tr /\ ramp' = g.ramp /\ late' = g.late
           /\ auto' = g.auto /\ row' = g.row /\ pool' = g.pool /\ calls' = g.calls
           /\ commits' = g.commits /\ coord' = g.coord
----------------------------------------------------------------------------
(* Decks and fader.                                                        *)

Side(d) == IF d = "A" THEN 0 ELSE 3
Audible(g, d) == /\ g.deck[d].backend = "playing" /\ ~g.deck[d].gated /\ ~g.deck[d].muted
                 /\ g.fader # Side(Other(d))
Playing(g) == {d \in Decks : g.deck[d].phase = "playing"}

EmptyDeck(k) == [k EXCEPT !.title = Nothing, !.entry = Nothing, !.phase = "empty", !.gated = FALSE]

\* detach_for_cleanup: the model is reset at once, the backend goes on until the cleanup.
Detach(g, d) == [g EXCEPT !.deck[d] = EmptyDeck(@)]
Eject(g, d) == [Detach(g, d) EXCEPT !.deck[d].backend = "silent"]

DeckIsReady(g, d) ==
  /\ g.deck[d].phase \in {"loaded", "stopped"}
  /\ g.deck[d].entry # Nothing => g.row[g.deck[d].entry].status \in {"ready", "playing"}

\* A new playback generation of a queue entry outdates the ends still to be committed.
NewPlayback(g, t) ==
  IF t \notin Titles THEN g
  ELSE [g EXCEPT !.commits = [i \in DOMAIN @ |-> [g.commits[i] EXCEPT !.live = @ /\ g.commits[i].title # t]],
                 !.coord[t].live = FALSE]

\* deck.play or deck.resume with mark_playing: an entry that cannot be started leaves
\* the deck without one.
StartDeck(g, d) ==
  LET t == g.deck[d].entry
      startable == t # Nothing /\ g.row[t].status \in {"ready", "playing", "played"}
      g1 == [NewPlayback(g, t) EXCEPT !.deck[d].phase = "playing", !.deck[d].backend = "starting",
                                      !.deck[d].entry = IF startable THEN t ELSE Nothing]
  IN  IF startable THEN [g1 EXCEPT !.row[t].status = "playing"] ELSE g1
----------------------------------------------------------------------------
(* The preload, as far as it and the handover meet.                        *)

Job(kind, t, d) == [kind |-> kind, title |-> t, deck |-> d, live |-> TRUE]
Call(kind, t, d) == [kind |-> kind, title |-> t, deck |-> d]

\* A new preload generation: older jobs do nothing when their turn comes, older
\* callbacks return at once.
OutdatePreload(g) ==
  [g EXCEPT !.auto.busy = FALSE,
            !.pool = [i \in DOMAIN @ |-> IF @[i].kind = "cleanup" THEN @[i] ELSE [@[i] EXCEPT !.live = FALSE]],
            !.calls = {c \in @ : c.kind \in {"finish", "refill", "autoload"}}]

HasRoom(g) == Len(g.pool) < 2
Submit(g, job) == IF HasRoom(g) THEN [g EXCEPT !.pool = Append(@, job)] ELSE g

FirstOf(decks) == IF "A" \in decks THEN "A" ELSE "B"
Waiting(r) == {t \in Titles : r[t].status = "waiting"}
Assigned(r, d) == {t \in Titles : r[t].deck = d /\ r[t].status \in {"preparing", "ready", "playing"}}

\* _free_decks_requiring_preload: the queue cache shows an ended title as played
\* before its commit.
Ending(g) == {g.commits[i].title : i \in DOMAIN g.commits}
Free(g) == {d \in Decks \ g.auto.suppressed : g.deck[d].phase = "empty" /\ Assigned(g.row, d) \subseteq Ending(g)}

\* _auto_load: one search at a time, and not in a pause.
AutoLoad(g) ==
  IF g.auto.run = "paused" \/ g.auto.busy \/ Free(g) = {} \/ Waiting(g.row) = {} THEN g
  ELSE LET g1 == OutdatePreload(g)
       IN  IF HasRoom(g1) THEN [Submit(g1, Job("prepare", Nothing, NoDeck)) EXCEPT !.auto.busy = TRUE] ELSE g1
----------------------------------------------------------------------------
(* TransitionController.                                                   *)

IsTransitioning(g) == g.tr.state # "idle"
NoTransition == [state |-> "idle", out |-> NoDeck, in |-> NoDeck, title |-> Nothing,
                 entry |-> Nothing, step |-> "none"]
NoRamp == [on |-> FALSE, armed |-> FALSE, value |-> 0, target |-> 0]

\* The generation grows: callbacks become void, an armed ramp thread writes once more.
NewGeneration(g) == [g EXCEPT !.late = IF g.ramp.armed THEN @ \cup {g.ramp.value} ELSE @, !.ramp = NoRamp]

\* Variant: an abort that keeps the generation, so that the ramp goes on.
AbortKeepingGeneration(g) == [g EXCEPT !.tr = NoTransition]

Abort(g) == IF IsTransitioning(g) THEN [NewGeneration(g) EXCEPT !.tr = NoTransition] ELSE g
Reset(g) == [NewGeneration(g) EXCEPT !.tr = NoTransition]

\* Variant: the incoming deck stays muted.
StartCrossfadeMuted(g) ==
  [g EXCEPT !.tr.state = "crossfade", !.tr.step = "render",
            !.ramp = [on |-> TRUE, armed |-> FALSE, value |-> g.fader, target |-> Side(g.tr.in)]]

StartCrossfade(g) ==
  [g EXCEPT !.tr.state = "crossfade", !.tr.step = "render", !.deck[g.tr.in].gated = FALSE,
            !.ramp = [on |-> TRUE, armed |-> FALSE, value |-> g.fader, target |-> Side(g.tr.in)]]

\* _wait_for_playback, once.
Polled(g) ==
  IF g.deck[g.tr.in].backend = "playing" THEN StartCrossfade(g)
  ELSE IF g.deck[g.tr.out].phase = "empty" \/ g.deck[g.tr.in].phase # "playing" THEN Abort(g)
       ELSE [g EXCEPT !.tr.step = "poll"]

Begin(g, out) ==
  IF IsTransitioning(g) THEN g
  ELSE Polled([NewGeneration(g) EXCEPT
                 !.tr = [state |-> "wait", out |-> out, in |-> Other(out), title |-> g.deck[out].title,
                         entry |-> g.deck[out].entry, step |-> "none"]])
----------------------------------------------------------------------------
(* The automatic run.                                                      *)

\* stop_automatic_queue when the queue is exhausted.
Stopped(g) == [Reset(g) EXCEPT !.auto.run = "stopped", !.auto.held = {}]

\* Variant: the fader is left where it is.
StartNextFaderKept(g) ==
  LET ready == {d \in Decks : DeckIsReady(g, d)}
      d == FirstOf(ready)
  IN  IF ready # {} THEN StartDeck([g EXCEPT !.deck[d].gated = FALSE], d)
      ELSE IF \E t \in Titles : g.row[t].status \in {"waiting", "ready"} THEN g ELSE Stopped(g)

\* Nothing plays: start the first prepared deck, or end the run.
StartNext(g) ==
  LET ready == {d \in Decks : DeckIsReady(g, d)}
      d == FirstOf(ready)
  IN  IF ready # {}
      THEN StartDeck([g EXCEPT !.deck[d].gated = FALSE, !.fader = Side(d)], d)
      ELSE IF \E t \in Titles : g.row[t].status \in {"waiting", "ready"} THEN g ELSE Stopped(g)

\* Variant: the fader is moved to the incoming deck at once.
StartHandoverAtOnce(g, out) ==
  LET in == Other(out)
  IN  Begin(StartDeck([g EXCEPT !.fader = Side(in), !.deck[in].gated = TRUE], in), out)

\* One deck has reached its crossfade point and the other is prepared.
StartHandover(g, out) ==
  LET in == Other(out)
  IN  Begin(StartDeck([g EXCEPT !.fader = Side(out), !.deck[in].gated = TRUE], in), out)

\* _automatic_playback_tick; due: the only playing title has reached its crossfade point
\* (its position moves only once its backend plays).
Playback(g, due) ==
  LET playing == Playing(g)
      out == FirstOf(playing)
  IN  IF g.auto.run # "running" \/ IsTransitioning(g) \/ g.auto.busy THEN g
      ELSE IF playing = {} THEN StartNext(g)
      ELSE IF playing = Decks THEN Begin(g, IF g.fader <= 1 THEN "A" ELSE "B")
      ELSE IF due /\ g.deck[out].backend \in {"playing", "ended"} /\ DeckIsReady(g, Other(out))
           THEN StartHandover(g, out) ELSE g

\* update_status sees the natural end and schedules finish_deck.
Observe(g, d) ==
  IF g.deck[d].phase # "playing" \/ g.deck[d].backend # "ended" THEN g
  ELSE [g EXCEPT !.deck[d].phase = "finished", !.calls = @ \cup {Call("finish", Nothing, d)}]

StatusTick ==
  \E due \in BOOLEAN :
    LET g == Playback(AutoLoad(Observe(Observe(G, "A"), "B")), due)
    IN  g # G /\ Done(g) /\ UNCHANGED todo

\* _enqueue_queue_persist
Persist(g, t, d, coordinated) ==
  IF t = Nothing THEN g
  ELSE [g EXCEPT !.commits = Append(@, [title |-> t, deck |-> d, live |-> TRUE, coord |-> coordinated])]

\* finish_deck: the deck is emptied if the automatic run goes on and no transition does.
FinishDeck(g, d) ==
  LET g1 == Persist(g, g.deck[d].entry, d, FALSE)
  IN  IF g.auto.run = "running" /\ ~IsTransitioning(g)
      THEN [Eject(g1, d) EXCEPT !.calls = @ \cup {Call("refill", Nothing, d)}] ELSE g1

\* _TransitionAutoloadCoordinator: publish once, after the cleanup and the commit.
NoCoord == [cleanup |-> "none", commit |-> "none", published |-> FALSE, live |-> FALSE, deck |-> NoDeck]
\* Variant: the cleanup alone publishes.
CoordinatedByCleanup(g, t) ==
  IF g.coord[t].published \/ g.coord[t].cleanup # "ok" THEN g
  ELSE [g EXCEPT !.coord[t].published = TRUE, !.calls = @ \cup {Call("autoload", t, g.coord[t].deck)}]

Coordinated(g, t) ==
  IF g.coord[t].published \/ g.coord[t].cleanup # "ok" \/ g.coord[t].commit # "ok" THEN g
  ELSE [g EXCEPT !.coord[t].published = TRUE, !.calls = @ \cup {Call("autoload", t, g.coord[t].deck)}]

\* The first result of the cleanup or of the commit counts.
Reported(g, t, part, result) ==
  IF g.coord[t][part] # "open" THEN g
  ELSE Coordinated([g EXCEPT !.coord[t] = [@ EXCEPT ![part] = result]], t)

\* _complete_automatic_transition_impl, then the rest of finish_transition.
Complete(g) ==
  LET d == g.tr.out
      t == g.tr.title
      mine == g.deck[d].title = t
      g1 == [g EXCEPT !.calls = {c \in @ : c.kind # "finish" \/ c.deck # d},
                      !.coord[t] = [cleanup |-> "open", commit |-> IF g.tr.entry = Nothing THEN "ok" ELSE "open",
                                    published |-> FALSE, live |-> TRUE, deck |-> d]]
      g2 == IF mine THEN Submit(Detach(g1, d), Job("cleanup", t, d)) ELSE Reported(g1, t, "cleanup", "ok")
  IN  [Persist(g2, g.tr.entry, d, TRUE) EXCEPT !.tr = NoTransition, !.ramp = NoRamp]
----------------------------------------------------------------------------
(* Failures of a transition: _handle_transition_failure.                   *)

Pause(g, audio) ==
  LET g1 == Abort([OutdatePreload(g) EXCEPT !.auto.run = "paused"])
      held == IF audio THEN Playing(g) ELSE {}
  IN  [g1 EXCEPT !.auto.held = IF audio THEN held ELSE @,
                 !.deck = [d \in Decks |-> IF d \in held THEN [@[d] EXCEPT !.phase = "paused", !.backend = "held"]
                                           ELSE @[d]]]

OutgoingRestored(g, out) ==
  [g EXCEPT !.deck[out].muted = FALSE, !.deck[out].gated = FALSE, !.fader = Side(out)]

\* INCOMING_PLAYBACK_NOT_CONFIRMED: skip the title, empty the deck, go on.
SkipIncoming(g, out) ==
  LET in == Other(out)
      t == g.deck[in].entry
      g1 == OutgoingRestored(OutdatePreload(g), out)
      playing == t # Nothing /\ g1.row[t].status = "playing"
      g2 == IF playing THEN [Eject(NewPlayback(g1, t), in) EXCEPT !.row[t] = [status |-> "skipped", deck |-> NoDeck]]
            ELSE g1
      g3 == [g2 EXCEPT !.deck[in].gated = FALSE, !.deck[in].muted = FALSE, !.auto.suppressed = @ \ {in}]
  IN  AutoLoad([Reset(g3) EXCEPT !.auto.run = "running"])

\* Variant: the loss is not reported, and no callback is left.
LoseIncomingSilently(g, out) == [g EXCEPT !.tr.step = "none"]

\* INCOMING_PLAYBACK_LOST: pause, silence the deck, wait for the recovery gate.
LoseIncoming(g, out) ==
  LET in == Other(out)
      t == g.deck[in].entry
      g1 == OutgoingRestored(Pause([g EXCEPT !.tr = NoTransition], FALSE), out)
      g2 == [g1 EXCEPT !.deck[in].muted = TRUE, !.auto.gate = TRUE]
  IN  IF t # Nothing /\ g2.row[t].status = "playing"
      THEN [NewPlayback(g2, t) EXCEPT !.row[t] = [status |-> "ready", deck |-> in]] ELSE g2
----------------------------------------------------------------------------
(* The callbacks of the transition.                                        *)

Poll == /\ tr.step = "poll" /\ Polled(G) # G /\ Done(Polled(G)) /\ UNCHANGED todo

\* After START_WAIT_STEPS polls without a playing backend.
PollTimesOut ==
  /\ tr.step = "poll" /\ Polled(G) = G /\ deck[tr.in].backend \in {"dead", "ended", "silent", "held"}
  /\ Done(SkipIncoming(G, tr.out)) /\ UNCHANGED todo

\* render_tick after the last step of the ramp: verify, then schedule the completion.
RenderTick ==
  /\ tr.step = "render" /\ ~ramp.on
  /\ Done(IF deck[tr.in].backend = "playing" THEN [G EXCEPT !.tr.state = "verify", !.tr.step = "finish"]
          ELSE LoseIncoming(G, tr.out))
  /\ UNCHANGED todo

FinishTransition == tr.step = "finish" /\ Done(Complete(G)) /\ UNCHANGED todo

\* audio_fade compares the generation with a position in hand (what an older thread has
\* in hand is written before the next one's first step) ...
RampArms ==
  /\ ramp.on /\ ~ramp.armed /\ late = {}
  /\ ramp' = [ramp EXCEPT !.armed = TRUE,
                          !.value = IF @ < ramp.target THEN @ + 1 ELSE IF @ > ramp.target THEN @ - 1 ELSE @]
  /\ UNCHANGED <<deck, fader, tr, late, auto, row, pool, calls, commits, coord, todo>>

\* ... and writes it.
RampWrites ==
  /\ ramp.armed
  /\ fader' = ramp.value
  /\ ramp' = [ramp EXCEPT !.armed = FALSE, !.on = (ramp.value # ramp.target)]
  /\ UNCHANGED <<deck, tr, late, auto, row, pool, calls, commits, coord, todo>>

RampWritesLate ==
  /\ \E v \in late : fader' = v /\ late' = late \ {v}
  /\ UNCHANGED <<deck, tr, ramp, auto, row, pool, calls, commits, coord, todo>>
----------------------------------------------------------------------------
(* The preload executor.                                                   *)

Reconciled(r) == [t \in Titles |-> IF r[t].status = "ready" /\ deck[r[t].deck].title # t
                                   THEN [status |-> "waiting", deck |-> NoDeck] ELSE r[t]]

\* Search and preparation: the first waiting title for the first deck that is empty and
\* silent now.  The unique index refuses a deck whose last title is not committed yet.
Prepare ==
  /\ pool # << >> /\ Head(pool).kind = "prepare"
  /\ LET r == Reconciled(row)
         free == {d \in Decks \ auto.suppressed : deck[d].title = Nothing /\ deck[d].backend # "playing"}
         t == CHOOSE x \in Waiting(r) : \A y \in Waiting(r) : x <= y
         d == FirstOf(free)
         outcome == IF ~Head(pool).live THEN {}
                    ELSE IF free = {} \/ Waiting(r) = {} THEN {Call("missed", Nothing, NoDeck)}
                    ELSE IF Assigned(r, d) # {} THEN {Call("failed", t, d)} ELSE {Call("adopt", t, d)}
     IN  /\ row' = IF ~Head(pool).live THEN row
                   ELSE IF outcome = {Call("adopt", t, d)}
                        THEN [r EXCEPT ![t] = [status |-> "preparing", deck |-> d]] ELSE r
         /\ calls' = calls \cup outcome
  /\ pool' = Tail(pool)
  /\ UNCHANGED <<deck, fader, tr, ramp, late, auto, commits, coord, todo>>

\* persist_preload: other assignments of the deck are closed, the entry is READY.
CommitPreload ==
  /\ pool # << >> /\ Head(pool).kind = "commit"
  /\ LET job == Head(pool)
         others == Assigned(row, job.deck) \ {x \in Titles : row[x].status = "preparing"}
     IN  IF ~job.live THEN UNCHANGED <<row, calls>>
         ELSE /\ row' = [t \in Titles |->
                           IF t = job.title /\ row[t].status = "preparing" THEN [status |-> "ready", deck |-> job.deck]
                           ELSE IF t \in others \ {job.title} THEN [status |-> "skipped", deck |-> NoDeck]
                           ELSE row[t]]
              /\ calls' = calls \cup {Call("followup", Nothing, NoDeck)}
  /\ pool' = Tail(pool)
  /\ UNCHANGED <<deck, fader, tr, ramp, late, auto, commits, coord, todo>>

\* The backend of a deck that was mixed out is stopped, whatever the deck holds by now.
Cleanup ==
  /\ pool # << >> /\ Head(pool).kind = "cleanup"
  /\ LET job == Head(pool)
         g == [G EXCEPT !.pool = Tail(@)]
     IN  \/ /\ Done(Reported([g EXCEPT !.deck[job.deck].backend = "silent"], job.title, "cleanup", "ok"))
            /\ UNCHANGED todo
         \/ /\ todo["cleanup"] > 0 /\ todo' = [todo EXCEPT !["cleanup"] = @ - 1]
            /\ Done(Reported(g, job.title, "cleanup", "failed"))
----------------------------------------------------------------------------
(* The persistence executor: complete_playing_queue_entry for the current  *)
(* playback; the third attempt may fail too.                               *)

Commit ==
  /\ commits # << >>
  /\ LET job == Head(commits)
         g == [G EXCEPT !.commits = Tail(@)]
         due == job.live /\ row[job.title] = [status |-> "playing", deck |-> job.deck]
         Report(h, result) == IF job.coord THEN Reported(h, job.title, "commit", result) ELSE h
     IN  \/ /\ Done(IF due THEN Report([g EXCEPT !.row[job.title] = [status |-> "played", deck |-> NoDeck]], "ok")
                    ELSE Report(g, "failed"))
            /\ UNCHANGED todo
         \/ /\ due /\ todo["commit"] > 0 /\ todo' = [todo EXCEPT !["commit"] = @ - 1]
            /\ Done(Report(g, "failed"))
----------------------------------------------------------------------------
(* Callbacks of the GUI thread.                                            *)

\* complete() of the preload.
Adopt(g, c) ==
  IF g.row[c.title].status # "preparing" \/ g.deck[c.deck].title # Nothing \/ g.deck[c.deck].backend = "playing"
  THEN [Reset(g) EXCEPT !.auto.busy = FALSE]
  ELSE Submit([g EXCEPT !.deck[c.deck] = [@ EXCEPT !.title = c.title, !.entry = c.title, !.phase = "loaded",
                                                   !.backend = "silent", !.gated = FALSE]],
              Job("commit", c.title, c.deck))

PreparationFailed(g, c) ==
  AutoLoad([g EXCEPT !.auto.busy = FALSE,
                     !.row[c.title] = IF @.status \in {"waiting", "preparing"} THEN [status |-> "failed", deck |-> NoDeck]
                                      ELSE @])

AutoloadIfCurrent(g, c) == IF (c.title \in Titles => g.coord[c.title].live) /\ g.deck[c.deck].entry = Nothing
                           THEN AutoLoad(g) ELSE g

Callback ==
  \E c \in calls, due \in BOOLEAN :
    LET g == [G EXCEPT !.calls = @ \ {c}]
    IN  /\ Done(CASE c.kind = "finish" -> FinishDeck(g, c.deck)
                  [] c.kind = "refill" -> AutoLoad(g)
                  [] c.kind = "autoload" -> AutoloadIfCurrent(g, c)
                  [] c.kind = "adopt" -> Adopt(g, c)
                  [] c.kind = "failed" -> PreparationFailed(g, c)
                  [] c.kind = "missed" -> [g EXCEPT !.auto.busy = FALSE]
                  [] c.kind = "followup" -> AutoLoad(Playback([g EXCEPT !.auto.busy = FALSE], due)))
        /\ UNCHANGED todo
----------------------------------------------------------------------------
(* The backends.                                                           *)

Backend(d, from, to) == /\ deck[d].backend = from /\ deck' = [deck EXCEPT ![d].backend = to]
                        /\ UNCHANGED <<fader, tr, ramp, late, auto, row, pool, calls, commits, coord>>
Spend(what) == todo[what] > 0 /\ todo' = [todo EXCEPT ![what] = @ - 1]

BackendStarts(d) == Backend(d, "starting", "playing") /\ UNCHANGED todo
\* A medium may end at any time; that of an incoming deck is longer than the handover.
TitleEnds(d) == /\ tr.in # d
                /\ Backend(d, "playing", "ended") /\ UNCHANGED todo
BackendNeverStarts == tr.state = "wait" /\ Spend("dead") /\ Backend(tr.in, "starting", "dead")
BackendLost == tr.state \in {"crossfade", "verify"} /\ Spend("lost") /\ Backend(tr.in, "playing", "silent")
----------------------------------------------------------------------------
(* The operator.                                                           *)

Override(g) ==
  LET g1 == OutdatePreload(g)
  IN  IF g.auto.run = "running" \/ IsTransitioning(g) THEN [Abort(g1) EXCEPT !.auto.run = "stopped"] ELSE g1

\* start_automatic_queue: resumes what the pause held, unless the recovery gate is shut.
StartAutomatic(g, due) ==
  LET resumed == IF g.auto.run = "paused" THEN {d \in g.auto.held : g.deck[d].phase = "paused"} ELSE {}
      g1 == [g EXCEPT !.deck = [d \in Decks |-> IF d \in resumed
                                                THEN [@[d] EXCEPT !.phase = "playing", !.backend = "starting"]
                                                ELSE @[d]],
                      !.auto = [@ EXCEPT !.held = IF g.auto.run = "paused" THEN {} ELSE g.auto.held,
                                         !.run = "running", !.suppressed = {}]]
  IN  IF g.auto.gate \/ (/\ \A t \in Titles : g.row[t].status \notin {"waiting", "ready", "playing"}
                         /\ \A d \in Decks : ~DeckIsReady(g, d))
      THEN g ELSE Playback(AutoLoad(g1), due)

ManualPlay(g, d) == StartDeck([Override(g) EXCEPT !.deck[d].gated = FALSE], d)
ManualPause(g, d) == [IF g.auto.run = "running" THEN Pause(g, FALSE) ELSE Override(g)
                        EXCEPT !.deck[d].phase = "paused", !.deck[d].backend = "held"]
ManualResume(g, d, due) ==
  LET paused == g.auto.run = "paused"
      g1 == StartDeck([IF paused THEN g ELSE Override(g) EXCEPT !.deck[d].gated = FALSE], d)
  IN  IF paused THEN StartAutomatic(g1, due) ELSE g1

\* mark_finished: only what plays is finished, and a skipped entry leaves its deck.
Finished(g, t, status) ==
  IF t = Nothing \/ g.row[t].status # "playing" THEN g
  ELSE [g EXCEPT !.row[t] = [status |-> status, deck |-> IF status = "skipped" THEN NoDeck ELSE @.deck]]

ManualStop(g, d) ==
  LET g1 == [Override(g) EXCEPT !.deck[d].phase = "stopped", !.deck[d].backend = "silent"]
  IN  IF g.deck[d].phase \in {"playing", "paused"} THEN Finished(g1, g.deck[d].entry, "played") ELSE g1
ManualEject(g, d) ==
  Finished([Eject(Override(g), d) EXCEPT !.auto.suppressed = @ \cup {d}], g.deck[d].entry, "skipped")

\* _load_track_impl with a title of the library: what the deck had is released.
ManualLoad(g, d) ==
  [Override(g) EXCEPT !.deck[d] = [@ EXCEPT !.title = Library, !.entry = Nothing, !.phase = "loaded",
                                           !.backend = "silent", !.gated = FALSE],
                      !.row = [t \in Titles |-> IF g.row[t].deck = d /\ g.row[t].status \in {"ready", "playing"}
                                               THEN [status |-> "skipped", deck |-> NoDeck] ELSE @[t]]]

ManualFader(g, x) == [IF x = g.fader THEN g ELSE Pause(g, FALSE) EXCEPT !.fader = x]

Command(what) ==
  /\ Spend(what)
  /\ \E d \in Decks, due \in BOOLEAN :
       \/ what = "pause" /\ Done(Pause(G, TRUE))
       \/ what = "resume" /\ auto.run # "running" /\ Done(StartAutomatic(G, due))
       \/ what = "play" /\ deck[d].phase \in {"loaded", "stopped", "finished"} /\ Done(ManualPlay(G, d))
       \/ what = "deckpause" /\ deck[d].phase = "playing" /\ Done(ManualPause(G, d))
       \/ what = "deckresume" /\ deck[d].phase = "paused" /\ Done(ManualResume(G, d, due))
       \/ what = "stop" /\ deck[d].title # Nothing /\ Done(ManualStop(G, d))
       \/ what = "eject" /\ deck[d].title # Nothing /\ Done(ManualEject(G, d))
       \/ what = "seek" /\ IsTransitioning(G) /\ Done(Abort(G))
       \/ what = "fader" /\ \E x \in {0, 3} : Done(ManualFader(G, x))
       \/ what = "load" /\ Done(ManualLoad(G, d))
----------------------------------------------------------------------------
\* The automatic run plays the first title on A, the second is prepared on B.
Init ==
  /\ deck = [d \in Decks |-> LET t == IF d = "A" THEN 1 ELSE 2
                             IN  [title |-> t, entry |-> t, phase |-> IF t = 1 THEN "playing" ELSE "loaded",
                                  backend |-> IF t = 1 THEN "playing" ELSE "silent", gated |-> FALSE, muted |-> FALSE]]
  /\ fader = 0 /\ tr = NoTransition /\ ramp = NoRamp /\ late = {}
  /\ auto = [run |-> "running", held |-> {}, suppressed |-> {}, busy |-> FALSE, gate |-> FALSE]
  /\ row = [t \in Titles |-> CASE t = 1 -> [status |-> "playing", deck |-> "A"]
                                [] t = 2 -> [status |-> "ready", deck |-> "B"]
                                [] OTHER -> [status |-> "waiting", deck |-> NoDeck]]
  /\ pool = << >> /\ calls = {} /\ commits = << >>
  /\ coord = [t \in Titles \cup {Library} |-> NoCoord]
  /\ heard = {1} /\ operated = FALSE /\ todo \in Scenarios

Operator == \E what \in AllCommands : Command(what)

Next ==
  /\ \/ StatusTick \/ Poll \/ PollTimesOut \/ RenderTick \/ FinishTransition \/ Callback
     \/ RampArms \/ RampWrites \/ RampWritesLate
     \/ Prepare \/ CommitPreload \/ Cleanup \/ Commit
     \/ \E d \in Decks : BackendStarts(d) \/ TitleEnds(d)
     \/ BackendNeverStarts \/ BackendLost \/ Operator
  /\ heard' = heard \cup ({deck'[d].title : d \in {x \in Decks : Audible([deck |-> deck', fader |-> fader'], x)}}
                            \ {Nothing})
  /\ operated' = (operated \/ \E c \in AllCommands : todo'[c] # todo[c])

Spec == Init /\ [][Next]_vars

\* The callbacks of a transition and its fader thread run, and a backend that was told to
\* play starts or is found dead; the operator, faults and the length of a title are free.
Fairness ==
  /\ WF_system(Poll \/ PollTimesOut \/ RenderTick \/ FinishTransition)
  /\ WF_system(RampArms \/ RampWrites)
  /\ WF_system(RampWritesLate)
  /\ WF_system(\E d \in Decks : BackendStarts(d))

FairSpec == Spec /\ Fairness
----------------------------------------------------------------------------
\* The shape of the state; a fader thread works only in a crossfade, a deck's entry is the
\* title it holds, and the bounded preload executor holds at most two jobs.
TypeOK ==
  /\ \A d \in Decks :
       /\ deck[d] \in [title : Nothing..Library, entry : Nothing..N, phase : Phases, backend : Backends,
                       gated : BOOLEAN, muted : BOOLEAN]
       /\ deck[d].entry \in {Nothing, deck[d].title}
       /\ deck[d].title = Nothing <=> deck[d].phase = "empty"
  /\ fader \in 0..3 /\ late \subseteq 0..3
  /\ tr.state \in States /\ (tr.state = "idle" <=> tr = NoTransition)
  /\ ramp.on => tr.state = "crossfade"
  /\ \A t \in Titles : row[t].status \in Statuses
  /\ Len(pool) <= 2

\* While the incoming deck is awaited the outgoing one stays audible, whatever older fader
\* threads still write (transition_controller.py: "Keep the outgoing deck audible while
\* waiting").  The operator's own commands are excepted.
OutgoingStaysHeard ==
  ~operated /\ tr.state = "wait" /\ deck[tr.out].phase = "playing" /\ deck[tr.out].backend = "playing"
    => Audible(G, tr.out)

\* What the queue says was PLAYED has been heard, as long as the operator does not interfere:
\* no failed start, lost backend, failed commit or outdated callback turns a silent title
\* into a played one.
PlayedWasHeard == ~operated => \A t \in Titles : row[t].status = "played" => t \in heard

\* A deck is mixed out only when the other one is open: unmuted and with the fader on its
\* side, after any sequence of aborted and repeated transitions and commands.
HandoverIsOpen ==
  [][tr.step = "finish" /\ tr'.state = "idle" /\ todo' = todo
       => fader # Side(tr.out) /\ ~deck[tr.in].gated /\ ~deck[tr.in].muted]_vars

\* A transition ends, completed, failed or aborted.
HandoverEnds == IsTransitioning(G) ~> ~IsTransitioning(G)

\* The automatic load after a handover is published only when the title that was mixed out
\* is no longer PLAYING and its backend is silent (_TransitionAutoloadCoordinator: "Publish
\* one autoload only after cleanup and all queue commits succeed").
PublishedAfterBoth ==
  [][\A t \in Titles : coord'[t].published /\ ~coord[t].published
       => row'[t].status # "playing" /\ deck'[coord[t].deck].backend # "playing"]_vars

\* Every medium of this model can be prepared, so none of its titles ends as FAILED
\* (docs/automatic_playback.md: the next title is loaded on the free deck; only one that
\* cannot be prepared or started is failed).
SoundTitlesDoNotFail == \A t \in Titles : row[t].status # "failed"
=============================================================================
