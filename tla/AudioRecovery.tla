--------------------------- MODULE AudioRecovery ---------------------------
(***************************************************************************)
(* Repair of the audio decks: EmergencyStateService, AudioRecoveryService, *)
(* EmergencyPlaybackService behind EmergencyController, DeckHealthMonitor, *)
(* and the commands of MainController that start them and take their       *)
(* results.                                                                *)
(*                                                                         *)
(* Four kinds of threads meet here: the GUI thread (commands, status tick, *)
(* callbacks), the thread of an isolated deck repair, the thread of the    *)
(* global repair and the thread of an emergency action; each operation on  *)
(* a backend that outlasts its timeout goes on in a thread of its own.     *)
(* Time is left out: a timed operation may end in time, late, or badly.    *)
(***************************************************************************)
EXTENDS Naturals, FiniteSets

CONSTANTS Backends,           \* backends alive or being released at one time
          MaxDeckAttempts,    \* _maximum_attempts
          MaxGlobalAttempts,  \* _maximum_global_attempts
          MaxStartAttempts,   \* _maximum_start_attempts
          Scenarios,          \* how often each command is given in one run: one of these
          ReleaseFaults       \* how releasing the old backend may go wrong

AllCommands == {"repair", "stall", "global", "emergency", "replace", "device", "load", "play", "start"}
AllReleaseFaults == {"late", "deadline", "raise"}

ASSUME RecoveryAssumption ==
  /\ Backends \in SUBSET (Nat \ {0}) /\ IsFiniteSet(Backends) /\ {1, 2} \subseteq Backends
  /\ MaxDeckAttempts \in Nat \ {0} /\ MaxGlobalAttempts \in Nat \ {0} /\ MaxStartAttempts \in Nat \ {0}
  /\ Scenarios \subseteq [AllCommands -> Nat] /\ ReleaseFaults \subseteq AllReleaseFaults

VARIABLES state,      \* EmergencyStateService: system, health of each deck
          deck,       \* DeckController: title, playing, mutes, installed backend
          open,       \* backends created and not closed
          late,       \* operations that outlasted their timeout
          service,    \* AudioRecoveryService: locks, attempts, registered repairs
          repair,     \* the thread deck-recovery-X
          global,     \* the thread global-audio-recovery
          emergency,  \* the thread of an emergency action and its handover
          ui          \* what MainController keeps about them

vars == <<state, deck, open, late, service, repair, global, emergency, ui>>

Decks == {"A", "B"}
Other(d) == IF d = "A" THEN "B" ELSE "A"
NoDeck == "none"
NoBackend == 0
Nothing == "none"

Systems == {"NORMAL", "WARNING", "DEGRADED", "EMERGENCY_ACTIVE", "RECOVERING", "RECOVERY_FAILED"}
\* UNSURE stands for BUFFERING, SUSPECTED_STALL, STALLED and RECOVERING: nothing but the monitor's
\* own look at the deck, which is free here, tells them apart
Healths == {"HEALTHY", "UNSURE", "FAILED"}
Titles == {Nothing, "music", "emergency"}

-----------------------------------------------------------------------------
(* EmergencyStateService: transition raises where Permitted is false.      *)

Allowed(system) ==
  CASE system = "NORMAL"           -> {"WARNING", "DEGRADED", "EMERGENCY_ACTIVE"}
    [] system = "WARNING"          -> {"NORMAL", "DEGRADED", "EMERGENCY_ACTIVE", "RECOVERING"}
    [] system = "DEGRADED"         -> {"WARNING", "EMERGENCY_ACTIVE", "RECOVERING", "RECOVERY_FAILED"}
    [] system = "EMERGENCY_ACTIVE" -> {"DEGRADED", "RECOVERING", "RECOVERY_FAILED"}
    [] system = "RECOVERING"       -> {"NORMAL", "DEGRADED", "EMERGENCY_ACTIVE", "RECOVERY_FAILED"}
    [] system = "RECOVERY_FAILED"  -> {"DEGRADED", "EMERGENCY_ACTIVE", "RECOVERING"}

Permitted(target) == target = state.system \/ target \in Allowed(state.system)

To(s, system) == [s EXCEPT !.system = system]
Health(s, d, health) == [s EXCEPT !.health[d] = health]
AllHealthy(s) == \A d \in Decks : s.health[d] = "HEALTHY"

Warned(s) == IF s.system = "NORMAL" THEN To(s, "WARNING") ELSE s
Degraded(s) == IF s.system \in {"NORMAL", "WARNING"} THEN To(s, "DEGRADED") ELSE s
Normalized(s) == IF s.system = "WARNING" /\ AllHealthy(s) THEN To(s, "NORMAL") ELSE s

\* _mark_deck_reusable: through RECOVERING where NORMAL is not reachable directly
Reusable(s, d) ==
  LET h == Health(s, d, "HEALTHY") IN
  IF AllHealthy(h) /\ h.system \in {"WARNING", "DEGRADED", "RECOVERY_FAILED"} THEN To(h, "NORMAL") ELSE h

-----------------------------------------------------------------------------
(* Threads at rest, and the initial state: A plays, B is loaded.           *)

Model(title, playing) == [title |-> title, playing |-> playing]
EmptyModel == Model(Nothing, FALSE)

RestingRepair == [pc |-> "idle", deck |-> NoDeck, auto |-> FALSE, stale |-> FALSE, skip |-> FALSE,
                  backend |-> NoBackend, previous |-> NoBackend, model |-> EmptyModel, ok |-> FALSE]
RestingGlobal == [pc |-> "idle", held |-> {}, health |-> [d \in Decks |-> "HEALTHY"],
                  backend |-> [d \in Decks |-> NoBackend], model |-> [d \in Decks |-> EmptyModel],
                  swapped |-> {}, ok |-> FALSE]
RestingEmergency == [pc |-> "idle", deck |-> NoDeck, affected |-> NoDeck]

Init ==
  /\ state = [system |-> "NORMAL", health |-> [d \in Decks |-> "HEALTHY"]]
  /\ deck = [d \in Decks |-> [model |-> Model("music", d = "A"), transitionMuted |-> FALSE, emergencyMuted |-> FALSE,
                              backend |-> IF d = "A" THEN 1 ELSE 2]]
  /\ open = {1, 2}
  /\ late = {}
  /\ service = [lock |-> [d \in Decks |-> "free"], global |-> FALSE, failed |-> [d \in Decks |-> 0],
                failedGlobal |-> 0, active |-> {}, origin |-> "NORMAL", pending |-> FALSE]
  /\ repair = RestingRepair
  /\ global = RestingGlobal
  /\ emergency = [thread |-> RestingEmergency, prepared |-> NoDeck, failed |-> 0, handover |-> NoDeck]
  /\ \E todo \in Scenarios :
     ui = [running |-> TRUE, repairing |-> FALSE, recovering |-> {}, acting |-> FALSE,
           requested |-> FALSE, unreleased |-> FALSE, validate |-> FALSE, mode |-> NoDeck,
           lostHealth |-> <<>>, todo |-> todo]

-----------------------------------------------------------------------------
(* DeckController: what the other parts make it do.                        *)

Title(d) == deck[d].model.title
Playing(d) == deck[d].model.playing
Audible(d) == Playing(d) /\ ~deck[d].transitionMuted /\ ~deck[d].emergencyMuted

Mute(dk, d, on) == [dk EXCEPT ![d].emergencyMuted = on]
MuteBoth(dk, on) == [d \in Decks |-> [dk[d] EXCEPT !.emergencyMuted = on]]
Play(dk, d, on) == [dk EXCEPT ![d].model.playing = on]

\* commit_recovered_backend
Adopted(dk, d, backend, model) ==
  [dk EXCEPT ![d] = [model |-> model, transitionMuted |-> TRUE, emergencyMuted |-> FALSE, backend |-> backend]]

\* Variant: the emergency gate is taken to be enough.
GatedOnce(dk, d) == [dk EXCEPT ![d].emergencyMuted = TRUE]
Gated(dk, d) == [dk EXCEPT ![d].transitionMuted = TRUE]

\* load, load_prepared: the preparation gate is open afterwards
Loaded(dk, d, title) == [dk EXCEPT ![d] = [@ EXCEPT !.model = Model(title, FALSE), !.transitionMuted = FALSE]]

\* a backend nothing refers to any more; which one does not matter
Unused == {b \in Backends : /\ b \notin open /\ \A d \in Decks : deck[d].backend # b
                            /\ \A op \in late : op.backend # b}
Fresh == CHOOSE b \in Unused : \A c \in Unused : b <= c

\* an operation that outlasts its timeout; `then`: its backend is closed when it ends
Outlasting(b, then) == [backend |-> b, then |-> then]

\* Variant: the late_cleanup of _run_timed is forgotten.
CleanedUpLateNever(b) == Outlasting(b, "run")
CleanedUpLate(b) == Outlasting(b, "close")

LateOperationEnds == \E op \in late :
  /\ late' = late \ {op}
  /\ open' = IF op.then = "close" THEN open \ {op.backend} ELSE open
  /\ UNCHANGED <<state, deck, service, repair, global, emergency, ui>>

-----------------------------------------------------------------------------
(* The thread of an isolated repair: recover_deck.                         *)

Repairing(pc) == repair.pc = pc
RepairAt(pc) == repair' = [repair EXCEPT !.pc = pc]

\* Variant: the lock is released where the repair ends well or is given up only.
RepairDiesLocked == repair' = RestingRepair /\ UNCHANGED service

\* recover_deck ends by an exception: `finally` releases the lock, nobody is told
RepairDies ==
  /\ service' = [service EXCEPT !.lock[repair.deck] = "free"]
  /\ repair' = RestingRepair

\* Variant: one attempt too many.
AttemptsOverrun == service.failed[repair.deck] > MaxDeckAttempts
AttemptsExhausted == service.failed[repair.deck] >= MaxDeckAttempts

RepairAssess ==
  /\ Repairing("assess")
  /\ IF AttemptsExhausted \/ service.global
     THEN RepairAt("leave") ELSE RepairAt("lock")
  /\ UNCHANGED <<state, deck, open, late, service, global, emergency, ui>>

RepairLock ==
  /\ Repairing("lock")
  /\ IF service.lock[repair.deck] = "free"
     THEN RepairAt("warn") /\ service' = [service EXCEPT !.lock[repair.deck] = "repair"]
     ELSE RepairAt("leave") /\ UNCHANGED service
  /\ UNCHANGED <<state, deck, open, late, global, emergency, ui>>

\* _begin_deck_recovery up to its first transition ...
RepairWarn ==
  /\ Repairing("warn")
  /\ service' = [service EXCEPT !.origin = state.system, !.pending = FALSE]
  /\ state' = Warned(state)
  /\ RepairAt("enter")
  /\ UNCHANGED <<deck, open, late, global, emergency, ui>>

\* ... and the second one, which raises if the system was normalised in between
RepairEnter ==
  /\ Repairing("enter")
  /\ \/ /\ Permitted("RECOVERING")
        /\ state' = Health(To(state, "RECOVERING"), repair.deck, "UNSURE")
        /\ service' = [service EXCEPT !.active = @ \cup {repair.deck}]
        /\ RepairAt("create")
     \/ /\ ~Permitted("RECOVERING")
        /\ RepairDies /\ UNCHANGED state
  /\ UNCHANGED <<deck, open, late, global, emergency, ui>>

\* the replacement: made in time, made too late, not made, or made of another shared instance
RepairCreate ==
  /\ Repairing("create") /\ Unused # {}
  /\ \/ /\ repair' = [repair EXCEPT !.pc = "media", !.backend = Fresh,
                        !.model = IF repair.skip THEN EmptyModel ELSE deck[repair.deck].model]
        /\ open' = open \cup {Fresh}
        /\ UNCHANGED late
     \/ /\ RepairAt("fail")
        /\ open' = open \cup {Fresh}
        /\ late' = late \cup {CleanedUpLate(Fresh)}
     \/ /\ RepairAt("fail")
        /\ UNCHANGED <<open, late>>
     \/ /\ repair' = [repair EXCEPT !.pc = "fail", !.backend = Fresh]
        /\ open' = open \cup {Fresh}
        /\ UNCHANGED late
  /\ UNCHANGED <<state, deck, service, global, emergency, ui>>

\* load, seek, play and the confirmation on the replacement
RepairMedia ==
  /\ Repairing("media")
  /\ \/ RepairAt("commit") /\ UNCHANGED late
     \/ repair.model.title # Nothing /\ RepairAt("fail") /\ UNCHANGED late
     \/ /\ repair.model.title # Nothing
        /\ repair' = [repair EXCEPT !.pc = "fail", !.backend = NoBackend]
        /\ late' = late \cup {CleanedUpLate(repair.backend)}
  /\ UNCHANGED <<state, deck, open, service, global, emergency, ui>>

RepairCommit ==
  /\ Repairing("commit")
  /\ deck' = Adopted(deck, repair.deck, repair.backend, repair.model)
  /\ repair' = [repair EXCEPT !.pc = "release", !.previous = deck[repair.deck].backend]
  /\ UNCHANGED <<state, open, late, service, global, emergency, ui>>

\* How releasing the backend `b` ends: closed, closed some day, not even started, or refused
Released(b) == open' = open \ {b} /\ UNCHANGED late
ReleasedLate(b) == "late" \in ReleaseFaults /\ late' = late \cup {Outlasting(b, "close")} /\ UNCHANGED open
NotReleased(fault) == fault \in ReleaseFaults /\ UNCHANGED <<open, late>>

RepairRelease ==
  /\ Repairing("release")
  /\ \/ Released(repair.previous) /\ RepairAt("succeed")
     \/ ReleasedLate(repair.previous) /\ RepairAt("succeedPending")
     \/ NotReleased("deadline") /\ RepairAt("succeedPending")
     \/ NotReleased("raise") /\ RepairAt("fail")
  /\ UNCHANGED <<state, deck, service, global, emergency, ui>>

\* _complete_deck_recovery; only one repair is registered at a time here
Completion(ok) ==
  IF ~ok \/ service.pending THEN "RECOVERY_FAILED"
  ELSE IF service.origin = "EMERGENCY_ACTIVE" THEN "EMERGENCY_ACTIVE" ELSE "NORMAL"
Completed(attempts) == [service EXCEPT !.failed[repair.deck] = attempts, !.active = @ \ {repair.deck}]

RepairSucceed ==
  /\ repair.pc \in {"succeed", "succeedPending"}
  /\ LET healthy == Health(state, repair.deck, "HEALTHY") IN
     \/ /\ Permitted(Completion(TRUE))
        /\ state' = To(healthy, Completion(TRUE))
        /\ service' = Completed(0)
        /\ repair' = [repair EXCEPT !.pc = "leave", !.ok = TRUE]
     \/ /\ ~Permitted(Completion(TRUE)) /\ Repairing("succeed")
        /\ state' = healthy
        /\ service' = [Completed(0) EXCEPT !.lock[repair.deck] = "free"]
        /\ repair' = RestingRepair
     \/ /\ ~Permitted(Completion(TRUE)) /\ Repairing("succeedPending")
        /\ state' = healthy
        /\ service' = Completed(service.failed[repair.deck])
        /\ RepairAt("fail")
  /\ UNCHANGED <<deck, open, late, global, emergency, ui>>

\* the outer except: the replacement is closed unless an operation still runs on it
RepairFail ==
  /\ Repairing("fail")
  /\ open' = open \ {repair.backend}
  /\ LET failed == Health(state, repair.deck, "FAILED")
         registered == repair.deck \in service.active
         after == Completed(service.failed[repair.deck] + 1)
     IN \/ /\ registered => Permitted("RECOVERY_FAILED")
           /\ state' = IF registered THEN To(failed, "RECOVERY_FAILED") ELSE failed
           /\ service' = after
           /\ RepairAt("leave")
        \/ /\ registered /\ ~Permitted("RECOVERY_FAILED")
           /\ state' = failed
           /\ service' = [after EXCEPT !.lock[repair.deck] = "free"]
           /\ repair' = RestingRepair
  /\ UNCHANGED <<deck, late, global, emergency, ui>>

\* `finally`, then EmergencyController invalidates the prepared title; the result is queued
RepairLeave ==
  /\ Repairing("leave")
  /\ service' = IF service.lock[repair.deck] = "repair"
                THEN [service EXCEPT !.lock[repair.deck] = "free"] ELSE service
  /\ emergency' = [emergency EXCEPT !.prepared = NoDeck]
  /\ RepairAt("report")
  /\ UNCHANGED <<state, deck, open, late, global, ui>>

-----------------------------------------------------------------------------
(* The thread of the global repair: recover_all_backends.                  *)

Globally(pc) == global.pc = pc
GlobalAt(pc) == global' = [global EXCEPT !.pc = pc]

Unlocked(held) == [service EXCEPT !.global = FALSE,
                     !.lock = [d \in Decks |-> IF d \in held THEN "free" ELSE service.lock[d]]]
Replacements == {global.backend[d] : d \in Decks} \ {NoBackend}

GlobalAssess ==
  /\ Globally("assess")
  /\ IF service.failedGlobal >= MaxGlobalAttempts
     THEN GlobalAt("leave") /\ UNCHANGED service
     ELSE GlobalAt("lock") /\ service' = [service EXCEPT !.global = TRUE]
  /\ UNCHANGED <<state, deck, open, late, repair, emergency, ui>>

Free(d) == service.lock[d] = "free"

\* the locks of both decks, A before B, without waiting
GlobalLock ==
  /\ Globally("lock")
  /\ IF global.held = Decks THEN GlobalAt("warn") /\ UNCHANGED service
     ELSE LET d == IF "A" \in global.held THEN "B" ELSE "A" IN
          IF Free(d)
          THEN /\ service' = [service EXCEPT !.lock[d] = "global"]
               /\ global' = [global EXCEPT !.held = @ \cup {d}]
          ELSE GlobalAt("leave") /\ UNCHANGED service
  /\ UNCHANGED <<state, deck, open, late, repair, emergency, ui>>

GlobalWarn ==
  /\ Globally("warn")
  /\ state' = Warned(state)
  /\ global' = [global EXCEPT !.pc = "enter", !.health = state.health]
  /\ UNCHANGED <<deck, open, late, service, repair, emergency, ui>>

GlobalEnter ==
  /\ Globally("enter")
  /\ \/ /\ Permitted("RECOVERING")
        /\ state' = [system |-> "RECOVERING", health |-> [d \in Decks |-> "UNSURE"]]
        /\ global' = [global EXCEPT !.pc = "build", !.model = [d \in Decks |-> deck[d].model]]
        /\ UNCHANGED service
     \/ /\ ~Permitted("RECOVERING")
        /\ service' = Unlocked(global.held)
        /\ global' = RestingGlobal
        /\ UNCHANGED state
  /\ UNCHANGED <<deck, open, late, repair, emergency, ui>>

\* create and fill the next replacement; a late load keeps running on a backend that is closed
GlobalBuild ==
  /\ Globally("build") /\ Unused # {}
  /\ LET d == IF global.backend["A"] = NoBackend THEN "A" ELSE "B"
         kept == [global EXCEPT !.backend[d] = Fresh]
     IN \/ /\ global' = [kept EXCEPT !.pc = IF d = "B" THEN "swap" ELSE "build"]
           /\ open' = open \cup {Fresh} /\ UNCHANGED late
        \/ /\ global.model[d].title # Nothing
           /\ global' = [kept EXCEPT !.pc = "fail"]
           /\ open' = open \cup {Fresh}
           /\ \/ UNCHANGED late
              \/ late' = late \cup {Outlasting(Fresh, "run")}
        \/ /\ GlobalAt("fail")
           /\ open' = open \cup {Fresh}
           /\ late' = late \cup {CleanedUpLate(Fresh)}
        \/ GlobalAt("fail") /\ UNCHANGED <<open, late>>
  /\ UNCHANGED <<state, deck, service, repair, emergency, ui>>

GivenUp == [system |-> "RECOVERY_FAILED", health |-> global.health]

GlobalFail ==
  /\ Globally("fail")
  /\ open' = open \ Replacements
  /\ LET attempted == [service EXCEPT !.failedGlobal = @ + 1] IN
     \/ /\ Permitted("RECOVERY_FAILED")
        /\ state' = GivenUp
        /\ service' = attempted
        /\ GlobalAt("leave")
     \/ /\ ~Permitted("RECOVERY_FAILED")
        /\ state' = [state EXCEPT !.health = global.health]
        /\ service' = [Unlocked(global.held) EXCEPT !.failedGlobal = @ + 1]
        /\ global' = RestingGlobal
  /\ UNCHANGED <<deck, late, repair, emergency, ui>>

GlobalSwap ==
  /\ Globally("swap")
  /\ LET d == IF "A" \in global.swapped THEN "B" ELSE "A" IN
     /\ deck' = Mute(Adopted(deck, d, global.backend[d], global.model[d]), d, TRUE)
     /\ state' = Health(state, d, "HEALTHY")
     /\ global' = [global EXCEPT !.swapped = @ \cup {d}, !.backend[d] = deck[d].backend,
                     !.pc = IF d = "B" THEN "release" ELSE "swap"]
  /\ UNCHANGED <<open, late, service, repair, emergency, ui>>

\* a backend that cannot be released stays for later: cleanup_pending
GlobalRelease ==
  /\ Globally("release")
  /\ LET d == IF "A" \in global.swapped THEN "A" ELSE "B" IN
     /\ \/ Released(global.backend[d])
        \/ ReleasedLate(global.backend[d])
        \/ NotReleased("deadline")
        \/ NotReleased("raise")
     /\ global' = [global EXCEPT !.swapped = @ \ {d}, !.backend[d] = NoBackend,
                     !.pc = IF d = "B" THEN "succeed" ELSE "release"]
  /\ UNCHANGED <<state, deck, service, repair, emergency, ui>>

GlobalSucceed ==
  /\ Globally("succeed")
  /\ \/ /\ Permitted("NORMAL")
        /\ state' = To(state, "NORMAL")
        /\ service' = [service EXCEPT !.failedGlobal = 0]
        /\ global' = [global EXCEPT !.pc = "leave", !.ok = TRUE]
     \/ /\ ~Permitted("NORMAL")
        /\ service' = [Unlocked(global.held) EXCEPT !.failedGlobal = 0]
        /\ global' = RestingGlobal
        /\ UNCHANGED state
  /\ UNCHANGED <<deck, open, late, repair, emergency, ui>>

GlobalLeave ==
  /\ Globally("leave")
  /\ service' = Unlocked(global.held)
  /\ emergency' = [emergency EXCEPT !.prepared = NoDeck]
  /\ global' = [RestingGlobal EXCEPT !.pc = "report", !.ok = global.ok]
  /\ UNCHANGED <<state, deck, open, late, repair, ui>>

-----------------------------------------------------------------------------
(* The thread of an emergency action: EmergencyPlaybackService.            *)

Acting(pc) == emergency.thread.pc = pc
ActAt(pc) == emergency' = [emergency EXCEPT !.thread.pc = pc]

\* a title loaded on the deck the handover waits for: its `is` comparison fails from now on
Reloaded(d) == IF emergency.handover = d THEN NoDeck ELSE emergency.handover

\* immediate_replace: the affected deck is silenced and given up first
EmergencyReplace ==
  /\ Acting("replace")
  /\ LET d == emergency.thread.affected IN
     /\ deck' = Play(Mute(deck, d, TRUE), d, FALSE)
     /\ state' = Degraded(Health(state, d, "FAILED"))
  /\ ActAt("prepare")
  /\ UNCHANGED <<open, late, service, repair, global, ui>>

Usable == {d \in Decks : state.health[d] = "HEALTHY" /\ ~Playing(d)}

\* prepare_media: the first healthy deck that does not play
EmergencyPrepare ==
  /\ Acting("prepare")
  /\ IF Usable = {} THEN ActAt("report") /\ UNCHANGED <<state, deck>>
     ELSE LET d == IF "A" \in Usable THEN "A" ELSE "B" IN
          /\ state' = Health(state, d, "UNSURE")
          /\ deck' = Gated(deck, d)
          /\ emergency' = [emergency EXCEPT !.thread.pc = "load", !.thread.deck = d]
  /\ UNCHANGED <<open, late, service, repair, global, ui>>

EmergencyLoad ==
  /\ Acting("load")
  /\ LET d == emergency.thread.deck IN
     \/ /\ deck' = Mute(Gated(Loaded(deck, d, "emergency"), d), d, TRUE)
        /\ state' = Health(state, d, "HEALTHY")
        /\ emergency' = [emergency EXCEPT !.thread.pc = "activate", !.prepared = d, !.handover = Reloaded(d)]
     \/ /\ state' = To(Health(state, d, "FAILED"), "DEGRADED")
        /\ ActAt("report") /\ UNCHANGED deck
  /\ UNCHANGED <<open, late, service, repair, global, ui>>

\* activate_prepared: the preparation may be gone, used up or replaced; then the start itself
EmergencyActivate ==
  /\ Acting("activate")
  /\ LET d == emergency.prepared IN
     \/ /\ d = NoDeck \/ emergency.failed >= MaxStartAttempts
        /\ ActAt("report") /\ UNCHANGED <<state, deck>>
     \/ /\ d # NoDeck /\ emergency.failed < MaxStartAttempts /\ Title(d) # "emergency"
        /\ emergency' = [emergency EXCEPT !.thread.pc = "report", !.prepared = NoDeck]
        /\ UNCHANGED <<state, deck>>
     \/ /\ d # NoDeck /\ emergency.failed < MaxStartAttempts /\ Title(d) = "emergency"
        /\ \/ /\ deck' = Play(Gated(deck, d), d, TRUE)
              /\ emergency' = [emergency EXCEPT !.thread.pc = "confirm", !.thread.deck = d]
              /\ UNCHANGED state
           \/ /\ deck' = Gated(deck, d)
              /\ emergency' = [emergency EXCEPT !.thread.pc = "report", !.failed = @ + 1]
              /\ state' = To(Health(state, d, "FAILED"), "DEGRADED")
  /\ UNCHANGED <<open, late, service, repair, global, ui>>

\* confirmed: the gates open and the handover to this deck begins
EmergencyConfirm ==
  /\ Acting("confirm")
  /\ LET d == emergency.thread.deck IN
     /\ deck' = [deck EXCEPT ![d] = [@ EXCEPT !.transitionMuted = FALSE, !.emergencyMuted = FALSE]]
     /\ state' = To(state, "EMERGENCY_ACTIVE")
     /\ emergency' = [emergency EXCEPT !.thread.pc = "report", !.failed = 0,
                        !.handover = IF Title(Other(d)) = Nothing THEN NoDeck ELSE Other(d)]
  /\ UNCHANGED <<open, late, service, repair, global, ui>>

\* _start_safe_handover: at the end of the ramp the title that was going out is stopped
HandoverEnds ==
  /\ emergency.handover # NoDeck
  /\ deck' = Play(deck, emergency.handover, FALSE)
  /\ emergency' = [emergency EXCEPT !.handover = NoDeck]
  /\ UNCHANGED <<state, open, late, service, repair, global, ui>>

-----------------------------------------------------------------------------
(* The GUI thread: status tick, commands and results.                      *)

Asked(c) == ui.todo[c] > 0
Given(u, c) == [u EXCEPT !.todo[c] = @ - 1]
Paused(u) == [u EXCEPT !.running = FALSE]
PausedFor(c) == Given(Paused(ui), c)

ReturnGateRequired == ui.validate \/ ui.requested \/ ui.unreleased \/ ui.lostHealth # <<>>
RecoveryActive == service.global \/ \E d \in Decks : service.lock[d] # "free"
\* assess_recovery_return, as far as decks and repairs are concerned
ReturnAllowed == /\ ~ui.requested /\ ~RecoveryActive /\ ~ui.unreleased
                 /\ ui.lostHealth = <<>> /\ AllHealthy(state)

Spawned(d, auto, skip) == [RestingRepair EXCEPT !.pc = "assess", !.deck = d, !.auto = auto, !.skip = skip]

\* start_deck_recovery_action by the operator
StartRepair(d, skip) ==
  /\ Asked("repair") /\ ~ui.repairing /\ ~service.global
  /\ repair' = Spawned(d, FALSE, skip)
  /\ ui' = [PausedFor("repair") EXCEPT !.repairing = TRUE]
  /\ UNCHANGED <<state, deck, open, late, service, global, emergency>>

\* DeckHealthMonitor.observe: nothing is wrong, a playing deck is in doubt, or it has failed
FoundWell(d) ==
  state' = IF ~Playing(d) /\ state.health[d] = "FAILED" THEN state ELSE Normalized(Health(state, d, "HEALTHY"))
FoundDoubtful(d) ==
  Playing(d) /\ state' \in {Health(state, d, "UNSURE"), Warned(Health(state, d, "UNSURE"))}
FoundFailed(d) ==
  \/ Playing(d) /\ state' \in {Degraded(Health(state, d, health)) : health \in {"UNSURE", "FAILED"}}
  \/ ~Playing(d) /\ state.health[d] = "FAILED" /\ UNCHANGED state

OneDeck(u, active) == [u EXCEPT !.mode = active, !.validate = TRUE]

\* _handle_runtime_deck_failure
RuntimeFailure(d) ==
  LET given == Given(ui, "stall")
      alone == IF Playing(Other(d)) THEN OneDeck(given, Other(d)) ELSE given IN
  /\ deck' = IF Playing(Other(d)) THEN Mute(deck, d, TRUE) ELSE deck
  /\ IF ~ui.repairing /\ ~service.global
     THEN /\ repair' = Spawned(d, TRUE, TRUE)
          /\ ui' = [alone EXCEPT !.repairing = TRUE, !.recovering = @ \cup {d}]
     ELSE ui' = Paused(alone) /\ UNCHANGED repair

\* _run_status_tick: a stalled or failed deck goes to the automatic repair
StatusTick(d) ==
  /\ \/ FoundWell(d) /\ UNCHANGED <<deck, repair, ui>>
     \/ /\ Asked("stall") /\ FoundDoubtful(d)
        /\ ui' = Given(ui, "stall")
        /\ UNCHANGED <<deck, repair>>
     \/ /\ Asked("stall") /\ FoundFailed(d)
        /\ IF ui.running /\ d \notin ui.recovering /\ Title(d) # Nothing
           THEN RuntimeFailure(d)
           ELSE ui' = Given(ui, "stall") /\ UNCHANGED <<deck, repair>>
  /\ UNCHANGED <<open, late, service, global, emergency>>

TwoDecks(u) == [u EXCEPT !.mode = NoDeck, !.validate = FALSE]

\* the callback `finish` of a deck repair, and _finish_automatic_deck_recovery
FinishRepair ==
  /\ Repairing("report")
  /\ repair' = RestingRepair
  /\ LET d == repair.deck
         quiet == [ui EXCEPT !.repairing = FALSE, !.recovering = IF repair.auto THEN @ \ {d} ELSE @]
         done == [quiet EXCEPT !.validate = TRUE]
     IN \/ repair.auto /\ repair.stale /\ ui' = quiet /\ UNCHANGED deck
        \/ ~repair.auto /\ ui' = done /\ UNCHANGED deck
        \/ /\ repair.auto /\ ~repair.stale /\ ~repair.ok
           /\ ui' = IF \E e \in Decks : Playing(e) THEN done ELSE Paused(done)
           /\ UNCHANGED deck
        \/ /\ repair.auto /\ ~repair.stale /\ repair.ok
           /\ IF ui.mode # NoDeck /\ ReturnAllowed
              THEN ui' = TwoDecks(done) /\ deck' = MuteBoth(deck, FALSE)
              ELSE ui' = done /\ deck' = Mute(deck, d, FALSE)
  /\ UNCHANGED <<state, open, late, service, global, emergency>>

StartGlobal ==
  /\ Asked("global") /\ ~ui.requested /\ ~ui.unreleased
  /\ ui' = [PausedFor("global") EXCEPT !.requested = TRUE, !.validate = TRUE]
  /\ deck' = MuteBoth(deck, TRUE)
  /\ global' = [RestingGlobal EXCEPT !.pc = "assess"]
  /\ UNCHANGED <<state, open, late, service, repair, emergency>>

FinishGlobal ==
  /\ Globally("report")
  /\ global' = RestingGlobal
  /\ ui' = [ui EXCEPT !.requested = FALSE, !.unreleased = TRUE]
  /\ UNCHANGED <<state, deck, open, late, service, repair, emergency>>

ReleaseGlobalMute ==
  /\ ui.unreleased
  /\ ui' = [ui EXCEPT !.unreleased = FALSE]
  /\ deck' = MuteBoth(deck, FALSE)
  /\ UNCHANGED <<state, open, late, service, repair, global, emergency>>

\* start_emergency_action, start_emergency_media_action; start_immediate_replace_action
StartEmergency ==
  /\ Asked("emergency") /\ ~ui.acting
  /\ ui' = [PausedFor("emergency") EXCEPT !.acting = TRUE, !.validate = TRUE]
  /\ ActAt("prepare")
  /\ UNCHANGED <<state, deck, open, late, service, repair, global>>

StartReplace(d) ==
  /\ Asked("replace") /\ ~ui.acting
  /\ ui' = [PausedFor("replace") EXCEPT !.acting = TRUE, !.validate = TRUE]
  /\ deck' = Mute(deck, d, TRUE)
  /\ emergency' = [emergency EXCEPT !.thread = [pc |-> "replace", deck |-> NoDeck, affected |-> d]]
  /\ UNCHANGED <<state, open, late, service, repair, global>>

FinishEmergency ==
  /\ Acting("report")
  /\ emergency' = [emergency EXCEPT !.thread = RestingEmergency]
  /\ ui' = [ui EXCEPT !.acting = FALSE]
  /\ UNCHANGED <<state, deck, open, late, service, repair, global>>

\* report_output_device with the configured device missing, _handle_audio_output_device_loss
LoseDevice ==
  /\ Asked("device") /\ ui.lostHealth = <<>>
  /\ state' = Degraded([state EXCEPT !.health = [d \in Decks |-> "FAILED"]])
  /\ deck' = MuteBoth(deck, TRUE)
  /\ ui' = [PausedFor("device") EXCEPT !.lostHealth = <<state.health>>, !.validate = TRUE]
  /\ UNCHANGED <<open, late, service, repair, global, emergency>>

\* confirm_audio_output_device_recovered: the health from before the loss comes back
ConfirmDevice ==
  /\ ui.lostHealth # <<>>
  /\ LET restored == [state EXCEPT !.health = ui.lostHealth[1]] IN
     state' = IF state.system = "DEGRADED" /\ AllHealthy(restored) THEN To(restored, "NORMAL") ELSE restored
  /\ deck' = MuteBoth(deck, FALSE)
  /\ ui' = [ui EXCEPT !.lostHealth = <<>>]
  /\ UNCHANGED <<open, late, service, repair, global, emergency>>

\* return_to_two_deck_mode
ReturnToTwoDecks ==
  /\ ui.mode # NoDeck /\ ReturnAllowed
  /\ ui' = TwoDecks(ui)
  /\ deck' = MuteBoth(deck, FALSE)
  /\ UNCHANGED <<state, open, late, service, repair, global, emergency>>

\* start_automatic_queue, resume_automatic_after_recovery
StartAutomatic ==
  /\ Asked("start") /\ ~ui.running /\ (ReturnGateRequired => ReturnAllowed)
  /\ ui' = [Given(ui, "start") EXCEPT !.running = TRUE, !.validate = FALSE]
  /\ UNCHANGED <<state, deck, open, late, service, repair, global, emergency>>

\* the operator or the automatic loads a title (_load_track_impl), starts it, and it ends
LoadTitle(d) ==
  /\ Asked("load")
  /\ deck' = Loaded(deck, d, "music")
  /\ state' = Reusable(state, d)
  /\ emergency' = [emergency EXCEPT !.handover = Reloaded(d)]
  /\ ui' = [PausedFor("load") EXCEPT !.recovering = {}]
  /\ repair' = IF repair.auto THEN [repair EXCEPT !.stale = TRUE] ELSE repair
  /\ UNCHANGED <<open, late, service, global>>

StartTitle(d) ==
  /\ Asked("play") /\ Title(d) # Nothing /\ ~Playing(d)
  /\ deck' = Play(deck, d, TRUE)
  /\ ui' = Given(ui, "play")
  /\ UNCHANGED <<state, open, late, service, repair, global, emergency>>

TitleEnds(d) ==
  /\ Playing(d)
  /\ deck' = Play(deck, d, FALSE)
  /\ UNCHANGED <<state, open, late, service, repair, global, emergency, ui>>

-----------------------------------------------------------------------------
RepairThread == \/ RepairAssess \/ RepairLock \/ RepairWarn \/ RepairEnter \/ RepairCreate \/ RepairMedia
                \/ RepairCommit \/ RepairRelease \/ RepairSucceed \/ RepairFail \/ RepairLeave
GlobalThread == \/ GlobalAssess \/ GlobalLock \/ GlobalWarn \/ GlobalEnter \/ GlobalBuild \/ GlobalFail
                \/ GlobalSwap \/ GlobalRelease \/ GlobalSucceed \/ GlobalLeave
EmergencyThread == \/ EmergencyReplace \/ EmergencyPrepare \/ EmergencyLoad \/ EmergencyActivate
                   \/ EmergencyConfirm
Results == FinishRepair \/ FinishGlobal \/ FinishEmergency
DeckCommand(d) == \/ StartRepair(d, TRUE) \/ StartRepair(d, FALSE) \/ StatusTick(d) \/ StartReplace(d)
                  \/ LoadTitle(d) \/ StartTitle(d) \/ TitleEnds(d)
Command == \/ StartGlobal \/ ReleaseGlobalMute \/ StartEmergency \/ LoseDevice \/ ConfirmDevice
           \/ ReturnToTwoDecks \/ StartAutomatic

Next == \/ RepairThread \/ GlobalThread \/ EmergencyThread \/ HandoverEnds \/ LateOperationEnds \/ Results
        \/ Command \/ \E d \in Decks : DeckCommand(d)

Spec == Init /\ [][Next]_vars

-----------------------------------------------------------------------------
(* Properties.                                                             *)

TypeOK ==
  /\ state \in [system : Systems, health : [Decks -> Healths]]
  /\ deck \in [Decks -> [model : [title : Titles, playing : BOOLEAN], transitionMuted : BOOLEAN,
                         emergencyMuted : BOOLEAN, backend : Backends]]
  /\ open \subseteq Backends
  /\ late \subseteq [backend : Backends, then : {"close", "run"}]
  /\ service.lock \in [Decks -> {"free", "repair", "global"}]
  /\ service.failed \in [Decks -> 0..MaxDeckAttempts] /\ service.failedGlobal \in 0..MaxGlobalAttempts
  /\ service.active \subseteq Decks

\* No audio player is left behind: every backend that was created and not closed is the one of a
\* deck, is still in the hands of a repair, or is closed by the operation that outlasted its timeout
\* (late_cleanup, the finally of recover_all_backends, the release of the previous backend).
HeldByRepair == (IF repair.pc \in {"media", "commit", "fail"} THEN {repair.backend} ELSE {})
                \cup (IF Repairing("release") THEN {repair.previous} ELSE {})
BackendsAccounted ==
  \A b \in open : \/ \E d \in Decks : deck[d].backend = b
                  \/ b \in HeldByRepair \cup Replacements
                  \/ Outlasting(b, "close") \in late

\* A lock of the recovery service always has a living holder: it is given back however the repair
\* ends, also when an illegal state transition ends the thread that holds it.
LocksHaveHolders ==
  /\ \A d \in Decks : service.lock[d] = "repair" =>
                        repair.deck = d /\ repair.pc \notin {"idle", "assess", "lock", "report"}
  /\ \A d \in Decks : service.lock[d] = "global" => d \in global.held
  /\ service.global => global.pc \notin {"idle", "assess", "report"}

\* An emergency title is not heard before its start was confirmed: whatever the repairs, the
\* operator's releases and the health monitor do, its deck stays gated until then
\* (emergency_playback.py: "Emergency audio must remain inaudible until ... confirmed").
ConfirmedBeforeHeard ==
  \A d \in Decks : emergency.thread.pc \in {"activate", "confirm"} /\ emergency.prepared = d
                     /\ Title(d) = "emergency" => ~Audible(d)

=============================================================================
