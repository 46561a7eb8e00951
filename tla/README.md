# DeckRelay in TLA+

DeckRelay is a desktop program that plays a party: two decks, a queue of titles
kept in SQLite, an automatic run that prepares the next title on the free deck
while the other one plays and mixes them into each other, and the services
around it (a plan of selected titles, tempo analysis, backup and restore, repair
of the audio path, emergency playlist). It is one Python process. The GUI thread
(Tk) owns the decks and the controllers; everything that may block runs on other
threads and comes back to the GUI thread as a callback. What is hard about it is
what happens between a job being submitted and its answer being processed.

This directory models those parts, checks them with TLC on small instances, and
proves the most important of their properties with TLAPS for every value of the
constants. Source paths below are relative to `src/src/party_player/`.

## 1. Inventory

| Component (source) | State it keeps | Operations | Interacts through | Correct when |
|---|---|---|---|---|
| Bounded executor (`bounded_executor.py`, `persistence_participant.py`) | semaphore, `_pending`, `_accepting`, `_finalizer_pending`, inner pool | submit, block/drain/finalizer/resume, shutdown | used by every worker; is a participant of the restore | no permit leaks, a drained pool stays quiet, every job ends |
| Preload and automatic playback (`controllers/main_controller.py`) | generation, in-progress flag, queue cache, failure streak, deck assignments | search, prepare, adopt, commit, timeout, tick, operator commands | preload and persistence executor, GUI callbacks, timers, queue service, decks | one preload at a time, decks and queue agree, no deck starves |
| Transition controller and crossfader (`transition_controller.py`, `controllers/main_controller.py`) | phase, generation, incoming and outgoing deck, fader, the coordinator of the next preload | begin, wait, crossfade, finish, abort | decks, scheduler callbacks, fader thread, both executors | the party stays audible, a handover ends, the next load waits for both commits |
| Queue (`queue_service.py`, `repository.py`) | rows of `party_queue`: status, deck, lock | about thirty transitions, locks, clear, restart recovery | called by GUI thread, preload worker, persistence executor | one active entry per deck, removed stays removed |
| Restore (`restore_lifecycle.py`, `restore_commit.py`, `restore_pipeline.py`), destructive maintenance (`database_maintenance.py`) | lifecycle state, files beside the database | quiesce, exchange, rollback, resume; VACUUM, REINDEX | participants, file system | quiet exchange, never without a database, failure restores everything |
| Audio recovery and emergency (`audio_recovery.py`, `emergency_*.py`, `deck_health_monitor.py`) | system and deck health, locks and attempts, backends, prepared emergency title | repair of one deck, of all, emergency replacement, device loss | four kinds of threads, operations that outlast their timeout | no player left behind, locks given back, nothing unconfirmed heard |
| Metadata analysis (`metadata_analysis_*.py`) | `metadata_analysis_runs`, the coordinator's queue and job, the child process | enqueue, tick, cancel, pause, drain, interrupted runs | GUI ticks, background thread, child, restore | results with their status, no run lost, no run stuck |
| Selection plan (`automatic_selection_plan_*.py` and its repository) | plans with revision and steps, links to queue entries | draft, activate, materialize, pause, resume, replace, discard, refill | workers under different locks, GUI, session service, startup | one plan at a time, plan and queue keep one account |
| GUI event dispatcher (`gui_event_dispatcher.py`) | queue of callbacks, coalescing keys | publish, process | all workers | nothing lost, latest of a key wins |
| Selection rules (`automatic_selection*.py`, `track_selection.py`, `repetition_policy.py`, ...) | none: functions of history and catalog | filter, score, explain | planning, queue service | rules hold over the window |
| Playback completion, history, listening events | rows of the history | record, correct | commit of an end | one event for a title heard |
| Backup (`backup_service.py`, `backup_restore_controller.py`) | archives, retention, running operation | create, validate, prune | restore, maintenance | the last valid backup is never pruned |
| Overlay and ducking, cue points, loudness, equalizer, playlists, catalog, settings, startup, UI | preferences, files, widgets | read and write | queue and decks | data handling |

The hard behaviours: a worker's answer arrives after the operator or another
worker changed what it was about (generations or revisions are compared at some
places and not at others); one operation of the queue service is several SQLite
transactions; adoption of a medium (GUI thread) and its commit (worker) are two
steps; the end of a title is committed by yet another executor; a fader thread
that has compared the generation writes after the abort; an operation on a
backend goes on after its timeout; a restore stops a set of pools one after the
other and exchanges files by renames, any of which may fail or be the last one
before a crash. `PROJECT.json` lists the hazards with their lines and the
properties about them, and those that no property holds against.

## 2. Modules

| Module | Models | Proofs |
|---|---|---|
| `Participant` | abstract: what a restore participant promises the lifecycle adapter | |
| `BoundedExecutor` | one pool with any number of submitting threads and the owner of its gate; implements `Participant` | `BoundedExecutorProof` |
| `AutomaticPreload` | GUI thread, preload worker, callbacks, timer, decks, queue (a call of the service is one step) and the operator | `AutomaticPreloadProof` |
| `Transition` | the handover from one deck to the other: controller, fader threads, backends, executors, operator | `TransitionProof`, about the invariants of `TransitionInvariants` |
| `QueueLifecycle` | queue rows under threads that interleave the statements of the service's operations | `QueueLifecycleProof` |
| `DatabaseRestore` | lifecycle adapter, participants (open gate and outstanding job), the files of the database | `DatabaseRestoreProof` |
| `AudioRecovery` | repair of one deck, global repair, emergency replacement, device loss, and the commands around them | `AudioRecoveryProof` |
| `MetadataAnalysis` | service, coordinator, supervisor, child process, rows of runs, a drain beside the GUI's ticks | `MetadataAnalysisProof` |
| `SelectionPlan` | plans and their steps, the automatic entries, execution service, dialogs, refill, startup and end of the session | `SelectionPlanProof` |
| `MC*` | model values, sets, scenarios and symmetry for TLC | |

How they fit together. `AutomaticPreload` and `Transition` overlap on purpose:
the first has the pipeline of a preload in full and takes a mix as two steps,
the second has the handover in full and takes a preload as two jobs; what they
share is a free deck, the commit of an end and the generation. Both take a call
of the queue service as one step, which `QueueLifecycle` splits into its
transactions. `DatabaseRestore` takes a participant as a gate and an outstanding
job: that is `Participant`, and `BoundedExecutor` is shown to implement it.
`MetadataAnalysis`, another participant, has the drain of a restore as one of
its threads.

In several modules an instance is a *scenario*: which commands of the operator
and which faults occur, and how often, in any order and at any moment
(`Scenarios`, `todo`, `may`). This bounds the runs without ordering anything.

### Participant and BoundedExecutor

`Participant` has work that is taken through an open gate and ends, a gate that
is shut and reopened, an answer "quiet", and what the owner runs in the quiet.

In `BoundedExecutor`, `call` says how far each call of `submit` has come:
semaphore taken (`Acquire`), entered under the condition or refused (`Enter`),
handed to the inner pool (`Enqueue`), run, `_completed` in its two halves
(`Uncount`, `Release`). `owner` is the thread that quiesces: `BlockNewWork`,
`Drain` with its timeout, the finalizer (`ClaimFinalizer` to `ClearFinalizer`),
`ResumeNewWork`. The done-callback of the finalizer's future runs on the worker
after the waiter was woken and is therefore an action of its own
(`FinalizerCompleted`). `shutdown` closes the gate and the inner pool in two
steps, with or without `cancel_futures`. The inner `ThreadPoolExecutor` is
external. The refinement mapping (`Abstract`) reads the gate off `closed` and
`accepting`, takes as jobs the calls counted in `_pending`, and as quiet the
owner's states from an answered drain to the resume.

### AutomaticPreload

`row` is the queue table, `ctl` what `MainController` keeps on the GUI thread
(deck assignments, the queue cache, `_preload_in_progress` as `busy`, the failure
streak, the paused and running flags, the handover under way), `jobs` the
preload executor (one worker, two places), `events` the callbacks, `timer` the
preparation timeout, `commits` the ends of playback on the persistence executor.
A GUI handler runs to its end without another handler in between, so it is one
action, composed of functions on the record `g`; a worker's job is one action for
each thing it reads or writes of the shared state.

The preload generation only grows, and every job, callback and timer is compared
with the current value. What was made in an older generation never becomes
current again, so the number is a flag `live` on everything outstanding, and
increasing it clears all flags (`Outdate`). This loses nothing and keeps the
state space finite without a bound on the number of preloads.

A handover (`mix`) is the deck that is mixed out with the title it had when the
handover began; the wait for the incoming backend and the crossfade are one
phase. It is completed (`CompleteTransition`), given up because one of its titles
is gone (`AbortTransition`), or fails because the incoming backend is lost at the
end (`LoseIncoming`, which pauses the run) or never started (`SkipIncoming`,
which skips its title); the last two occur where `Failing` has "handover". The
one-deck mode that a lost handover may lead to is in `Transition` only.

Left open rather than modelled: the order of the queue (any waiting entry may be
next), the selection rules (any waiting entry may be rejected, if media fail in
the instance), when a title ends or a mix begins and ends.

`Capacity` is the executor's own (two); `MaxEvents` bounds how many callbacks may
be waiting when the status tick or the operator acts. `Operators`, `Slow` and
`Failing` choose what an instance contains, so that each run stays exhaustive.
Which commands an instance has also decides which promises can be kept: those of
`preload_session` do not hold together with a manual load, start, move or retry in
the window between two steps of the pipeline. These windows are listed under
"Seen while modelling" in section 3; they are behaviours of the code, which the
model shows when `Operators` is widened.

### Transition

`tr` is the transition with the callback that carries it on (`step`): the poll
while the incoming backend is awaited, the render tick, the delayed finish.
`fader` has four positions, two on each side of the middle, because all that the
code asks of it is whether it is half way or at an end. `ramp` is the fader thread
of the current crossfade; it compares the generation (`RampArms`) before it writes
(`RampWrites`), so an abort in between leaves a write behind (`late`,
`RampWritesLate`). `deck` has each deck's model beside its backend, which starts,
is found dead, breaks off or ends by itself. `pool` is the preload executor, on
which the backend of the deck that was mixed out is stopped, too; `commits` the
persistence executor; `coord` the `_TransitionAutoloadCoordinator` of each title.
GUI handlers are functions on the record `g` and one action each; `Command` has
the ten commands an operator can give to decks, fader and run. It is assumed that
a fader thread's last write comes before the next crossfade's first step.

### QueueLifecycle

`row` has status, deck and the two lock components; `pc` the operation each of
the service threads is in. An operation is `Begin` (the entry as the
caller sees it), `Validate` (`_validate_transition` reads again), `Write` (the
UPDATE with its condition and the unique index on active decks), `ReadLocks` and
`StoreLocks` (`_set_lock_components`). An operation is described by the statuses
it is called for, the one it leads to and what its UPDATE accepts; the table of
operations is at the top of the module. Single statements (`MarkPlaying`,
`Complete`, `ClearWaiting`, ...) are one action. `Restart` is a crash followed by
`recover_queue_after_restart`; `StartSession` the copy of pending entries.

### DatabaseRestore

A database is named by what it contains, a write-ahead log by the database its
frames belong to. `op.pc` walks through `execute`, `quiesce` and `commit`; each
phase visits the participants one by one; each rename is a step that happens or
fails. `Restart` ends the process at any step (`Crashes`) or while nothing runs;
what starts again finds the files as they are. Persistence jobs are submitted
and run at any time the gates allow. Reads of the GUI thread and executors that
are no participants are not modelled. An installed candidate is assumed to
be another database than the active one, because files that are equal could not
be told apart in the properties. `Slots` bounds how many rollback files crashes
and failed cleanups may leave behind.

### AudioRecovery

`repair`, `global` and `emergency.thread` are the three threads, each with a
program counter whose steps are the calls that read or change something shared:
the state service, a lock, a backend. `state` is `EmergencyStateService` with its
table of transitions; where `transition` raises, the thread takes the exception's
way (`report`). `open` has the backends that were created and not closed, `late`
the operations that outlasted their timeout with what still happens to their
backend. Time is left out: a timed operation ends in time, late or badly. `ui` is
what `MainController` keeps: which threads it takes for running, the return gate,
the one-deck mode. Health is three values, since only the monitor's look at the
deck, which is free here, tells the others apart. How a release of the old backend
may fail is a parameter (`ReleaseFaults`): the run has the late one, because with
a release that raises or reaches its deadline the backend is left open by the
code, which is listed in section 3.

### MetadataAnalysis

`row` and `stored` are the runs and whose results are in the database; `pending`,
`current` and `coord` the coordinator, `sup` the supervisor with its child. A tick
is cut wherever it reads or writes what the draining thread may change as well
(`thread` for the GUI's tick and the drain's), `starter` is `analyze_track` on its
background thread. An exception out of a GUI tick ends the polling, because
`app.py` schedules the next one after the present one has returned
(`gate.polling`). `changed` are runs whose file is no longer the one that was
analysed. `MaxPending` bounds the coordinator's queue (the code has none).

### SelectionPlan

`plan` has each plan with status, revision and steps, `row` the automatic entries
of the queue. `exec` is the one thread inside the execution service's lock, `ui`
the operator's dialogs and the worker of the decision taken there, `foreign` the
observer of a title that no plan queued, `gui` the refill's flags in
`MainController`, `phase` startup with its decision, the session, and its end. A
method of the repository is one step where nothing but the revision decides, and
two where it looks at another table first (`CheckDraft`/`ActivateDraft`,
`CheckDiscard`/`DiscardPlan`); an evaluation (`EvaluateStep`) and the transaction
that follows (`MaterializeStep`, `PauseInvalidStep`) are two steps, for that is
where everything else gets in between. Which titles a plan finds and which the
rules reject is left open. One decision of the operator is under way at a time.

## 3. Runs

| Run | Question | States |
|---|---|---|
| `executor` | Does the pool keep its promises to submitters and to the restore, shut down at any moment, and is it a `Participant`? | 3 902 |
| `preload_session` | Does an automatic party go on, with queue and decks in agreement, through failures, timeouts, skips, pauses by failure and their resumption? | 48 000 |
| `preload_operator` | Can the operator load, start, remove, move, retry and pause at any step without a late result being adopted? | 2.5 million |
| `transition` | Do handovers end, and does the party stay audible, through commands, lost and dead backends, stale fader threads and failing commits? | 236 000 |
| `queue_lifecycle` | Do interleaved queue operations keep decks exclusive and removed entries removed? | 2.1 million |
| `restore_exchange` | Is every restore and maintenance, with failures and crashes, quiet and without loss of a database? | 287 000 |
| `audio_recovery` | Do repairs, emergency replacements and device losses that meet leave no backend, no lock and no unconfirmed sound behind? | 535 000 |
| `metadata_analysis` | Do runs keep status and results together, whatever meets: two ticking threads, a dying child, a restart, commands? | 259 000 |
| `selection_plan` | Do writers that share no lock keep one plan and one account, and is no change of the queue lost between two refills? | 588 000 |
| `restore_crash` (violation) | Does the program always start on the party's database? | |
| `transition_failed_title` (violation) | Are sound titles never FAILED? | |
| `metadata_polling` (violation) | Do the ticks go on until the service is closed? | |

Why the instances are large enough. *executor*: one worker and two places
with three calls make the semaphore refuse, the queue fill and a finalizer wait;
the finalizer needs one worker by the code. *preload_session*: three titles for
two decks are the fewest for one playing, one prepared and one waiting, and for
the three failures that pause the run; liveness is checked here, without symmetry.
The safety properties of the session were also checked once with four and with five
titles. *preload_operator*: two titles contend for two decks; adoptions, commits and
handovers may fail and preparations outlast the timeout (media fail in
`preload_session`).
*transition*: three titles give two handovers, the second after whatever the first
left behind. The scenarios are every command and every fault alone, pauses with
their resumption, and each fault with a failing start or a lost backend; the safety
properties were also checked once for every pair of events. *queue_lifecycle*:
two entries and one deck are the contention the index decides; the second deck is
only less contention (proved for any number). *restore_exchange*: two participants
tell "all" from "the first", two archives allow a second restore, two slots a
left-over rollback file. *audio_recovery*: the two backends of the start and two
more, with one attempt each; twelve combinations of three commands, among them
every pair of threads, with a title loaded, started or stalled in between.
*metadata_analysis*: two runs tell a job from the one behind it; each fault meets
each command while pending rows are resumed and a track is analysed, and a restore
meets three faults. *selection_plan*: three plans (the current one, the one that
replaces it, and a successor), two titles each at most and a stock of two; five
scenarios each put writers together: an adoption; a dialog; the end of the
automatic with a dropped title; a restart with its decision; a foreign title with
the end of the session. The execution service and the refill run in all of them.

Fairness. `executor`: worker threads, and threads inside `submit`, keep running,
and a job ends; nobody is obliged to submit, block, time out or shut down.
`preload_session`: the preload worker, the GUI thread's callbacks, its timer, the
status tick, which Tk schedules again at each run, the end of a mix that was begun,
and the commits on the persistence executor; nothing of the operator and nothing
about when a title ends. It includes that a preparation returns (late, but it does).
`transition`: the callbacks of a transition and its fader thread run, and a backend
that was told to play starts or is found dead (the wait has a timeout of its own);
operator, faults and the length of a title are free. `restore_exchange`: the
operation's own thread; every call it waits for has a timeout, jobs need not end.
`metadata_analysis`: the ticks, the drain, `analyze_track` and the child go on; a
child that hangs meets the time limit. `selection_plan`: the thread inside the lock
goes on, the GUI thread comes round to refresh and callbacks (weak fairness), and
the refill's worker gets the lock in the end although others take it again and
again; the last is strong fairness of `EnsureBuffer`, justified by how seldom the
others ask: `ensure_next_step` is called once per preload evaluation.

`CHECK_DEADLOCK FALSE` is given where the program may rest: a pool that is shut
down, a queue that is played, a plan that is exhausted, no command left.

Every property of a passing run has a mutant: a plausible change of a mapped
definition (the operator named "Variant" before it) under which TLC finds the
property violated.

### Violations

Each with its line in `PROJECT.json` "findings". The run shows what the code does
where a comment or document says otherwise.

- `restore_crash`: a crash between the renames leaves no active database, and the
  next start creates an empty one (`restore_commit.py:1` calls the commit atomic).
- `transition_failed_title`: after a natural end the search and preparation of the
  refill may run before the end is committed. The old entry still holds the deck in
  `party_queue`, `mark_preparing` hits the unique index, and the handler marks the
  sound title FAILED (`docs/automatic_playback.md:35`, `:56`).
- `metadata_polling`: pending runs that are resumed a second time are queued twice;
  the second copy makes `mark_running` raise out of the tick, and the GUI never
  schedules the next one (`ui/catalog_maintenance_dialog.py:943`).

### Seen while modelling

What the models show when an instance is widened, or reading showed on the way. A
few are hazards in `PROJECT.json` with a note; none has a run.

Executor and restore. The done-callback of an old finalizer clears the claim of a
new one after a second quiesce (`bounded_executor.py:97`); the refinement therefore
assumes one finalizer in the executor's life. A restore whose restart was declined
leaves the adapter quiesced, and a maintenance after it resumes the old process's
persistence on the restored database (`restore_lifecycle.py:80`). The safety backup
precedes the drain, so drained jobs are not in it. `all(...)` over a generator in
`_fail_and_resume` stops at the first refusal.

Preload. An entry removed or moved between adoption and commit stays loaded on its
deck (`main_controller.py:1848`); a manual start there leaves the heard entry
PREPARING (2345), and a pause drops the commit (5680, `docs/automatic_playback.md:41`).
A timeout that fires during a slow commit fails an entry its deck has adopted (3814).
A preparation that never returns keeps the only preload worker, and the searches
behind it have no timer (3810). A retry between validation and `mark_preparing`
makes a stale worker take the entry (3549); the worker's older view of the decks
resets a title loaded by hand (3440). An adoption that fails leaves its entry
PREPARING (3786). `persistence_failed` does not compare the generation (3762). A
PREPARING entry that the operator skips and then removes no longer conflicts in the
queue cache, and its medium is adopted when it arrives (3517, against the docstring
at 3520); with either command alone it is not, which is proved. A handover whose
incoming title is lost pauses the run, which outdates a preload under way and leaves
its entry PREPARING (1093, 5680).

Queue. The locks a worker had read overwrite one the operator set meanwhile
(`queue_service.py:1467`). A replay whose deck was emptied leaves an entry PLAYING
that nothing ends (656). `reset_queue_entry_to_waiting` accepts PLAYING although
`queue_service.py:763` calls that transition forbidden.

Transition. An abort leaves the incoming deck muted (`transition_controller.py:192`),
and in the wait it leaves a FINISHED deck that nobody ejects; after a seek or a
moved fader in the wait the run can fall silent. An abort past the middle fades
back, and the deck that was heard is ejected as PLAYED. If a natural end is
persisted first the coordinator never publishes. A poll that raises leaves the
wait for ever. A cleanup that the full pool refuses leaves the backend playing. A
title the operator loads before the late `backend.stop` is stopped by it.

Audio recovery. A normalisation by the tick between WARNING and RECOVERING makes
`_begin_deck_recovery` raise; its thread ends and the controller's flags stay set
(`audio_recovery.py:612`). An emergency action during a repair makes the completion
raise. If the release of the old backend times out and the state was moved on
meanwhile, the installed backend is closed (557, `tests/test_audio_recovery.py:400`).
A release whose deadline passes after the commit never closes the old backend. A
global repair closes a replacement whose timed-out load still runs. Confirming the
output device restores the health from before the loss, repairs since included.
`return_to_two_deck_mode` looks at the locks only.

Metadata analysis. Any exception in a tick has the effect of `metadata_polling`,
and the row stays RUNNING. Cancelling or rejecting a duplicate overwrites
COMPLETED. The drain ticks beside the GUI: a pause can get lost, and the drain can
answer True while a submit is in progress. A `finish` that raises out of a
cancellation leaves a current job without a process (`Stuck`).

Selection plan. `pause_for_foreign_playback` loses to a revision counted up
meanwhile and swallows the conflict. An inspection that fails at startup
initialises the controller without a decision, against `_recovery.py:50`.
Ending the dynamic automatic while a refill is between the completion of one
plan and the activation of the next finds no plan to end. A worker may activate a
plan between the discard for the finished session and the session's end
(`session_service.py:64`). The dialog's recalculation takes the revision of
whichever plan can be resumed, so that by an equal number a COMPLETED plan becomes
INVALIDATED. A refill that ends in a conflict is repeated only at the next change of
the queue. `ensure_next_step` may exceed the target stock.

## 4. Theorems

| Theorem | Says | Argument |
|---|---|---|
| `ExecutorInvariant` | types, queue discipline, gate and accounting | see below |
| `ExecutorTypes`, `QueueTypes`, `RestoreTypes`, `OnePlanGoesOn`, `AnalysisTypes`, `RecoveryTypes`, `PreloadTypes` | the type invariants of the runs; for the plans also that one of the session at most can go on | conjuncts of the invariants |
| `PermitsAreAccounted` | no permit leaks, none is returned twice | the counters are cardinalities of sets of calls; each action moves one call between them |
| `DrainIsStable` | a drained pool has no job | the gate stays shut from `BlockNewWork` to `ResumeNewWork`, and only `Enter` under an open gate adds to `Pending` |
| `ExecutorIsParticipant` | the executor implements `Participant` (safety), with one finalizer in its life | initial states map to initial states, every action to a step of the participant or to none; `ExecutorInvariant` gives that the gate is shut when "quiet" is answered |
| `QueueInvariant` | types and what each thread is about to write | |
| `DecksAreExclusive` | one active entry per deck | the unique index decides at every statement that makes an entry active or gives it a deck |
| `RemovedStaysRemoved` | no operation reinstates a removed entry | a thread about to write has validated against the table, which offers no way out of `removed`, and the UPDATE still asks for the status |
| `DecksMatchStatus` | what is prepared has a deck, what waits or failed has none | conjuncts of the invariant; `mark_preparing` and `mark_loaded` are given a deck |
| `PlayingWasLoaded` | nothing becomes PLAYING that no deck had loaded | by the table, or by the condition of `mark_queue_playing` |
| `RestoreInvariant` | types and the stop of the participants | see below |
| `ExchangeIsQuiet` | no job while files change | |
| `ActiveIsOpen` | an active adapter has everybody open | |
| `FilesInvariant` | which file has what, phase by phase of an exchange | see below |
| `DatabaseIsKept` | no crash loses the database before a verified one has replaced it | a conjunct of the invariant |
| `FailureIsUndone` | a restore that reports a failed exchange has put everything back | the rollback runs in the reverse order of what the exchange has moved, from the invariant's account of it |
| `PlanInvariant` | one plan at most can go on; what a writer holds it has read | see below |
| `ActivePlanQueues` | only the active plan gets a title into the queue | `SeenActive` for the execution service, at whose transaction the revision decides |
| `AccountInvariant` | what was read of a plan is as it was read while its revision has not moved; an ended plan plans nothing; an entry belongs to one step | see below |
| `PlansAndQueueAgree` | plans and queue give one account | a conjunct of the invariant |
| `EndedPlansStay` | a plan that has ended never goes on | every statement that makes a plan go on asks for a status that is not an ended one, or for a revision at which it was seen so |
| `AnalysisInvariant` | the job a tick handles is the coordinator's and the supervisor's | see below |
| `CompletedHasResults` | no run is COMPLETED before its results are stored | the job that is completed is the one whose child has delivered |
| `RunningHasJob` | what is RUNNING is the coordinator's job, or an earlier process left it | conjunct of the invariant |
| `EndedRunsStayEnded` | a run that has ended is never pending or running again | only the current job's row and pending rows are written |
| `RecoveryInvariant` | one thread of a kind, locks, the gate of the emergency player, backends | see below |
| `LocksAreHeld` | a lock that is taken is held by a thread that gives it back | |
| `EmergencyIsGated` | emergency music is heard only after its confirmation | the transition mutes the player until it is confirmed |
| `PlayersAreAccounted` | no backend is leaked, if a release of an old one is late at worst | |
| `LineInvariant` | a preload is one line of work | see below |
| `AdoptsPreparedOnly` | a medium is adopted for an entry that is PREPARING for that deck, or was removed meanwhile | the invariant, and the look at the cache before adoption |
| `NothingStaleIsAdopted` | ... for one that is PREPARING, if the operator does not both skip and remove | |
| `SessionInvariant` | in a session, rows, decks, mix, ends under way and queue cache agree on every title | see below |
| `PreparingIsNeverOrphaned` | what is PREPARING is prepared by someone | a conjunct of the invariant: its timer is set, and its job, callback or commit is the one of the line |
| `QueueAgreesWithDecks` | queue and decks say the same of every title | the four parts are read off the invariant |
| `HeardTitleStaysPlaying` | no job, timer or commit takes a title that a deck goes on playing out of PLAYING | the invariant after the step |
| `TransitionInvariant` | types, fader threads, gates and mutes, under any commands and faults | see below |
| `TransitionTypes` | decks, transition, rows and jobs keep their shape | |
| `HandoverOpens` | a deck is mixed out only when the other one is open | at the step to `finish` the fader is on the incoming side and that deck is neither gated nor muted |
| `CalmInvariant` | the account of what is prepared, playing, ended and heard, until the first command | see below |
| `OutgoingIsHeard` | the outgoing deck is audible while the incoming one is awaited | what is mixed out is ungated and unmuted, with the fader on its side |
| `PlayedHasBeenHeard` | only what was heard becomes PLAYED | a conjunct of the invariant |
| `SettledInvariant` | titles, decks and coordinators of titles mixed out agree, under any commands and faults | see below |
| `PublishedIsAfterBoth` | the automatic load after a handover is published when the title mixed out is no longer PLAYING and its backend silent | the second of the two results finds what the first has established |

`DrainedStaysQuiet` is not inductive: it says nothing about `accepting` while a
thread sits in `submit`. `ExecutorInvariant` adds `GateOK` (the gate is shut from
block to resume, and only a claimed finalizer is handed over), `QueueOK` (the
work queue holds exactly the waiting jobs, each once, which is needed so that
starting one changes one call) and the accounting itself.

`RemovedIsFinal` needs `TypeOK`'s second half: what is about to be written was
allowed from the status it saw. `OneActivePerDeck` is inductive with the types.

`QuietExchange` needs what each phase has established so far: after blocking
participant i all up to i are closed (`Stopping`), after draining i none of them
has a job, and a closed participant without a job stays so, because `Submit`
asks for an open gate; a resume opens from the last to the first (`Resuming`);
an adapter that is quiesced between two operations is still stopped (`Stopped`),
which is why a second operation may skip the phases.

The writers of a plan share no lock, only its revision. `PlanInv` therefore says of
everybody who holds a plan that it is one that exists, with a revision it has had
(`HoldsPlan`), and a title that is still planned if that revision has not moved
(`HoldsTitle`); whoever has seen the plan ACTIVE may rely on it under the same
condition (`SeenActive`). It survives because no statement changes a plan without
raising the revision (`Grows`). A plan becomes one that can go on only where the
unique index of the session lets it, or in exchange for the one that ends in the
same transaction.

`KeptUntilVerified` and `FailureRestoresAll` speak of the files at one moment; the
invariant says at each step of the exchange and of its rollback what is at the
active name, beside it and in the rollback slots: the base is at its place or in
the slot taken for it until the restored file has been verified, and the log moves
before the base that it belongs to. Renames that fail leave the step where it was,
which is why the phases can be told apart at all.

`OneAccount` needs that an evaluation and the transaction after it find the same
plan. A DRAFT that was looked at, a step that was evaluated or a plan that was found
to be complete is remembered with the revision; `AccountInv` says that at an
unchanged revision what was seen is still so. "Complete" then finds nothing planned,
an ended plan plans nothing, and each entry is linked from exactly one step, which
no crash between two statements can undo.

A tick of the metadata analysis reads the coordinator's job, polls the supervisor and
writes the row in three steps, and the drain of a restore ticks from another thread.
While nobody ticks beside the GUI, commands wait for the GUI's tick to return, so the
job it handles is the coordinator's and the supervisor's all along (`Solo`); when the
drain has begun, the job may have been finished by the other tick, and `Alone` says
which of the two may still write. `CompletedIsStored` and `RunningIsOwned` follow.

In the audio recovery the three threads are single because `MainController` starts one
only if its flag (`repairing`, `requested`, `acting`) is not set, and clears it with
the thread's end. A thread that rests holds no lock; the locks of one that runs
depend on its step alone. The emergency player is muted from the beginning of a
transition to its confirmation. A backend that was built is in the hands of the
global repair from build to release, otherwise a player's. For this last part the
theorem assumes that `ReleaseFaults` has "late" at most: where a release is refused or
never starts the code itself forgets the backend.

In the preload there is one job or callback of the current generation at most, only
cleanups wait behind it, and the entry that a marked job, its callback or its
commit is about is PREPARING for that deck, or the operator has taken it out of
PREPARING for good (`LineInv`). It holds for all commands, stages and failures,
because whoever makes a new generation makes everything before it old. When a
medium is adopted the queue cache must not conflict, and the cache can know nothing
of the entry but that it was waiting, is PREPARING, or was removed. An entry that is
skipped first and removed then is the exception of `NothingStaleIsAdopted`; TLC shows
that it is one.

What queue and decks say of each other holds in a session (`Session`): the operator
skips titles and resumes the run, a preparation may outlast its timeout, media fail,
and the executor has its two places or more. This is `preload_session` for any number
of titles and any bound on waiting callbacks. Outside of it the properties are false
of the code: section 3 lists the windows that a manual load, start, move or retry
opens. The invariant has two halves, and neither is inductive without the other.
`Titles` says what is true of a title: what a deck shows, in each of its
phases, is in the queue as PREPARING, READY, PLAYING or ended (`Shows`); READY is
loaded where the row says, PLAYING plays there or its end is under way (`Rowed`); an
end under way is that of a title that no deck plays any more (`Committed`); what is
mixed out was started on that deck (`Mixed`); and the queue cache does not take for
ended what waits or is prepared (`Cached`). `Pipe` says what the one line of work
may rely on: the PREPARING entry is the one the timer is set for (`Preparing`,
`Timed`), and for each stage of a job and each kind of callback, what it has checked
so far is still so (`Lined`), a deck seen free among it. A deck that was free stays so
because only the line itself fills one, and a title that ends leaves the deck
before its row does. The proof goes handler by handler: for each it says which rows
and which decks it changes, and what is true of a title survives where neither has.

The handover is proved in three layers. `Good` holds whatever the operator does: a fader
thread works only in a crossfade, towards the incoming deck, and only once everything
that older threads had in hand is written, so when it is done the fader is on the
incoming side and stays there; a transition runs only while the automatic run does; a
muted deck holds the run back. That is enough for `HandoverIsOpen`, of which the
dangerous part is the write of an older fader thread that comes after the newer one has
finished. `Calm` is the account of everything else until the operator gives the first
command, the case in which the code alone decides: preparation is one line of work (a
job, a callback or a commit of it) that exists only between handovers; between
handovers what plays is open with the fader on its side, unless its backend is dead; in
a handover nothing is prepared and both decks are taken; and what played, ended, awaits
its commit or is PLAYED was heard, the incoming deck of a handover excepted, which may
play before the fader lets it be heard. `PlayedWasHeard` cannot be proved from the rows
alone: a title becomes PLAYED by a commit that may be older than the handover which is
under way, hence the part about commits and ended decks.

`PublishedAfterBoth` speaks of a deck that other titles may use by the time the
coordinator publishes, and of operators who load, stop, eject and play in between. Its
invariant is `Settled`, kept by every handler under any commands and faults. A title is on
one deck, and its row does not offer it again (`Loaded`, with `Adopting` and `Committing`
for titles on their way to a deck); a transition mixes out what the deck had when it began
(`MixesOut`); and a title that was mixed out stays out, and while its row is still PLAYING
on the deck it left that deck stays empty, and silent from the cleanup on (`MixedOut`,
`Awaited`). The deck cannot be filled meanwhile because the unique index refuses a second
active entry, and a manual load skips the row. When the commit's result is the second,
the cleanup has silenced the deck and nothing could start there; when the
cleanup's is, it silences the deck itself and the commit has been "ok" before, so
the row has left PLAYING and no path brings it back. Most handlers only take away (`Kept`);
only the two executors' results can publish (`Keeps`).

Assumptions are those of the modules: finite sets of calls, positive numbers
of workers, participants, slots, plans and titles, disjoint names, backends enough for
the players of the start; `OneFinalizer` for the refinement, and the three hypotheses
above (`ReleaseFaults`, skip and remove, `Session`). TLC evaluates the modules' assumptions in the runs.

Only model-checked: liveness under fairness, leads-to properties among it, and the
liveness half of the refinement (the prover has no ENABLED). Every invariant and every
action property of a passing run is a theorem. Induction over data is out of the prover's
reach and not needed so far.

## 5. Not modelled, and why

- Selection rules, scoring, metadata of tracks, loudness, equalizer, cue points:
  functions of data without a protocol.
- libVLC, ffmpeg, the file system below a rename, SQLite's own atomicity: external.
- User interface, settings, catalog, playlists, diagnostics: data handling. They
  are the larger part of the source by lines, and what their code decides over
  time is in the modules above as commands of the operator.
- The dispatcher's coalescing, history and listening events, backup retention:
  modellable, not done yet; see the plan.
- Within `main_controller.py`: volumes, statistics, covers, the one-deck emergency
  fade, titles that are shorter than the crossfade.
- Within the selection plan: the adoption of a preview as a fixed queue,
  `invalidate_remaining`, which no path of the model calls, two decisions of the
  operator at once, a pause of the whole run.
- Within audio recovery: the levels of output monitoring, the persisted emergency
  playlist and its order, the waits between attempts.
- Within the metadata analysis: the analysis itself, and the reasons for which a
  tick may decline to start (playback, recovery, maintenance): it may or may not.

## 6. Plan

Done: executor with its refinement, automatic preload, transition, queue
lifecycle, restore, audio recovery, metadata analysis, selection plan; proofs
about all of them.

Proofs to come: none of a property that a run checks; the models below, each with its
own.

Models to come: `GuiEventDispatcher` (coalescing against a FIFO as its abstract
specification), backup operations against the retention, and `AutomaticPreload`
refined by an abstract promise of a preload: at most one current, adopted or given up.
