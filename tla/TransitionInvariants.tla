------------------------ MODULE TransitionInvariants ------------------------
(***************************************************************************)
(* The inductive invariants of Transition, on the record G that its        *)
(* handlers are functions on: Good and Settled hold whatever the operator  *)
(* does, Calm until the operator gives the first command.  Then what the   *)
(* handlers do to the parts of G that the invariants read, one relation    *)
(* between the record before and the record after for handlers alike.      *)
(***************************************************************************)
EXTENDS Transition

SomeDeck == Decks \cup {NoDeck}

\* A deck is empty or holds a title; its queue entry, if it has one, is that title.
DeckStates == {k \in [title : Nothing..Library, entry : Nothing..N, phase : Phases, backend : Backends,
                      gated : BOOLEAN, muted : BOOLEAN] :
                 k.entry \in {Nothing, k.title} /\ (k.title = Nothing <=> k.phase = "empty")}

\* What a transition waits for is decided by its state.
Handovers == {m \in [state : {"wait", "crossfade", "verify"}, out : Decks, in : Decks, title : 1..Library,
                     entry : Nothing..N, step : {"none", "poll", "render", "finish"}] :
                /\ m.in = Other(m.out)
                /\ m.state = "wait" => m.step \in {"none", "poll"}
                /\ m.state = "crossfade" => m.step = "render"
                /\ m.state = "verify" => m.step = "finish"}

Ramps == [on : BOOLEAN, armed : BOOLEAN, value : 0..3, target : 0..3]

Autos == [run : {"running", "paused", "stopped"}, held : SUBSET Decks, suppressed : SUBSET Decks,
          busy : BOOLEAN, gate : BOOLEAN]

Assignments == [status : Statuses, deck : SomeDeck]

Jobs == {j \in [kind : {"prepare", "commit", "cleanup"}, title : Nothing..Library, deck : SomeDeck, live : BOOLEAN] :
           /\ j.kind = "commit" => j.title \in Titles /\ j.deck \in Decks
           /\ j.kind = "cleanup" => j.title \in 1..Library /\ j.deck \in Decks}

Calls == {c \in [kind : {"finish", "refill", "autoload", "adopt", "failed", "missed", "followup"},
                 title : Nothing..Library, deck : SomeDeck] :
            /\ c.kind = "finish" => c.deck \in Decks
            /\ c.kind = "autoload" => c.title \in 1..Library /\ c.deck \in Decks
            /\ c.kind \in {"adopt", "failed"} => c.title \in Titles /\ c.deck \in Decks}

Ends == [title : Titles, deck : Decks, live : BOOLEAN, coord : BOOLEAN]
Results == {"none", "open", "ok", "failed"}

Coords == {k \in [cleanup : Results, commit : Results, published : BOOLEAN, live : BOOLEAN, deck : SomeDeck] :
             k.cleanup # "none" \/ k.commit # "none" => k.deck \in Decks}

Conditions == [deck : [Decks -> DeckStates], fader : 0..3, tr : {NoTransition} \cup Handovers, ramp : Ramps,
           late : SUBSET (0..3), auto : Autos, row : [Titles -> Assignments], pool : Seq(Jobs),
           calls : SUBSET Calls, commits : Seq(Ends), coord : [1..Library -> Coords]]

\* A fader thread works only in a crossfade, towards the incoming deck, and only when what older
\* threads had in hand is written; so when it is done the fader is there, and stays there.
Faded(g) ==
  /\ g.ramp.armed => g.ramp.on /\ g.late = {}
  /\ g.ramp.on => g.tr.state = "crossfade" /\ g.ramp.target = Side(g.tr.in)
  /\ g.tr.state = "verify" \/ (g.tr.state = "crossfade" /\ ~g.ramp.on)
       => g.fader = Side(g.tr.in) /\ g.late = {}

\* Nobody hands over in a pause, to a gated deck; and a muted deck keeps the run from going on.
Opened(g) ==
  /\ g.tr.state # "idle" => g.auto.run = "running"
  /\ g.tr.state \in {"crossfade", "verify"} => ~g.deck[g.tr.in].gated
  /\ \A d \in Decks : g.deck[d].muted => g.auto.gate /\ g.auto.run # "running"

Good(g) == g \in Conditions /\ Len(g.pool) <= 2 /\ Faded(g) /\ Opened(g)
----------------------------------------------------------------------------
(* Without the operator.                                                   *)

\* Jobs of the preload that still count, and callbacks that still answer them.
Working(g) == {i \in DOMAIN g.pool : g.pool[i].kind # "cleanup" /\ g.pool[i].live}

Answers(g) == {c \in g.calls : c.kind \in {"adopt", "failed", "missed", "followup"}}
Finishes(g) == {c \in g.calls : c.kind = "finish"}
Played(g) == {t \in Titles : g.row[t].status = "played"}

\* One search, preparation or commit at a time, and the controller knows of it.
OneLine(g) ==
  /\ Working(g) # {} \/ Answers(g) # {} => g.auto.busy
  /\ Working(g) = {} \/ Answers(g) = {}
  /\ \A i, j \in Working(g) : i = j
  /\ \A c, e \in Answers(g) : c = e

\* No fader thread outlives its crossfade; while the run goes on between two handovers a deck
\* that plays is open, with the fader on its side unless its backend is dead; and in a handover
\* nothing is prepared, both decks are taken, and what is mixed out stays where it was.
Steady(g) ==
  /\ g.late = {}
  /\ g.tr.state # "crossfade" => g.fader \in {0, 3}
  /\ g.tr.state = "idle" /\ g.auto.run = "running" =>
       \A d \in Decks : g.deck[d].phase = "playing" =>
         ~g.deck[d].gated /\ (g.deck[d].backend \in {"starting", "playing", "ended"} => g.fader = Side(d))
  /\ g.tr.state # "idle" =>
       /\ ~g.auto.busy /\ \A d \in Decks : g.deck[d].phase # "empty"
       /\ ~g.deck[g.tr.out].gated /\ g.deck[g.tr.out].title = g.tr.title /\ g.tr.entry \in {Nothing, g.tr.title}
       /\ g.deck[g.tr.in].phase = "playing" /\ g.deck[g.tr.in].backend # "ended"
  /\ g.tr.state = "wait" => g.fader = Side(g.tr.out)
  /\ g.tr.state \in {"crossfade", "verify"} => g.deck[g.tr.in].backend # "starting"

\* What has played or ended was heard, but for the incoming deck of a handover; what waits for
\* its end to be handled or committed, and what is PLAYED, was heard too.
Accounted(g, H) ==
  /\ \A d \in Decks :
       /\ g.deck[d].backend = "starting" => g.deck[d].phase = "playing" /\ g.auto.run = "running"
       /\ g.deck[d].title # Nothing /\ g.deck[d].backend \in {"playing", "ended"} /\ d # g.tr.in => g.deck[d].title \in H
       /\ g.deck[d].phase = "finished" => g.deck[d].title \in H
  /\ g.tr.state \in {"crossfade", "verify"} \/ (g.tr.state = "wait" /\ g.deck[g.tr.in].backend \in {"starting", "playing"})
       => g.deck[g.tr.out].backend # "starting" /\ g.tr.title \in H
  /\ \A c \in Finishes(g) : c.title = Nothing /\ g.deck[c.deck].phase = "finished"
  /\ Ending(g) \subseteq H /\ Played(g) \subseteq H

\* What is audible is among the titles of H.
Hears(g, H) == \A d \in Decks : Audible(g, d) /\ g.deck[d].title # Nothing => g.deck[d].title \in H

Calm(g, H) == Good(g) /\ OneLine(g) /\ Steady(g) /\ Accounted(g, H)

\* What may still occur; only a command makes the operator known.
Budget == todo \in [AllCommands \cup AllFaults -> Nat]

\* As long as the operator gives no command: one line of preparation at a time, in the idle
\* intervals only; what plays is open with the fader on its side; and everything that played,
\* ended, awaits its commit or is PLAYED was heard.
CalmUntilOperated == Budget /\ Good(G) /\ (~operated => Calm(G, heard))
----------------------------------------------------------------------------
(* Whose title is where, whatever the operator does.                       *)

CommitJobs(g) == {g.pool[i] : i \in {k \in DOMAIN g.pool : g.pool[k].kind = "commit" /\ g.pool[k].live}}
Cleanups(g) == {g.pool[i] : i \in {k \in DOMAIN g.pool : g.pool[k].kind = "cleanup"}}
Adoptions(g) == {c \in g.calls : c.kind = "adopt"}
MixedEnds(g) == {<<g.commits[i].title, g.commits[i].deck>> : i \in {k \in DOMAIN g.commits : g.commits[k].coord}}

\* A title is on one deck and was not mixed out from another; its row does not offer it again.
Loaded(g) ==
  \A d \in Decks, t \in Titles : g.deck[d].title = t =>
    /\ g.deck[Other(d)].title # t /\ g.coord[t].cleanup = "none"
    /\ g.row[t].status # "waiting" /\ g.row[t].deck \in {d, NoDeck}
    /\ g.row[t].status = "ready" => g.row[t].deck = d
    /\ g.deck[d].phase \in {"playing", "paused", "finished"} /\ ~g.deck[d].muted => g.row[t].status # "ready"
    /\ g.deck[d].entry = Nothing => g.row[t].status \notin {"ready", "playing"}

\* A medium that is prepared belongs to a title that is nowhere yet and to a deck without one.
Adopting(g) ==
  \A c \in Adoptions(g) :
    /\ g.deck[c.deck].title = Nothing /\ g.coord[c.title].cleanup = "none"
    /\ \A d \in Decks : g.deck[d].title # c.title
    /\ g.row[c.title].status \notin {"waiting", "ready", "playing"} /\ g.row[c.title].deck \in {c.deck, NoDeck}
    /\ \A t \in Titles : g.row[t] # [status |-> "playing", deck |-> c.deck]

\* A preload is committed for a title that its deck has loaded, or has lost since.
Committing(g) ==
  \A j \in CommitJobs(g) :
    /\ g.coord[j.title].cleanup = "none" /\ g.deck[Other(j.deck)].title # j.title
    /\ g.deck[j.deck].title = j.title => g.deck[j.deck].entry = j.title /\ g.deck[j.deck].phase = "loaded"
    /\ g.row[j.title].status \notin {"ready", "playing"}

\* A title that was mixed out is not played again; until its end is committed its deck stays
\* empty, and silent from the cleanup on.
MixedOut(g) ==
  \A t \in Titles : g.coord[t].cleanup # "none" =>
    /\ g.row[t].status \notin {"waiting", "ready"}
    /\ g.coord[t].commit = "ok" => g.row[t].status # "playing"
    /\ g.row[t] = [status |-> "playing", deck |-> g.coord[t].deck] =>
         /\ g.deck[g.coord[t].deck].title = Nothing
         /\ g.coord[t].cleanup = "ok" => g.deck[g.coord[t].deck].backend = "silent"

\* Cleanup and commit of a mixed out title are about the deck its coordinator waits for.
Awaited(g) ==
  /\ \A j \in Cleanups(g) : j.title \in Titles => g.coord[j.title].cleanup # "none" /\ g.coord[j.title].deck = j.deck
  /\ \A e \in MixedEnds(g) : g.coord[e[1]].cleanup # "none" /\ g.coord[e[1]].deck = e[2]

Ledger(g) == Loaded(g) /\ Adopting(g) /\ Committing(g) /\ MixedOut(g) /\ Awaited(g)

\* What a transition mixes out is what the deck had when it began.
MixesOut(g) ==
  g.tr.state # "idle" =>
    /\ g.deck[g.tr.out].title = g.tr.title /\ g.deck[g.tr.out].entry = g.tr.entry
    /\ g.deck[g.tr.out].phase \in {"playing", "paused", "finished"}

Settled(g) == OneLine(g) /\ Ledger(g) /\ MixesOut(g)
----------------------------------------------------------------------------
(* What the handlers change.                                               *)

\* The step leaves the handover as it was, and gates or mutes no deck.
Aside(g, h) ==
  /\ h \in Conditions /\ Len(h.pool) <= 2
  /\ h.fader = g.fader /\ h.tr = g.tr /\ h.ramp = g.ramp /\ h.late = g.late
  /\ h.auto.run = g.auto.run /\ h.auto.gate = g.auto.gate
  /\ \A d \in Decks : (h.deck[d].gated => g.deck[d].gated) /\ (h.deck[d].muted => g.deck[d].muted)

\* Decks, rows, run and executors are as they were.
Elsewhere(g, h) ==
  /\ h.deck = g.deck /\ h.auto = g.auto /\ h.row = g.row /\ h.pool = g.pool /\ h.calls = g.calls
  /\ h.commits = g.commits /\ h.coord = g.coord

Ended(g, h) ==
  /\ h \in Conditions /\ h.tr = NoTransition /\ h.ramp = NoRamp /\ Elsewhere(g, h) /\ h.fader = g.fader

\* A gate is opened or shut, a fader moved, while nothing is handed over.
Placed(g, d, b, x) == [[g EXCEPT !.deck[d] = [g.deck[d] EXCEPT !.gated = b]] EXCEPT !.fader = x]

Placing(g, d, b, x, h) ==
  /\ Good(h) /\ h.tr = NoTransition
  /\ h.deck = [g.deck EXCEPT ![d] = [g.deck[d] EXCEPT !.gated = b]]
  /\ h.fader = x /\ h.ramp = g.ramp /\ h.late = g.late /\ h.auto = g.auto /\ h.row = g.row
  /\ h.pool = g.pool /\ h.calls = g.calls /\ h.commits = g.commits /\ h.coord = g.coord

\* Only the deck d is another, as k is.
Redecked(g, d, k, h) ==
  /\ Aside(g, h) /\ Good(h) /\ h.deck = [g.deck EXCEPT ![d] = k] /\ h.row = g.row /\ h.auto = g.auto
  /\ h.pool = g.pool /\ h.calls = g.calls /\ h.commits = g.commits /\ h.coord = g.coord

\* Only the coordinators and the callbacks they publish are others.
Reporting(g, h) ==
  /\ Aside(g, h) /\ Good(h) /\ h.deck = g.deck /\ h.row = g.row /\ h.auto = g.auto /\ h.pool = g.pool
  /\ h.commits = g.commits /\ g.calls \subseteq h.calls
  /\ \A c \in h.calls : c \in g.calls \/ c.kind = "autoload"

Paused(k) == [k EXCEPT !.phase = "paused", !.backend = "held"]

\* A pause holds what plays, if it holds the sound, and outdates the preload.
Pausing(g, audio, h) ==
  /\ Good(h) /\ h.tr = NoTransition /\ h.fader = g.fader /\ h.row = g.row /\ h.commits = g.commits /\ h.coord = g.coord
  /\ h.auto.run = "paused" /\ h.auto.gate = g.auto.gate /\ h.auto.busy = FALSE
  /\ ~audio => h.deck = g.deck
  /\ \A d \in Decks : h.deck[d].phase = "empty" <=> g.deck[d].phase = "empty"
  /\ Working(h) = {} /\ Answers(h) = {} /\ Finishes(h) = Finishes(g)
  /\ g.tr.state = "idle" => h.late = g.late

\* Unmuted and ungated, a deck is open.
Reopened(k) == [k EXCEPT !.gated = FALSE, !.muted = FALSE]

Restoring(g, out, h) ==
  /\ Good(h) /\ h.deck = [g.deck EXCEPT ![out] = Reopened(g.deck[out])] /\ h.fader = Side(out) /\ h.tr = g.tr
  /\ h.ramp = g.ramp /\ h.late = g.late /\ h.auto = g.auto /\ h.row = g.row /\ h.pool = g.pool /\ h.calls = g.calls
  /\ h.commits = g.commits /\ h.coord = g.coord

\* The state in which the preload goes on after a title that would not start was skipped.
Skipping(g, w) ==
  /\ Good(w) /\ w.tr = NoTransition /\ w.fader = Side(g.tr.out) /\ w.late = g.late /\ w.auto.run = "running"
  /\ w.auto.busy = FALSE /\ Working(w) = {} /\ Answers(w) = {} /\ Finishes(w) = Finishes(g)
  /\ Ending(w) = Ending(g) /\ Played(w) \subseteq Played(g)
  /\ w.deck[g.tr.out] = Reopened(g.deck[g.tr.out])
  /\ \/ w.deck[g.tr.in] = Reopened(g.deck[g.tr.in])
     \/ w.deck[g.tr.in] = Reopened([EmptyDeck(g.deck[g.tr.in]) EXCEPT !.backend = "silent"])

\* The run is held back with the incoming deck muted, what was mixed out is heard on.
Losing(g, h) ==
  /\ Good(h) /\ h.tr = NoTransition /\ h.fader = Side(g.tr.out) /\ h.late = g.late /\ h.auto.run = "paused"
  /\ Working(h) = {} /\ Answers(h) = {} /\ Finishes(h) = Finishes(g)
  /\ Ending(h) = Ending(g) /\ Played(h) \subseteq Played(g)
  /\ h.deck = [g.deck EXCEPT ![g.tr.out] = Reopened(g.deck[g.tr.out]),
                             ![g.tr.in] = [g.deck[g.tr.in] EXCEPT !.muted = TRUE]]

\* The end of the title t is handed over to the persistence executor.
Persisting(g, t, h) ==
  /\ Good(h) /\ h.deck = g.deck /\ h.fader = g.fader /\ h.tr = g.tr /\ h.late = g.late /\ h.auto = g.auto
  /\ h.pool = g.pool /\ h.calls = g.calls /\ h.row = g.row /\ h.ramp = g.ramp
  /\ Ending(h) \subseteq Ending(g) \cup ({t} \ {Nothing})

\* A backend goes over to another state.
Switching(g, h, d, to) ==
  /\ Good(h) /\ h.fader = g.fader /\ h.tr = g.tr /\ h.late = g.late /\ h.auto = g.auto
  /\ h.row = g.row /\ h.pool = g.pool /\ h.calls = g.calls /\ h.commits = g.commits
  /\ \A x \in Decks : /\ h.deck[x].phase = g.deck[x].phase /\ h.deck[x].title = g.deck[x].title
                      /\ h.deck[x].gated = g.deck[x].gated /\ h.deck[x].muted = g.deck[x].muted
                      /\ h.deck[x].backend = IF x = d THEN to ELSE g.deck[x].backend

\* Nothing new: decks keep their titles or lose them, rows keep their status or end, jobs and
\* callbacks are done or dropped.
KeptDeck(g, h, d) ==
  LET k == g.deck[d]
      m == h.deck[d]
  IN  /\ m.title \in {Nothing, k.title}
      /\ m.title # Nothing =>
           /\ m.entry = k.entry /\ (k.muted => m.muted)
           /\ m.phase \in {"playing", "paused", "finished"} => k.phase \in {"playing", "paused", "finished"}
           /\ k.phase = "loaded" => m.phase = "loaded" \/ CommitJobs(h) = {}
      /\ k.title = Nothing /\ k.backend = "silent" => m.backend = "silent"

KeptRow(g, h, t) ==
  \/ h.row[t] = g.row[t]
  \/ h.row[t].status \in {"skipped", "played", "failed"} /\ h.row[t].deck \in {NoDeck, g.row[t].deck}

Kept(g, h) ==
  /\ \A d \in Decks : KeptDeck(g, h, d)
  /\ \A t \in Titles : /\ KeptRow(g, h, t)
                       /\ h.coord[t].cleanup = g.coord[t].cleanup /\ h.coord[t].commit = g.coord[t].commit
                       /\ h.coord[t].deck = g.coord[t].deck
  /\ CommitJobs(h) \subseteq CommitJobs(g) /\ Cleanups(h) \subseteq Cleanups(g)
  /\ Adoptions(h) \subseteq Adoptions(g) /\ MixedEnds(h) \subseteq MixedEnds(g)

\* What a deck that starts changes, with n for the ends that are under way.
StartDoes(g, d, n, h) ==
  LET t == g.deck[d].entry
      startable == t # Nothing /\ g.row[t].status \in {"ready", "playing", "played"}
  IN  /\ h.deck = [g.deck EXCEPT ![d] = [g.deck[d] EXCEPT !.phase = "playing", !.backend = "starting",
                                                          !.entry = IF startable THEN t ELSE Nothing]]
      /\ h.row = IF startable THEN [g.row EXCEPT ![t].status = "playing"] ELSE g.row
      /\ h.tr = g.tr /\ h.auto = g.auto /\ h.pool = g.pool /\ h.calls = g.calls
      /\ h.coord = n.coord /\ h.commits = n.commits

\* What the completion changes: the deck is detached, its cleanup and the end of its entry are
\* under way, and the coordinator of its title waits for both.
Completing(g, h) ==
  LET d == g.tr.out
      t == g.tr.title
  IN  /\ Good(h) /\ h.tr = NoTransition /\ h.row = g.row /\ Answers(h) = Answers(g) /\ h.auto = g.auto
      /\ h.deck = [g.deck EXCEPT ![d] = EmptyDeck(g.deck[d])]
      /\ h.coord = [g.coord EXCEPT ![t] = [cleanup |-> "open", commit |-> IF g.tr.entry = Nothing THEN "ok" ELSE "open",
                                           published |-> FALSE, live |-> TRUE, deck |-> d]]
      /\ h.pool = g.pool \/ h.pool = Append(g.pool, Job("cleanup", t, d))
      /\ h.commits = IF g.tr.entry = Nothing THEN g.commits
                     ELSE Append(g.commits, [title |-> g.tr.entry, deck |-> d, live |-> TRUE, coord |-> TRUE])

\* The first result of a part counts, and both parts together publish.
Reports(g, h, t, part, result) ==
  /\ Reporting(g, h) /\ h.coord \in [1..Library -> Coords]
  /\ \A u \in 1..Library : u # t => h.coord[u] = g.coord[u]
  /\ h.coord = g.coord \/
       /\ g.coord[t][part] = "open" /\ h.coord[t].deck = g.coord[t].deck
       /\ h.coord[t].cleanup = IF part = "cleanup" THEN result ELSE g.coord[t].cleanup
       /\ h.coord[t].commit = IF part = "commit" THEN result ELSE g.coord[t].commit
       /\ h.coord[t].published => g.coord[t].published \/ (h.coord[t].cleanup = "ok" /\ h.coord[t].commit = "ok")

\* Whatever the step publishes is so: the title is not played, its deck is silent.
Published(g, h) ==
  \A t \in Titles : h.coord[t].published /\ ~g.coord[t].published
    => h.row[t].status # "playing" /\ h.deck[g.coord[t].deck].backend # "playing"

\* No title is published that was not before.
Keeps(g, h) ==
  "coord" \in DOMAIN g /\ g.coord \in [1..Library -> Coords] =>
    /\ "coord" \in DOMAIN h /\ h.coord \in [1..Library -> Coords]
    /\ \A t \in Titles : h.coord[t].published => g.coord[t].published
=============================================================================
