--------------------------- MODULE TransitionProof ---------------------------
(***************************************************************************)
(* Proofs about Transition, for any queue and any number of commands and   *)
(* faults.  Every handler is a function on the record G, so each lemma is  *)
(* about one function: what it does to the parts of the record that the    *)
(* invariants read, and that it keeps them.  First the invariant Good,     *)
(* which holds whatever the operator does; then Calm, which holds until    *)
(* the operator gives the first command; then Settled, the account of      *)
(* titles, decks and coordinators that holds beside Good all along.        *)
(***************************************************************************)
EXTENDS TransitionInvariants, WellFoundedInduction, TLAPS
----------------------------------------------------------------------------
(* What changes nothing of a handover.                                     *)

LEMMA Constants ==
  /\ N \in Nat /\ N > 1 /\ Titles = 1..N /\ Library = N + 1 /\ Nothing = 0
  /\ Decks = {"A", "B"} /\ NoDeck \notin Decks
  /\ \A d \in Decks : Other(d) \in Decks /\ Other(d) # d /\ Other(Other(d)) = d /\ Side(d) \in 0..3
BY TransitionAssumption DEF Titles, Library, Nothing, Decks, NoDeck, Other, Side

LEMMA GIs ==
  /\ G.deck = deck /\ G.fader = fader /\ G.tr = tr /\ G.ramp = ramp /\ G.late = late /\ G.auto = auto
  /\ G.row = row /\ G.pool = pool /\ G.calls = calls /\ G.commits = commits /\ G.coord = coord
BY DEF G

LEMMA Parts ==
  ASSUME NEW g \in Conditions
  PROVE  /\ g.deck \in [Decks -> DeckStates] /\ g.fader \in 0..3 /\ g.tr \in {NoTransition} \cup Handovers
         /\ g.ramp \in Ramps /\ g.late \in SUBSET (0..3) /\ g.auto \in Autos /\ g.row \in [Titles -> Assignments]
         /\ g.pool \in Seq(Jobs) /\ g.calls \in SUBSET Calls /\ g.commits \in Seq(Ends)
         /\ g.coord \in [1..Library -> Coords]
BY DEF Conditions

LEMMA AsideGood ==
  ASSUME NEW g, NEW h, Good(g), Aside(g, h)
  PROVE  Good(h)
<1>1. Faded(h)
  BY DEF Good, Aside, Faded
<1>2. Opened(h)
  <2>1. g.tr.state \in {"crossfade", "verify"} => g.tr.in \in Decks
    BY Parts DEF Good, Handovers, NoTransition
  <2> QED  BY <2>1 DEF Good, Aside, Opened
<1> QED  BY <1>1, <1>2 DEF Good, Aside

LEMMA AsideAgain ==
  ASSUME NEW g, NEW h, NEW k, Aside(g, h), Aside(h, k)
  PROVE  Aside(g, k)
BY DEF Aside

LEMMA AsideOften ==
  ASSUME NEW g, NEW h, NEW k, Good(g), Aside(g, h), Good(h) => Aside(h, k)
  PROVE  Aside(g, k) /\ Good(k)
BY AsideAgain, AsideGood

\* A new generation of the preload, a job for its executor.
LEMMA OutdateAside ==
  ASSUME NEW g, Good(g)
  PROVE  /\ Aside(g, OutdatePreload(g)) /\ OutdatePreload(g).deck = g.deck /\ OutdatePreload(g).row = g.row
         /\ OutdatePreload(g).auto = [g.auto EXCEPT !.busy = FALSE]
         /\ Len(OutdatePreload(g).pool) = Len(g.pool) /\ OutdatePreload(g).calls \subseteq g.calls
         /\ OutdatePreload(g).commits = g.commits /\ OutdatePreload(g).coord = g.coord
<1> DEFINE a == [g.auto EXCEPT !.busy = FALSE]
           p == [i \in DOMAIN g.pool |-> IF g.pool[i].kind = "cleanup" THEN g.pool[i]
                                         ELSE [g.pool[i] EXCEPT !.live = FALSE]]
           c == {x \in g.calls : x.kind \in {"finish", "refill", "autoload"}}
<1>1. g \in Conditions /\ Len(g.pool) <= 2
  BY DEF Good
<1>2. a \in Autos /\ a.run = g.auto.run /\ a.gate = g.auto.gate
  BY <1>1, Parts DEF Autos
<1>3. p \in Seq(Jobs) /\ Len(p) = Len(g.pool)
  <2>1. g.pool \in Seq(Jobs) /\ DOMAIN g.pool = 1..Len(g.pool) /\ Len(g.pool) \in Nat
    BY <1>1, Parts
  <2>2. ASSUME NEW i \in 1..Len(g.pool)
        PROVE  p[i] \in Jobs
    <3>1. g.pool[i] \in Jobs
      BY <2>1
    <3>2. ASSUME NEW j \in Jobs
          PROVE  [j EXCEPT !.live = FALSE] \in Jobs
      BY DEF Jobs
    <3> QED  BY <2>1, <3>1, <3>2
  <2>3. p = [i \in 1..Len(g.pool) |-> p[i]]
    BY <2>1
  <2> HIDE DEF p
  <2> QED  BY <2>1, <2>2, <2>3
<1>4. c \in SUBSET Calls
  BY <1>1, Parts
<1>5. OutdatePreload(g) = [[[g EXCEPT !.auto = a] EXCEPT !.pool = p] EXCEPT !.calls = c]
  BY <1>1 DEF OutdatePreload, Conditions
<1> HIDE DEF a, p, c
<1> QED  BY <1>1, <1>2, <1>3, <1>4, <1>5 DEF Aside, Conditions, a, c

LEMMA OutdateStops ==
  ASSUME NEW g, Good(g)
  PROVE  LET o == OutdatePreload(g)
         IN  Working(o) = {} /\ Answers(o) = {} /\ Finishes(o) = Finishes(g)
<1> DEFINE o == OutdatePreload(g)
           p == [i \in DOMAIN g.pool |-> IF g.pool[i].kind = "cleanup" THEN g.pool[i]
                                         ELSE [g.pool[i] EXCEPT !.live = FALSE]]
           c == {x \in g.calls : x.kind \in {"finish", "refill", "autoload"}}
<1>1. g \in Conditions /\ g.pool \in Seq(Jobs)
  BY Parts DEF Good
<1>2. o.pool = p /\ o.calls = c
  BY <1>1 DEF OutdatePreload, Conditions
<1>3. ASSUME NEW i \in DOMAIN p
      PROVE  p[i].kind = "cleanup" \/ p[i].live = FALSE
  <2>1. g.pool[i] \in Jobs
    BY <1>1
  <2> QED  BY <2>1 DEF Jobs
<1> HIDE DEF o, p
<1>4. Working(o) = {}
  BY <1>2, <1>3 DEF Working
<1>5. Answers(o) = {} /\ Finishes(o) = Finishes(g)
  BY <1>2 DEF Answers, Finishes
<1> QED  BY <1>4, <1>5 DEF o

LEMMA SubmitAside ==
  ASSUME NEW g, Good(g), NEW j \in Jobs
  PROVE  /\ Aside(g, Submit(g, j)) /\ Submit(g, j).deck = g.deck /\ Submit(g, j).row = g.row
         /\ Submit(g, j).auto = g.auto /\ Submit(g, j).calls = g.calls
         /\ Submit(g, j).commits = g.commits /\ Submit(g, j).coord = g.coord
<1>1. g \in Conditions /\ Len(g.pool) <= 2 /\ g.pool \in Seq(Jobs)
  BY Parts DEF Good
<1>2. CASE HasRoom(g)
  <2>1. Append(g.pool, j) \in Seq(Jobs) /\ Len(Append(g.pool, j)) <= 2
    BY <1>1, <1>2 DEF HasRoom
  <2> QED  BY <1>1, <1>2, <2>1 DEF Submit, Aside, Conditions
<1>3. CASE ~HasRoom(g)
  BY <1>1, <1>3 DEF Submit, Aside
<1> QED  BY <1>2, <1>3

LEMMA PrepareJob == Job("prepare", Nothing, NoDeck) \in Jobs
BY Constants DEF Jobs, Job, SomeDeck

LEMMA AutoLoadAside ==
  ASSUME NEW g, Good(g)
  PROVE  /\ Aside(g, AutoLoad(g)) /\ AutoLoad(g).deck = g.deck /\ AutoLoad(g).row = g.row
         /\ AutoLoad(g).commits = g.commits /\ AutoLoad(g).coord = g.coord /\ AutoLoad(g).calls \subseteq g.calls
<1> DEFINE o == OutdatePreload(g)
           s == Submit(o, Job("prepare", Nothing, NoDeck))
<1>1. Aside(g, o) /\ Good(o) /\ o.deck = g.deck /\ o.row = g.row /\ o.commits = g.commits /\ o.coord = g.coord
      /\ o.calls \subseteq g.calls
  BY OutdateAside, AsideGood
<1>2. Aside(g, g)
  BY DEF Aside, Good
<1>3. /\ Aside(g, s) /\ Good(s) /\ s.deck = g.deck /\ s.row = g.row /\ s.commits = g.commits /\ s.coord = g.coord
      /\ s.calls \subseteq g.calls
  BY <1>1, SubmitAside, PrepareJob, AsideAgain, AsideGood
<1> HIDE DEF s, o
<1>4. s \in Conditions /\ s.auto \in Autos
  BY <1>3, Parts DEF Good
<1> DEFINE a == [s.auto EXCEPT !.busy = TRUE]
           h == [s EXCEPT !.auto = a]
<1>5. a \in Autos /\ a.run = s.auto.run /\ a.gate = s.auto.gate
  BY <1>4 DEF Autos
<1>6. [s EXCEPT !.auto.busy = TRUE] = h
  BY <1>4 DEF Conditions
<1> HIDE DEF a
<1>7. Aside(s, h)
  BY <1>3, <1>4, <1>5 DEF Aside, Good, Conditions
<1>8. /\ h.deck = s.deck /\ h.row = s.row /\ h.commits = s.commits /\ h.coord = s.coord /\ h.calls = s.calls
  BY <1>4 DEF Conditions
<1>9. Aside(g, h)
  BY <1>3, <1>7, AsideAgain
<1> HIDE DEF h
<1>10. AutoLoad(g) \in {g, h, o}
  BY <1>6 DEF AutoLoad, o, s
<1> QED  BY <1>1, <1>2, <1>3, <1>8, <1>9, <1>10

\* What a new playback of a title makes of the ends that are under way.
LEMMA NewPlaybackAside ==
  ASSUME NEW g, Good(g), NEW t \in Nothing..Library
  PROVE  /\ Aside(g, NewPlayback(g, t)) /\ NewPlayback(g, t).deck = g.deck /\ NewPlayback(g, t).row = g.row
         /\ NewPlayback(g, t).auto = g.auto /\ NewPlayback(g, t).pool = g.pool /\ NewPlayback(g, t).calls = g.calls
         /\ Ending(NewPlayback(g, t)) = Ending(g)
<1> DEFINE m == [i \in DOMAIN g.commits |-> [g.commits[i] EXCEPT !.live = @ /\ g.commits[i].title # t]]
           c == [g.coord EXCEPT ![t].live = FALSE]
<1>1. g \in Conditions /\ Len(g.pool) <= 2
  BY DEF Good
<1>2. m \in Seq(Ends)
  <2>1. g.commits \in Seq(Ends) /\ DOMAIN g.commits = 1..Len(g.commits) /\ Len(g.commits) \in Nat
    BY <1>1, Parts
  <2>2. ASSUME NEW i \in 1..Len(g.commits)
        PROVE  m[i] \in Ends
    <3>1. g.commits[i] \in Ends
      BY <2>1
    <3>2. ASSUME NEW e \in Ends
          PROVE  [e EXCEPT !.live = @ /\ e.title # t] \in Ends
      BY DEF Ends
    <3> QED  BY <2>1, <3>1, <3>2
  <2>3. m = [i \in 1..Len(g.commits) |-> m[i]]
    BY <2>1
  <2> HIDE DEF m
  <2> QED  BY <2>1, <2>2, <2>3
<1>22. DOMAIN m = DOMAIN g.commits /\ \A i \in DOMAIN g.commits : m[i].title = g.commits[i].title
  <2>1. \A i \in DOMAIN g.commits : g.commits[i] \in Ends
    BY <1>1, Parts
  <2>2. \A e \in Ends : [e EXCEPT !.live = @ /\ e.title # t].title = e.title
    BY DEF Ends
  <2> QED  BY <2>1, <2>2
<1>3. c \in [1..Library -> Coords]
  <2>1. g.coord \in [1..Library -> Coords]
    BY <1>1, Parts
  <2>2. \A x \in Coords : [x EXCEPT !.live = FALSE] \in Coords
    BY DEF Coords
  <2> QED  BY <2>1, <2>2
<1>4. [g EXCEPT !.commits = m, !.coord[t].live = FALSE] = [[g EXCEPT !.commits = m] EXCEPT !.coord = c]
  BY <1>1 DEF Conditions
<1>7. NewPlayback(g, t) = IF t \notin Titles THEN g ELSE [g EXCEPT !.commits = m, !.coord[t].live = FALSE]
  BY DEF NewPlayback
<1> HIDE DEF m, c
<1>5. Aside(g, g)
  BY <1>1 DEF Aside
<1> DEFINE h == [[g EXCEPT !.commits = m] EXCEPT !.coord = c]
<1>6. Aside(g, h) /\ h.deck = g.deck /\ h.row = g.row /\ h.auto = g.auto /\ h.pool = g.pool /\ h.calls = g.calls
      /\ h.commits = m
  BY <1>1, <1>2, <1>3 DEF Aside, Conditions
<1> HIDE DEF h
<1>8. NewPlayback(g, t) \in {g, h}
  BY <1>4, <1>7 DEF h
<1>9. Ending(h) = Ending(g)
  BY <1>22, <1>6 DEF Ending
<1> QED  BY <1>5, <1>6, <1>8, <1>9

\* A deck in another condition: as it is not gated or muted, the handover is as it was.
LEMMA DeckAside ==
  ASSUME NEW g, Good(g), NEW d \in Decks, NEW k \in DeckStates, k.gated => g.deck[d].gated, k.muted => g.deck[d].muted
  PROVE  Aside(g, [g EXCEPT !.deck[d] = k])
<1>1. g \in Conditions /\ g.deck \in [Decks -> DeckStates]
  BY Parts DEF Good
<1>2. [g.deck EXCEPT ![d] = k] \in [Decks -> DeckStates]
  BY <1>1
<1>3. [g EXCEPT !.deck[d] = k] = [g EXCEPT !.deck = [g.deck EXCEPT ![d] = k]]
  BY <1>1 DEF Conditions
<1> QED  BY <1>1, <1>2, <1>3 DEF Aside, Conditions, Good

LEMMA StartedDeck ==
  ASSUME NEW k \in DeckStates, k.phase # "empty", NEW e \in {k.entry, Nothing}
  PROVE  LET p == [k EXCEPT !.phase = "playing", !.backend = "starting", !.entry = e]
         IN  p \in DeckStates /\ p.gated = k.gated /\ p.muted = k.muted
<1> DEFINE p == [k EXCEPT !.phase = "playing", !.backend = "starting", !.entry = e]
<1>1. k.title # Nothing /\ k.entry \in {Nothing, k.title} /\ k.title \in Nothing..Library /\ e \in Nothing..N
      /\ k.entry \in Nothing..N /\ e \in {Nothing, k.title}
  BY Constants DEF DeckStates
<1>2. /\ p.title = k.title /\ p.entry = e /\ p.phase = "playing" /\ p.gated = k.gated /\ p.muted = k.muted
      /\ p \in [title : Nothing..Library, entry : Nothing..N, phase : Phases, backend : Backends,
               gated : BOOLEAN, muted : BOOLEAN]
  BY <1>1 DEF DeckStates, Phases, Backends
<1> HIDE DEF p
<1>3. p \in DeckStates
  BY <1>1, <1>2 DEF DeckStates
<1> QED  BY <1>2, <1>3 DEF p

\* A deck starts to play.
LEMMA StartDeckAside ==
  ASSUME NEW g, Good(g), NEW d \in Decks, g.deck[d].phase # "empty"
  PROVE  /\ Aside(g, StartDeck(g, d))
         /\ \E e \in {g.deck[d].entry, Nothing} :
              StartDeck(g, d).deck = [g.deck EXCEPT ![d] = [g.deck[d] EXCEPT !.phase = "playing",
                                                            !.backend = "starting", !.entry = e]]
         /\ StartDeck(g, d).auto = g.auto /\ StartDeck(g, d).pool = g.pool /\ StartDeck(g, d).calls = g.calls
         /\ Ending(StartDeck(g, d)) = Ending(g)
         /\ Played(StartDeck(g, d)) \subseteq Played(g)
<1> DEFINE t == g.deck[d].entry
           startable == t # Nothing /\ g.row[t].status \in {"ready", "playing", "played"}
           e == IF startable THEN t ELSE Nothing
           k == [g.deck[d] EXCEPT !.phase = "playing", !.backend = "starting", !.entry = e]
           n == NewPlayback(g, t)
           h == [n EXCEPT !.deck[d] = k]
           r == [g.row EXCEPT ![t].status = "playing"]
<1>1. g \in Conditions /\ g.deck \in [Decks -> DeckStates] /\ g.row \in [Titles -> Assignments] /\ g.auto \in Autos
  BY Parts DEF Good
<1>2. t \in Nothing..Library /\ g.deck[d] \in DeckStates /\ (startable => t \in Titles)
  BY <1>1, Constants DEF DeckStates
<1>3. k \in DeckStates /\ k.gated = g.deck[d].gated /\ k.muted = g.deck[d].muted
  <2>1. e \in {g.deck[d].entry, Nothing} /\ g.deck[d] \in DeckStates /\ g.deck[d].phase # "empty"
    BY <1>2
  <2> HIDE DEF e
  <2> QED  BY ONLY Zenon, <2>1, StartedDeck
<1>4. /\ Aside(g, n) /\ Good(n) /\ n.deck = g.deck /\ n.row = g.row /\ n.auto = g.auto
      /\ n.pool = g.pool /\ n.calls = g.calls /\ Ending(n) = Ending(g)
  BY <1>2, NewPlaybackAside, AsideGood
<1>5. n \in Conditions
  BY <1>4 DEF Good
<1>6. [n EXCEPT !.deck[d].phase = "playing", !.deck[d].backend = "starting", !.deck[d].entry = e] = h
  BY Zenon, <1>1, <1>4, <1>5 DEF Conditions
<1>7. /\ h.deck = [g.deck EXCEPT ![d] = k] /\ h.row = g.row /\ h.auto = g.auto /\ h.pool = g.pool
      /\ h.calls = g.calls /\ h.commits = n.commits
  BY <1>4, <1>5 DEF Conditions
<1>8. Aside(n, h)
  BY <1>3, <1>4, DeckAside
<1>9. Aside(g, h)
  BY <1>4, <1>8, AsideAgain
<1>10. startable => r \in [Titles -> Assignments]
  BY <1>1, <1>2 DEF Assignments, Statuses
<1>11. StartDeck(g, d) = IF startable THEN [h EXCEPT !.row[t].status = "playing"] ELSE h
  BY Zenon, <1>6 DEF StartDeck
<1> HIDE DEF t, k, n, startable, h
<1>12. h \in Conditions
  BY <1>9 DEF Aside
<1>13. startable => [h EXCEPT !.row[t].status = "playing"] = [h EXCEPT !.row = r]
  BY <1>7, <1>12 DEF Conditions
<1>132. startable => \A x \in Titles : r[x].status = "played" => g.row[x].status = "played"
  BY <1>1, <1>2 DEF Assignments, t
<1> HIDE DEF r
<1>14. startable => LET z == [h EXCEPT !.row = r]
                    IN  /\ Aside(h, z) /\ z.deck = h.deck /\ z.auto = h.auto /\ z.pool = h.pool
                        /\ z.calls = h.calls /\ z.commits = h.commits /\ z.row = r
  BY <1>9, <1>10, <1>12 DEF Aside, Conditions
<1>15. /\ Aside(g, StartDeck(g, d)) /\ StartDeck(g, d).deck = [g.deck EXCEPT ![d] = k] /\ StartDeck(g, d).auto = g.auto
       /\ StartDeck(g, d).pool = g.pool /\ StartDeck(g, d).calls = g.calls /\ StartDeck(g, d).commits = n.commits
       /\ StartDeck(g, d).row = IF startable THEN r ELSE g.row
  <2>1. CASE startable
    <3> DEFINE z == [h EXCEPT !.row = r]
    <3>1. StartDeck(g, d) = z
      BY <1>11, <1>13, <2>1
    <3>2. /\ Aside(h, z) /\ z.deck = h.deck /\ z.auto = h.auto /\ z.pool = h.pool
          /\ z.calls = h.calls /\ z.commits = h.commits /\ z.row = r
      BY <1>14, <2>1
    <3> HIDE DEF z
    <3>3. Aside(g, z)
      BY <1>9, <3>2, AsideAgain
    <3> QED  BY <1>7, <2>1, <3>1, <3>2, <3>3
  <2>2. CASE ~startable
    BY <1>7, <1>9, <1>11, <2>2
  <2> QED  BY <2>1, <2>2
<1>16. Ending(StartDeck(g, d)) = Ending(g)
  BY <1>4, <1>15 DEF Ending
<1>17. Played(StartDeck(g, d)) \subseteq Played(g)
  BY <1>15, <1>132 DEF Played
<1> QED  BY <1>15, <1>16, <1>17 DEF k, t
----------------------------------------------------------------------------
(* The transition controller.                                              *)

LEMMA EndedGood ==
  ASSUME NEW g, NEW h, Good(g), Ended(g, h)
  PROVE  Good(h)
<1>1. Faded(h)
  BY DEF Ended, Faded, NoRamp, NoTransition
<1>2. Opened(h)
  BY DEF Ended, Elsewhere, Opened, NoTransition, Good
<1> QED  BY <1>1, <1>2 DEF Good, Ended, Elsewhere

LEMMA NewGenerationIs ==
  ASSUME NEW g \in Conditions
  PROVE  /\ NewGeneration(g) \in Conditions /\ NewGeneration(g).ramp = NoRamp /\ NewGeneration(g).tr = g.tr
         /\ NewGeneration(g).fader = g.fader /\ Elsewhere(g, NewGeneration(g))
<1> DEFINE l == IF g.ramp.armed THEN g.late \cup {g.ramp.value} ELSE g.late
<1>1. g \in Conditions /\ g.ramp \in Ramps /\ g.late \in SUBSET (0..3)
  BY Parts
<1>2. NoRamp \in Ramps /\ l \in SUBSET (0..3)
  BY <1>1 DEF NoRamp, Ramps
<1>3. NewGeneration(g) = [[g EXCEPT !.late = l] EXCEPT !.ramp = NoRamp]
  BY <1>1 DEF NewGeneration, Conditions
<1> HIDE DEF l
<1> QED  BY <1>1, <1>2, <1>3 DEF Conditions, Elsewhere

LEMMA ResetIs ==
  ASSUME NEW g \in Conditions
  PROVE  Ended(g, Reset(g))
<1> DEFINE n == NewGeneration(g)
<1>1. /\ n \in Conditions /\ n.ramp = NoRamp /\ n.fader = g.fader /\ Elsewhere(g, n)
  BY NewGenerationIs
<1>2. Reset(g) = [n EXCEPT !.tr = NoTransition]
  BY DEF Reset
<1> HIDE DEF n
<1> QED  BY <1>1, <1>2 DEF Ended, Elsewhere, Conditions

LEMMA ResetEnds ==
  ASSUME NEW g, Good(g)
  PROVE  Ended(g, Reset(g)) /\ Good(Reset(g))
<1>1. Ended(g, Reset(g))
  BY ResetIs DEF Good
<1> QED  BY <1>1, EndedGood

\* Only a crossfade leaves a position to be written.
LEMMA NothingLate ==
  ASSUME NEW g, Good(g), g.tr.state # "crossfade"
  PROVE  NewGeneration(g).late = g.late /\ Reset(g).late = g.late
<1>1. g \in Conditions /\ ~g.ramp.armed
  BY DEF Good, Faded
<1>2. NewGeneration(g).late = g.late
  BY <1>1 DEF NewGeneration, Conditions
<1>3. NewGeneration(g) \in Conditions
  BY <1>1, NewGenerationIs
<1>4. Reset(g).late = NewGeneration(g).late
  BY <1>3 DEF Reset, Conditions
<1> QED  BY <1>2, <1>4

\* Without a transition, only mute decks matter.
LEMMA IdleGood ==
  ASSUME NEW g \in Conditions, Len(g.pool) <= 2, g.tr = NoTransition, ~g.ramp.on, ~g.ramp.armed,
         \A d \in Decks : g.deck[d].muted => g.auto.gate /\ g.auto.run # "running"
  PROVE  Good(g)
BY DEF Good, Faded, Opened, NoTransition

\* A transition that is given up.
LEMMA AbortIs ==
  ASSUME NEW g \in Conditions, Faded(g)
  PROVE  LET h == Abort(g)
         IN  /\ h \in Conditions /\ h.tr = NoTransition /\ Elsewhere(g, h) /\ h.fader = g.fader
             /\ ~h.ramp.on /\ ~h.ramp.armed
<1>1. Abort(g) = IF IsTransitioning(g) THEN Reset(g) ELSE g
  BY DEF Abort, Reset
<1>2. ~IsTransitioning(g) => g.tr = NoTransition
  BY Parts DEF IsTransitioning, Handovers, NoTransition
<1>3. ~IsTransitioning(g) => ~g.ramp.on /\ ~g.ramp.armed
  BY DEF IsTransitioning, Faded
<1>4. Elsewhere(g, g) /\ ~NoRamp.on /\ ~NoRamp.armed
  BY DEF Elsewhere, NoRamp
<1> QED  BY <1>1, <1>2, <1>3, <1>4, ResetIs DEF Ended

LEMMA AbortEnds ==
  ASSUME NEW g, Good(g)
  PROVE  /\ Good(Abort(g)) /\ Abort(g).tr = NoTransition /\ Elsewhere(g, Abort(g)) /\ Abort(g).fader = g.fader
<1> DEFINE h == Abort(g)
<1>1. /\ h \in Conditions /\ h.tr = NoTransition /\ Elsewhere(g, h) /\ h.fader = g.fader
      /\ ~h.ramp.on /\ ~h.ramp.armed
  BY AbortIs DEF Good
<1> HIDE DEF h
<1>2. Good(h)
  BY <1>1, IdleGood DEF Good, Opened, Elsewhere
<1> QED  BY <1>1, <1>2 DEF h

\* The deck that a started crossfade opens.
LEMMA Ungated ==
  ASSUME NEW k \in DeckStates, NEW b \in BOOLEAN
  PROVE  /\ [k EXCEPT !.gated = b] \in DeckStates /\ [k EXCEPT !.gated = b].muted = k.muted
         /\ [k EXCEPT !.gated = b].gated = b
BY DEF DeckStates

LEMMA StartCrossfadeGood ==
  ASSUME NEW g, Good(g), g.tr.state = "wait"
  PROVE  /\ Good(StartCrossfade(g)) /\ StartCrossfade(g).auto = g.auto /\ StartCrossfade(g).row = g.row
         /\ StartCrossfade(g).late = g.late /\ StartCrossfade(g).fader = g.fader
         /\ StartCrossfade(g).deck = [g.deck EXCEPT ![g.tr.in] = [g.deck[g.tr.in] EXCEPT !.gated = FALSE]]
         /\ StartCrossfade(g).ramp = [on |-> TRUE, armed |-> FALSE, value |-> g.fader, target |-> Side(g.tr.in)]
         /\ StartCrossfade(g).tr = [g.tr EXCEPT !.state = "crossfade", !.step = "render"]
<1> DEFINE in == g.tr.in
           k == [g.deck[in] EXCEPT !.gated = FALSE]
           x == [g.deck EXCEPT ![in] = k]
           m == [g.tr EXCEPT !.state = "crossfade", !.step = "render"]
           r == [on |-> TRUE, armed |-> FALSE, value |-> g.fader, target |-> Side(in)]
           h == [[[g EXCEPT !.tr = m] EXCEPT !.deck = x] EXCEPT !.ramp = r]
<1>1. g \in Conditions /\ g.tr \in Handovers /\ g.deck \in [Decks -> DeckStates] /\ g.fader \in 0..3
  BY Parts DEF Good, NoTransition
<1>2. in \in Decks /\ g.deck[in] \in DeckStates
  BY <1>1 DEF Handovers
<1>3. k \in DeckStates /\ k.muted = g.deck[in].muted /\ k.gated = FALSE
  BY <1>2, Ungated
<1>4. x \in [Decks -> DeckStates] /\ x[in] = k /\ \A d \in Decks : d # in => x[d] = g.deck[d]
  BY <1>1, <1>2, <1>3
<1>5. m \in Handovers /\ m.in = in /\ m.state = "crossfade"
  BY <1>1 DEF Handovers
<1>6. r \in Ramps /\ r.on /\ ~r.armed /\ r.target = Side(in)
  BY <1>1, <1>2, Constants DEF Ramps
<1>7. StartCrossfade(g) = h
  BY <1>1 DEF StartCrossfade, Conditions
<1> HIDE DEF k, x, m, r
<1>8. /\ h \in Conditions /\ h.deck = x /\ h.tr = m /\ h.ramp = r /\ h.auto = g.auto /\ h.row = g.row
      /\ h.late = g.late /\ h.pool = g.pool /\ h.fader = g.fader
  BY <1>1, <1>4, <1>5, <1>6 DEF Conditions
<1> HIDE DEF h
<1>9. Faded(h)
  BY <1>5, <1>6, <1>8 DEF Faded
<1>10. Opened(h)
  BY <1>2, <1>3, <1>4, <1>5, <1>8 DEF Good, Opened
<1>11. Good(h)
  BY <1>8, <1>9, <1>10 DEF Good
<1> QED  BY <1>7, <1>8, <1>11 DEF x, k, m, r

LEMMA PolledGood ==
  ASSUME NEW g, Good(g), g.tr.state = "wait"
  PROVE  /\ Good(Polled(g)) /\ Polled(g).auto = g.auto /\ Polled(g).row = g.row
         /\ \A d \in Decks : /\ Polled(g).deck[d].muted = g.deck[d].muted
                             /\ Polled(g).deck[d].phase = g.deck[d].phase
<1>1. g \in Conditions /\ g.tr \in Handovers /\ g.deck \in [Decks -> DeckStates]
  BY Parts DEF Good, NoTransition
<1>2. g.tr.in \in Decks
  BY <1>1 DEF Handovers
<1>3. CASE Polled(g) = StartCrossfade(g)
  <2> DEFINE k == [g.deck[g.tr.in] EXCEPT !.gated = FALSE]
             h == Polled(g)
  <2>1. g.deck[g.tr.in] \in DeckStates
    BY <1>1, <1>2
  <2>2. k.muted = g.deck[g.tr.in].muted /\ k.phase = g.deck[g.tr.in].phase
    BY <2>1 DEF DeckStates
  <2>3. Good(h) /\ h.auto = g.auto /\ h.row = g.row /\ h.deck = [g.deck EXCEPT ![g.tr.in] = k]
    BY <1>3, StartCrossfadeGood
  <2> HIDE DEF k, h
  <2>4. \A d \in Decks : h.deck[d].muted = g.deck[d].muted /\ h.deck[d].phase = g.deck[d].phase
    BY <1>1, <1>2, <2>2, <2>3
  <2> QED  BY <2>3, <2>4 DEF h
<1>4. CASE Polled(g) = Abort(g)
  BY <1>4, AbortEnds DEF Elsewhere
<1>5. CASE Polled(g) = [g EXCEPT !.tr.step = "poll"]
  <2> DEFINE m == [g.tr EXCEPT !.step = "poll"]
             h == [g EXCEPT !.tr = m]
  <2>1. m \in Handovers /\ m.in = g.tr.in /\ m.state = "wait"
    BY <1>1 DEF Handovers
  <2>2. Polled(g) = h
    BY <1>1, <1>5 DEF Conditions
  <2> HIDE DEF m
  <2>3. /\ h \in Conditions /\ h.tr = m /\ h.deck = g.deck /\ h.ramp = g.ramp /\ h.auto = g.auto /\ h.row = g.row
        /\ h.late = g.late /\ h.pool = g.pool /\ h.fader = g.fader
    BY <1>1, <2>1 DEF Conditions
  <2> HIDE DEF h
  <2>4. Faded(h) /\ Opened(h)
    BY <2>1, <2>3 DEF Good, Faded, Opened
  <2>5. Good(h)
    BY <2>3, <2>4 DEF Good
  <2> QED  BY <2>2, <2>3, <2>5
<1> QED  BY <1>3, <1>4, <1>5 DEF Polled

\* A handover begins while the automatic run goes on, from a deck that plays.
LEMMA BeginGood ==
  ASSUME NEW g, Good(g), NEW out \in Decks, g.deck[out].phase # "empty", g.auto.run = "running"
  PROVE  Good(Begin(g, out)) /\ Begin(g, out).auto = g.auto /\ Begin(g, out).row = g.row
<1> DEFINE n == NewGeneration(g)
           m == [state |-> "wait", out |-> out, in |-> Other(out), title |-> g.deck[out].title,
                 entry |-> g.deck[out].entry, step |-> "none"]
           h == [n EXCEPT !.tr = m]
<1>1. /\ n \in Conditions /\ n.ramp = NoRamp /\ n.fader = g.fader /\ Elsewhere(g, n)
  BY NewGenerationIs DEF Good
<1>2. m \in Handovers /\ m.state = "wait"
  <2>1. g.deck[out] \in DeckStates
    BY Parts DEF Good
  <2> QED  BY <2>1, Constants DEF DeckStates, Handovers
<1>3. Begin(g, out) = IF IsTransitioning(g) THEN g ELSE Polled(h)
  BY DEF Begin
<1> HIDE DEF n, m
<1>4. /\ h \in Conditions /\ h.tr = m /\ h.ramp = NoRamp /\ h.fader = g.fader /\ Elsewhere(g, h)
  BY <1>1, <1>2 DEF Conditions, Elsewhere
<1> HIDE DEF h
<1>5. Faded(h) /\ Opened(h)
  BY <1>2, <1>4 DEF Good, Faded, Opened, Elsewhere, NoRamp
<1>6. Good(h)
  BY <1>4, <1>5 DEF Good, Elsewhere
<1>7. Good(Polled(h)) /\ Polled(h).auto = h.auto /\ Polled(h).row = h.row
  BY <1>2, <1>4, <1>6, PolledGood
<1> QED  BY <1>3, <1>4, <1>7 DEF Elsewhere
----------------------------------------------------------------------------
(* The automatic run.                                                      *)

LEMMA StopEnds ==
  ASSUME NEW g, Good(g), g.tr = NoTransition
  PROVE  Good(Stopped(g))
<1> DEFINE r == Reset(g)
           a == [r.auto EXCEPT !.run = "stopped", !.held = {}]
           h == [r EXCEPT !.auto = a]
<1>1. Good(r) /\ r.tr = NoTransition
  BY ResetEnds DEF Ended
<1>2. r \in Conditions /\ r.auto \in Autos
  BY <1>1, Parts DEF Good
<1>3. Stopped(g) = h
  BY <1>2 DEF Stopped, Conditions
<1> HIDE DEF r
<1>4. a \in Autos /\ a.run = "stopped" /\ a.gate = r.auto.gate
  BY <1>2 DEF Autos
<1> HIDE DEF a
<1>5. /\ h \in Conditions /\ h.deck = r.deck /\ h.tr = NoTransition /\ h.ramp = r.ramp /\ h.auto = a /\ h.late = r.late
      /\ h.fader = r.fader /\ h.pool = r.pool
  BY <1>1, <1>2, <1>4 DEF Conditions
<1> HIDE DEF h
<1>6. Faded(h) /\ Opened(h)
  BY <1>1, <1>4, <1>5 DEF Good, Faded, Opened, NoTransition
<1> QED  BY <1>1, <1>3, <1>5, <1>6 DEF Good

LEMMA PlacedGood ==
  ASSUME NEW g, Good(g), g.tr = NoTransition, NEW d \in Decks, NEW b \in BOOLEAN, NEW x \in 0..3
  PROVE  Placing(g, d, b, x, Placed(g, d, b, x))
<1> DEFINE k == [g.deck[d] EXCEPT !.gated = b]
           y == [g.deck EXCEPT ![d] = k]
           h == [[g EXCEPT !.deck = y] EXCEPT !.fader = x]
<1>1. g \in Conditions /\ g.deck \in [Decks -> DeckStates] /\ g.deck[d] \in DeckStates
  BY Parts DEF Good
<1>2. k \in DeckStates /\ k.muted = g.deck[d].muted
  BY <1>1, Ungated
<1> HIDE DEF k
<1>3. y \in [Decks -> DeckStates] /\ \A e \in Decks : y[e].muted = g.deck[e].muted
  BY <1>1, <1>2
<1> HIDE DEF y
<1>4. Placed(g, d, b, x) = h
  BY <1>1 DEF Placed, Conditions, y, k
<1>5. /\ h \in Conditions /\ h.deck = y /\ h.tr = NoTransition /\ h.ramp = g.ramp /\ h.auto = g.auto /\ h.late = g.late
      /\ h.fader = x /\ h.pool = g.pool /\ h.row = g.row /\ h.calls = g.calls /\ h.commits = g.commits /\ h.coord = g.coord
  BY <1>1, <1>3 DEF Conditions
<1> HIDE DEF h
<1>6. Faded(h) /\ Opened(h)
  BY <1>3, <1>5 DEF Good, Faded, Opened, NoTransition
<1>7. Good(h)
  BY <1>5, <1>6 DEF Good
<1> QED  BY <1>4, <1>5, <1>7 DEF y, k, Placing

LEMMA FirstIs ==
  ASSUME NEW S \in SUBSET Decks
  PROVE  S # {} => FirstOf(S) \in S
BY Constants DEF FirstOf

LEMMA StartNextGood ==
  ASSUME NEW g, Good(g), g.tr = NoTransition
  PROVE  Good(StartNext(g))
<1> DEFINE ready == {x \in Decks : DeckIsReady(g, x)}
           d == FirstOf(ready)
           p == Placed(g, d, FALSE, Side(d))
<1>1. CASE ready # {}
  <2>1. d \in Decks /\ DeckIsReady(g, d)
    BY <1>1, FirstIs
  <2> HIDE DEF d
  <2>2. g \in Conditions /\ g.deck \in [Decks -> DeckStates] /\ g.deck[d] \in DeckStates /\ Side(d) \in 0..3
    BY <2>1, Parts, Constants DEF Good
  <2>3. [g EXCEPT !.deck[d].gated = FALSE, !.fader = Side(d)] = p
    BY <2>2 DEF Placed, Conditions
  <2>4. Good(p) /\ p.deck = [g.deck EXCEPT ![d] = [g.deck[d] EXCEPT !.gated = FALSE]]
    <3>1. Placing(g, d, FALSE, Side(d), p)
      BY <2>1, <2>2, PlacedGood, Zenon
    <3> QED  BY <3>1 DEF Placing
  <2>5. p.deck[d].phase = g.deck[d].phase
    BY <2>1, <2>2, <2>4 DEF DeckStates
  <2>6. p.deck[d].phase # "empty"
    BY <2>1, <2>5 DEF DeckIsReady
  <2> HIDE DEF p
  <2>7. Good(StartDeck(p, d))
    BY Zenon, <2>1, <2>4, <2>6, StartDeckAside, AsideGood
  <2> QED  BY <1>1, <2>3, <2>7 DEF StartNext, d
<1>2. CASE ready = {}
  BY <1>2, StopEnds DEF StartNext
<1> QED  BY <1>1, <1>2

LEMMA StartHandoverGood ==
  ASSUME NEW g, Good(g), g.tr = NoTransition, NEW out \in Decks, g.deck[out].phase # "empty",
         DeckIsReady(g, Other(out)), g.auto.run = "running"
  PROVE  Good(StartHandover(g, out))
<1> DEFINE in == Other(out)
           p == Placed(g, in, TRUE, Side(out))
           s == StartDeck(p, in)
<1>1. /\ g \in Conditions /\ g.deck \in [Decks -> DeckStates] /\ in \in Decks /\ in # out /\ g.deck[in] \in DeckStates
      /\ Side(out) \in 0..3 /\ g.deck[in].phase # "empty"
  BY Parts, Constants DEF Good, DeckIsReady
<1>2. [g EXCEPT !.fader = Side(out), !.deck[in].gated = TRUE] = p
  BY <1>1 DEF Placed, Conditions
<1>3. StartHandover(g, out) = Begin(s, out)
  BY <1>2 DEF StartHandover
<1> HIDE DEF in
<1>4. Good(p) /\ p.deck = [g.deck EXCEPT ![in] = [g.deck[in] EXCEPT !.gated = TRUE]] /\ p.auto = g.auto
  <2>1. Placing(g, in, TRUE, Side(out), p)
    BY <1>1, PlacedGood, Zenon
  <2> QED  BY <2>1 DEF Placing
<1>5. p.deck[in].phase = g.deck[in].phase /\ p.deck[out] = g.deck[out]
  BY <1>1, <1>4 DEF DeckStates
<1> HIDE DEF p
<1>6. Aside(p, s) /\ Good(s) /\ s.deck[out] = p.deck[out] /\ s.auto = p.auto
  <2>1. p.deck \in [Decks -> DeckStates]
    BY <1>4, Parts DEF Good
  <2>2. p.deck[in].phase # "empty" /\ in \in Decks
    BY <1>1, <1>5
  <2>3. Aside(p, s) /\ s.auto = p.auto
        /\ \E e \in {p.deck[in].entry, Nothing} :
             s.deck = [p.deck EXCEPT ![in] = [p.deck[in] EXCEPT !.phase = "playing", !.backend = "starting", !.entry = e]]
    BY Zenon, <1>4, <2>2, StartDeckAside
  <2> HIDE DEF s
  <2>4. s.deck[out] = p.deck[out]
    BY <1>1, <2>1, <2>3
  <2> QED  BY <1>4, <2>3, <2>4, AsideGood
<1> HIDE DEF s
<1>7. s.deck[out].phase # "empty" /\ s.auto.run = "running"
  BY <1>4, <1>5, <1>6
<1> QED  BY <1>3, <1>6, <1>7, BeginGood

LEMMA PlaybackGood ==
  ASSUME NEW g, Good(g), NEW due
  PROVE  Good(Playback(g, due))
<1> DEFINE playing == Playing(g)
           out == FirstOf(playing)
<1>1. CASE g.auto.run # "running" \/ IsTransitioning(g) \/ g.auto.busy
  BY <1>1 DEF Playback
<1>2. CASE g.auto.run = "running" /\ ~IsTransitioning(g) /\ ~g.auto.busy
  <2>1. g.tr = NoTransition /\ playing \in SUBSET Decks
    BY <1>2, Parts DEF Good, IsTransitioning, Handovers, NoTransition, Playing
  <2>2. CASE playing = {}
    BY <1>2, <2>1, <2>2, StartNextGood DEF Playback
  <2>3. CASE playing = Decks
    <3> DEFINE d == IF g.fader <= 1 THEN "A" ELSE "B"
    <3>1. d \in Decks /\ g.deck[d].phase # "empty" /\ Decks # {}
      BY <2>3, Constants DEF Playing
    <3>2. Playback(g, due) = Begin(g, d)
      BY <1>2, <2>3, <3>1 DEF Playback
    <3> HIDE DEF d
    <3> QED  BY <1>2, <3>1, <3>2, BeginGood
  <2>4. CASE playing # {} /\ playing # Decks
    <3>1. out \in Decks /\ g.deck[out].phase # "empty"
      BY <2>1, <2>4, FirstIs DEF Playing
    <3>2. Playback(g, due) = IF due /\ g.deck[out].backend \in {"playing", "ended"} /\ DeckIsReady(g, Other(out))
                             THEN StartHandover(g, out) ELSE g
      BY <1>2, <2>4 DEF Playback
    <3> HIDE DEF out
    <3> QED  BY <1>2, <2>1, <3>1, <3>2, StartHandoverGood
  <2> QED  BY <2>2, <2>3, <2>4
<1> QED  BY <1>1, <1>2
----------------------------------------------------------------------------
(* Ends of playback.                                                       *)

LEMMA CallsAside ==
  ASSUME NEW g, Good(g), NEW c \in SUBSET Calls
  PROVE  /\ Aside(g, [g EXCEPT !.calls = c]) /\ Good([g EXCEPT !.calls = c])
         /\ [g EXCEPT !.calls = c].deck = g.deck /\ [g EXCEPT !.calls = c].row = g.row
         /\ [g EXCEPT !.calls = c].auto = g.auto /\ [g EXCEPT !.calls = c].pool = g.pool
         /\ [g EXCEPT !.calls = c].commits = g.commits /\ [g EXCEPT !.calls = c].coord = g.coord
         /\ [g EXCEPT !.calls = c].calls = c
<1>1. g \in Conditions
  BY DEF Good
<1>2. /\ Aside(g, [g EXCEPT !.calls = c])
      /\ [g EXCEPT !.calls = c].deck = g.deck /\ [g EXCEPT !.calls = c].row = g.row
      /\ [g EXCEPT !.calls = c].auto = g.auto /\ [g EXCEPT !.calls = c].pool = g.pool
      /\ [g EXCEPT !.calls = c].commits = g.commits /\ [g EXCEPT !.calls = c].coord = g.coord
      /\ [g EXCEPT !.calls = c].calls = c
  BY <1>1 DEF Good, Aside, Conditions
<1> QED  BY <1>2, AsideGood

LEMMA DeckCall ==
  ASSUME NEW d \in Decks, NEW kind \in {"finish", "refill"}
  PROVE  Call(kind, Nothing, d) \in Calls
BY Constants DEF Calls, Call, SomeDeck

LEMMA DeckChanges ==
  ASSUME NEW g, Good(g), NEW d \in Decks, NEW k \in DeckStates, k.gated => g.deck[d].gated, k.muted => g.deck[d].muted
  PROVE  Redecked(g, d, k, [g EXCEPT !.deck[d] = k])
<1> DEFINE h == [g EXCEPT !.deck[d] = k]
<1>1. Aside(g, h) /\ Good(h)
  BY DeckAside, AsideGood
<1>2. g \in Conditions
  BY DEF Good
<1>3. h.deck = [g.deck EXCEPT ![d] = k] /\ h.row = g.row /\ h.auto = g.auto
      /\ h.pool = g.pool /\ h.calls = g.calls /\ h.commits = g.commits /\ h.coord = g.coord
  BY <1>2 DEF Conditions
<1> QED  BY <1>1, <1>3 DEF Redecked

LEMMA ObserveAside ==
  ASSUME NEW g, Good(g), NEW d \in Decks
  PROVE  Aside(g, Observe(g, d)) /\ Good(Observe(g, d))
<1> DEFINE k == [g.deck[d] EXCEPT !.phase = "finished"]
           h == [g EXCEPT !.deck[d] = k]
           c == h.calls \cup {Call("finish", Nothing, d)}
<1>1. CASE g.deck[d].phase # "playing" \/ g.deck[d].backend # "ended"
  BY <1>1 DEF Observe, Aside, Good
<1>2. CASE g.deck[d].phase = "playing" /\ g.deck[d].backend = "ended"
  <2>1. g \in Conditions /\ g.deck[d] \in DeckStates /\ g.calls \in SUBSET Calls
    BY Parts DEF Good
  <2>2. k \in DeckStates /\ k.gated = g.deck[d].gated /\ k.muted = g.deck[d].muted
    BY <1>2, <2>1 DEF DeckStates, Phases
  <2>3. Observe(g, d) = [h EXCEPT !.calls = c]
    BY <1>2, <2>1 DEF Observe, Conditions
  <2> HIDE DEF k
  <2>4. Aside(g, h) /\ Good(h) /\ h.calls = g.calls
    BY <2>2, DeckChanges DEF Redecked
  <2> HIDE DEF h
  <2>5. c \in SUBSET Calls
    BY <2>1, <2>4, DeckCall
  <2> HIDE DEF c
  <2>6. Aside(h, [h EXCEPT !.calls = c]) /\ Good([h EXCEPT !.calls = c])
    BY <2>4, <2>5, CallsAside
  <2> QED  BY <2>3, <2>4, <2>6, AsideAgain
<1> QED  BY <1>1, <1>2

LEMMA PersistAside ==
  ASSUME NEW g, Good(g), NEW t \in Nothing..N, NEW d \in Decks, NEW b \in BOOLEAN
  PROVE  /\ Aside(g, Persist(g, t, d, b)) /\ Good(Persist(g, t, d, b)) /\ Persist(g, t, d, b).deck = g.deck
         /\ Persist(g, t, d, b).row = g.row /\ Persist(g, t, d, b).auto = g.auto /\ Persist(g, t, d, b).pool = g.pool
         /\ Persist(g, t, d, b).calls = g.calls /\ Persist(g, t, d, b).coord = g.coord
<1> DEFINE e == [title |-> t, deck |-> d, live |-> TRUE, coord |-> b]
           c == Append(g.commits, e)
<1>1. CASE t = Nothing
  BY <1>1 DEF Persist, Aside, Good
<1>2. CASE t # Nothing
  <2>1. g \in Conditions /\ g.commits \in Seq(Ends)
    BY Parts DEF Good
  <2>2. e \in Ends
    BY <1>2, Constants DEF Ends
  <2>3. c \in Seq(Ends)
    BY <2>1, <2>2
  <2>4. Persist(g, t, d, b) = [g EXCEPT !.commits = c]
    BY <1>2, <2>1 DEF Persist, Conditions
  <2> HIDE DEF c
  <2>5. /\ Aside(g, Persist(g, t, d, b)) /\ Persist(g, t, d, b).deck = g.deck
        /\ Persist(g, t, d, b).row = g.row /\ Persist(g, t, d, b).auto = g.auto /\ Persist(g, t, d, b).pool = g.pool
        /\ Persist(g, t, d, b).calls = g.calls /\ Persist(g, t, d, b).coord = g.coord
    BY <2>1, <2>3, <2>4 DEF Good, Aside, Conditions
  <2> QED  BY <2>5, AsideGood
<1> QED  BY <1>1, <1>2

LEMMA Emptied ==
  ASSUME NEW k \in DeckStates
  PROVE  /\ EmptyDeck(k) \in DeckStates /\ EmptyDeck(k).gated = FALSE /\ EmptyDeck(k).muted = k.muted
         /\ EmptyDeck(k).title = Nothing /\ EmptyDeck(k).entry = Nothing /\ EmptyDeck(k).phase = "empty"
         /\ EmptyDeck(k).backend = k.backend
         /\ [EmptyDeck(k) EXCEPT !.backend = "silent"] \in DeckStates
         /\ [EmptyDeck(k) EXCEPT !.backend = "silent"].gated = FALSE
         /\ [EmptyDeck(k) EXCEPT !.backend = "silent"].muted = k.muted
         /\ [EmptyDeck(k) EXCEPT !.backend = "silent"].phase = "empty"
         /\ [EmptyDeck(k) EXCEPT !.backend = "silent"].title = Nothing
         /\ [EmptyDeck(k) EXCEPT !.backend = "silent"].entry = Nothing
         /\ [EmptyDeck(k) EXCEPT !.backend = "silent"].backend = "silent"
<1> DEFINE e == EmptyDeck(k)
<1>1. /\ e \in DeckStates /\ e.gated = FALSE /\ e.muted = k.muted
      /\ e.title = Nothing /\ e.entry = Nothing /\ e.phase = "empty" /\ e.backend = k.backend
  <2>1. /\ k.title \in Nothing..Library /\ k.backend \in Backends /\ k.muted \in BOOLEAN
        /\ k \in [title : Nothing..Library, entry : Nothing..N, phase : Phases, backend : Backends,
                 gated : BOOLEAN, muted : BOOLEAN]
    BY DEF DeckStates
  <2>2. Nothing \in Nothing..Library /\ Nothing \in Nothing..N /\ "empty" \in Phases
    BY Constants DEF Phases
  <2>3. /\ e \in [title : Nothing..Library, entry : Nothing..N, phase : Phases, backend : Backends,
                 gated : BOOLEAN, muted : BOOLEAN]
        /\ e.title = Nothing /\ e.entry = Nothing /\ e.phase = "empty" /\ e.backend = k.backend
        /\ e.gated = FALSE /\ e.muted = k.muted
    BY ONLY <2>1, <2>2 DEF EmptyDeck
  <2> HIDE DEF e
  <2> QED  BY <2>3 DEF DeckStates
<1> HIDE DEF e
<1>2. /\ [e EXCEPT !.backend = "silent"] \in DeckStates /\ [e EXCEPT !.backend = "silent"].gated = e.gated
      /\ [e EXCEPT !.backend = "silent"].muted = e.muted /\ [e EXCEPT !.backend = "silent"].phase = e.phase
      /\ [e EXCEPT !.backend = "silent"].title = e.title /\ [e EXCEPT !.backend = "silent"].entry = e.entry
      /\ [e EXCEPT !.backend = "silent"].backend = "silent"
  BY <1>1 DEF DeckStates, Backends
<1> QED  BY <1>1, <1>2 DEF e

LEMMA DetachIs ==
  ASSUME NEW g, Good(g), NEW d \in Decks
  PROVE  /\ Redecked(g, d, EmptyDeck(g.deck[d]), Detach(g, d))
         /\ Redecked(g, d, [EmptyDeck(g.deck[d]) EXCEPT !.backend = "silent"], Eject(g, d))
<1> DEFINE k == EmptyDeck(g.deck[d])
           s == [k EXCEPT !.backend = "silent"]
<1>1. g \in Conditions /\ g.deck[d] \in DeckStates /\ g.deck \in [Decks -> DeckStates]
  BY Parts DEF Good
<1>2. /\ k \in DeckStates /\ k.gated = FALSE /\ k.muted = g.deck[d].muted
      /\ s \in DeckStates /\ s.gated = FALSE /\ s.muted = g.deck[d].muted
  BY <1>1, Emptied
<1>3. Detach(g, d) = [g EXCEPT !.deck[d] = k]
  BY <1>1 DEF Detach, Conditions
<1>4. Eject(g, d) = [g EXCEPT !.deck[d] = s]
  BY <1>1 DEF Eject, Detach, Conditions
<1> HIDE DEF k, s
<1>5. Redecked(g, d, k, Detach(g, d))
  BY <1>2, <1>3, DeckChanges
<1>6. Redecked(g, d, s, Eject(g, d))
  BY <1>2, <1>4, DeckChanges
<1> QED  BY <1>5, <1>6 DEF k, s

LEMMA FinishDeckAside ==
  ASSUME NEW g, Good(g), NEW d \in Decks
  PROVE  Aside(g, FinishDeck(g, d)) /\ Good(FinishDeck(g, d))
<1> DEFINE p == Persist(g, g.deck[d].entry, d, FALSE)
           e == Eject(p, d)
           c == e.calls \cup {Call("refill", Nothing, d)}
<1>1. g.deck[d].entry \in Nothing..N
  BY Parts DEF Good, DeckStates
<1>2. Aside(g, p) /\ Good(p)
  BY <1>1, PersistAside
<1> HIDE DEF p
<1>3. Aside(p, e) /\ Good(e)
  BY <1>2, DetachIs DEF Redecked
<1> HIDE DEF e
<1>4. c \in SUBSET Calls
  BY <1>3, DeckCall, Parts DEF Good
<1> HIDE DEF c
<1>5. Aside(e, [e EXCEPT !.calls = c])
  BY <1>3, <1>4, CallsAside
<1>6. Aside(g, [e EXCEPT !.calls = c])
  BY <1>2, <1>3, <1>5, AsideAgain
<1>7. [e EXCEPT !.calls = @ \cup {Call("refill", Nothing, d)}] = [e EXCEPT !.calls = c]
  BY <1>3 DEF Good, Conditions, c
<1>8. FinishDeck(g, d) \in {p, [e EXCEPT !.calls = c]}
  BY <1>7 DEF FinishDeck, p, e
<1> QED  BY <1>2, <1>6, <1>8, AsideGood
----------------------------------------------------------------------------
(* The end of a handover.                                                  *)

LEMMA CoordChanges ==
  ASSUME NEW g, Good(g), NEW k \in [1..Library -> Coords], NEW c \in SUBSET Calls, g.calls \subseteq c,
         \A x \in c : x \in g.calls \/ x.kind = "autoload"
  PROVE  Reporting(g, [[g EXCEPT !.coord = k] EXCEPT !.calls = c])
<1> DEFINE h == [[g EXCEPT !.coord = k] EXCEPT !.calls = c]
<1>1. g \in Conditions
  BY DEF Good
<1>2. Aside(g, h) /\ h.deck = g.deck /\ h.row = g.row /\ h.auto = g.auto /\ h.pool = g.pool
      /\ h.commits = g.commits /\ h.calls = c
  BY <1>1 DEF Good, Aside, Conditions
<1> HIDE DEF h
<1>3. Good(h)
  BY <1>2, AsideGood
<1> QED  BY <1>2, <1>3 DEF Reporting, h

LEMMA CoordinatedIs ==
  ASSUME NEW g, Good(g), NEW t \in 1..Library
  PROVE  Reporting(g, Coordinated(g, t))
<1> DEFINE x == [g.coord[t] EXCEPT !.published = TRUE]
           k == [g.coord EXCEPT ![t] = x]
           c == g.calls \cup {Call("autoload", t, g.coord[t].deck)}
<1>1. g \in Conditions /\ g.coord \in [1..Library -> Coords] /\ g.coord[t] \in Coords /\ g.calls \in SUBSET Calls
  BY Parts DEF Good
<1>2. k \in [1..Library -> Coords]
  <2>1. x \in Coords
    BY <1>1 DEF Coords
  <2> QED  BY <1>1, <2>1
<1> DEFINE due == ~g.coord[t].published /\ g.coord[t].cleanup = "ok" /\ g.coord[t].commit = "ok"
<1>3. due => /\ Call("autoload", t, g.coord[t].deck) \in Calls
             /\ Call("autoload", t, g.coord[t].deck).kind = "autoload"
  BY <1>1, Constants DEF Calls, Call, SomeDeck, Coords
<1>4. Coordinated(g, t) = IF due THEN [[g EXCEPT !.coord = k] EXCEPT !.calls = c] ELSE g
  BY <1>1 DEF Coordinated, Conditions
<1>5. due => c \in SUBSET Calls /\ g.calls \subseteq c /\ \A y \in c : y \in g.calls \/ y.kind = "autoload"
  BY <1>1, <1>3
<1> HIDE DEF k, c, due
<1>6. due => Reporting(g, [[g EXCEPT !.coord = k] EXCEPT !.calls = c])
  BY <1>2, <1>5, CoordChanges
<1>7. Reporting(g, g)
  BY DEF Reporting, Aside, Good
<1> QED  BY <1>4, <1>6, <1>7

LEMMA ReportedIs ==
  ASSUME NEW g, Good(g), NEW t \in 1..Library, NEW part \in {"cleanup", "commit"}, NEW result \in {"ok", "failed"}
  PROVE  Reporting(g, Reported(g, t, part, result))
<1> DEFINE x == [g.coord[t] EXCEPT ![part] = result]
           k == [g.coord EXCEPT ![t] = x]
           h == [g EXCEPT !.coord = k]
<1>1. g \in Conditions /\ g.coord \in [1..Library -> Coords] /\ g.coord[t] \in Coords /\ g.calls \in SUBSET Calls
  BY Parts DEF Good
<1>2. CASE g.coord[t][part] # "open"
  BY <1>2 DEF Reported, Reporting, Aside, Good
<1>3. CASE g.coord[t][part] = "open"
  <2>1. x \in Coords
    <3>1. CASE part = "cleanup"
      <4>1. x = [g.coord[t] EXCEPT !.cleanup = result] /\ g.coord[t].cleanup = "open"
        BY <1>3, <3>1
      <4>2. x \in [cleanup : Results, commit : Results, published : BOOLEAN, live : BOOLEAN, deck : SomeDeck]
            /\ x.deck = g.coord[t].deck /\ g.coord[t].deck \in Decks
        BY <1>1, <4>1 DEF Coords, Results
      <4> HIDE DEF x
      <4> QED  BY <4>2 DEF Coords
    <3>2. CASE part = "commit"
      <4>1. x = [g.coord[t] EXCEPT !.commit = result] /\ g.coord[t].commit = "open"
        BY <1>3, <3>2
      <4>2. x \in [cleanup : Results, commit : Results, published : BOOLEAN, live : BOOLEAN, deck : SomeDeck]
            /\ x.deck = g.coord[t].deck /\ g.coord[t].deck \in Decks
        BY <1>1, <4>1 DEF Coords, Results
      <4> HIDE DEF x
      <4> QED  BY <4>2 DEF Coords
    <3> QED  BY <3>1, <3>2
  <2>2. k \in [1..Library -> Coords]
    BY <1>1, <1>3, <2>1
  <2>3. Reported(g, t, part, result) = Coordinated(h, t)
    BY <1>1, <1>3 DEF Reported, Conditions
  <2> HIDE DEF k
  <2>4. h = [[g EXCEPT !.coord = k] EXCEPT !.calls = g.calls] /\ h.coord = k
    BY <1>1 DEF Conditions
  <2> HIDE DEF h
  <2>5. Reporting(g, h)
    BY <1>1, <2>2, <2>4, CoordChanges
  <2>6. Reporting(h, Coordinated(h, t))
    <3>1. Good(h)
      BY <2>5 DEF Reporting
    <3> QED  BY <3>1, CoordinatedIs
  <2>7. Aside(g, Coordinated(h, t))
    BY <2>5, <2>6, AsideAgain DEF Reporting
  <2> QED  BY <2>3, <2>5, <2>6, <2>7 DEF Reporting
<1> QED  BY <1>2, <1>3

\* Only the rows are others.
LEMMA RowAside ==
  ASSUME NEW g, Good(g), NEW r \in [Titles -> Assignments]
  PROVE  LET h == [g EXCEPT !.row = r]
         IN  /\ Aside(g, h) /\ Good(h) /\ h.deck = g.deck /\ h.row = r /\ h.auto = g.auto
             /\ h.pool = g.pool /\ h.calls = g.calls /\ h.commits = g.commits /\ h.coord = g.coord
<1> DEFINE h == [g EXCEPT !.row = r]
<1>1. g \in Conditions
  BY DEF Good
<1>2. /\ Aside(g, h) /\ h.deck = g.deck /\ h.row = r /\ h.auto = g.auto
      /\ h.pool = g.pool /\ h.calls = g.calls /\ h.commits = g.commits /\ h.coord = g.coord
  BY <1>1 DEF Good, Aside, Conditions
<1> HIDE DEF h
<1>3. Good(h)
  BY <1>2, AsideGood
<1> QED  BY <1>2, <1>3 DEF h

\* The handover is complete: what was mixed out leaves its deck, its end is persisted.
LEMMA CompleteGood ==
  ASSUME NEW g, Good(g), g.tr.step = "finish"
  PROVE  Good(Complete(g))
<1> DEFINE d == g.tr.out
           t == g.tr.title
           k == [cleanup |-> "open", commit |-> IF g.tr.entry = Nothing THEN "ok" ELSE "open",
                 published |-> FALSE, live |-> TRUE, deck |-> d]
           kk == [g.coord EXCEPT ![t] = k]
           c == {x \in g.calls : x.kind # "finish" \/ x.deck # d}
           g1 == [[g EXCEPT !.calls = c] EXCEPT !.coord = kk]
           g2 == IF g.deck[d].title = t THEN Submit(Detach(g1, d), Job("cleanup", t, d))
                 ELSE Reported(g1, t, "cleanup", "ok")
           p == Persist(g2, g.tr.entry, d, TRUE)
           h == [[p EXCEPT !.tr = NoTransition] EXCEPT !.ramp = NoRamp]
<1>1. /\ g \in Conditions /\ g.tr \in Handovers /\ g.coord \in [1..Library -> Coords] /\ g.calls \in SUBSET Calls
  BY Parts DEF Good, NoTransition
<1>2. d \in Decks /\ t \in 1..Library /\ g.tr.entry \in Nothing..N
  BY <1>1 DEF Handovers
<1>3. k \in Coords
  BY <1>2 DEF Coords, Results, SomeDeck
<1>4. kk \in [1..Library -> Coords] /\ c \in SUBSET Calls
  BY <1>1, <1>3
<1>5. Complete(g) = [p EXCEPT !.tr = NoTransition, !.ramp = NoRamp]
  BY <1>1 DEF Complete, Conditions
<1> HIDE DEF kk, c
<1>6. g1 \in Conditions /\ Aside(g, g1)
  BY <1>1, <1>4 DEF Good, Aside, Conditions
<1> HIDE DEF g1
<1>7. Good(g1)
  BY <1>6, AsideGood
<1>8. Good(g2)
  <2>1. Good(Detach(g1, d))
    BY <1>2, <1>7, DetachIs DEF Redecked
  <2>2. Job("cleanup", t, d) \in Jobs
    BY <1>2, Constants DEF Jobs, Job, SomeDeck
  <2>3. Good(Submit(Detach(g1, d), Job("cleanup", t, d)))
    BY <2>1, <2>2, SubmitAside, AsideGood
  <2>4. Good(Reported(g1, t, "cleanup", "ok"))
    BY <1>2, <1>7, ReportedIs DEF Reporting
  <2> QED  BY <2>3, <2>4
<1> HIDE DEF g2
<1>9. Good(p)
  BY <1>2, <1>8, PersistAside
<1> HIDE DEF p
<1>10. NoRamp \in Ramps
  BY DEF NoRamp, Ramps
<1>11. Ended(p, h) /\ Complete(g) = h
  BY <1>5, <1>9, <1>10 DEF Good, Ended, Elsewhere, Conditions
<1> QED  BY <1>9, <1>11, EndedGood
----------------------------------------------------------------------------
(* Pauses and failures.                                                    *)

LEMMA PausedDeck ==
  ASSUME NEW k \in DeckStates, k.phase # "empty"
  PROVE  Paused(k) \in DeckStates /\ Paused(k).gated = k.gated /\ Paused(k).muted = k.muted
         /\ Paused(k).phase = "paused"
BY DEF Paused, DeckStates, Phases, Backends

LEMMA PauseIs ==
  ASSUME NEW g, Good(g), NEW audio \in BOOLEAN
  PROVE  Pausing(g, audio, Pause(g, audio))
<1> DEFINE o == OutdatePreload(g)
           a == [o.auto EXCEPT !.run = "paused"]
           x == [o EXCEPT !.auto = a]
           y == Abort(x)
           held == IF audio THEN Playing(g) ELSE {}
           b == [y.auto EXCEPT !.held = IF audio THEN held ELSE y.auto.held]
           e == [d \in Decks |-> IF d \in held THEN Paused(y.deck[d]) ELSE y.deck[d]]
           h == [[y EXCEPT !.auto = b] EXCEPT !.deck = e]
<1>1. /\ Aside(g, o) /\ o.deck = g.deck /\ o.row = g.row /\ o.auto = [g.auto EXCEPT !.busy = FALSE]
      /\ o.commits = g.commits /\ o.coord = g.coord
  BY OutdateAside
<1>2. Good(o) /\ o \in Conditions /\ o.auto \in Autos /\ o.auto.busy = FALSE /\ o.auto.gate = g.auto.gate
      /\ o.fader = g.fader
  <2>1. Good(o) /\ o \in Conditions /\ o.fader = g.fader
    BY <1>1, AsideGood DEF Aside
  <2>2. g.auto \in Autos
    BY Parts DEF Good
  <2> QED  BY <1>1, <2>1, <2>2, Parts DEF Autos
<1>22. Working(o) = {} /\ Answers(o) = {} /\ Finishes(o) = Finishes(g) /\ o.late = g.late /\ o.tr = g.tr
  BY <1>1, OutdateStops DEF Aside
<1> HIDE DEF o
<1>3. a \in Autos /\ a.run = "paused" /\ a.busy = FALSE /\ a.gate = g.auto.gate
  BY <1>2 DEF Autos
<1>4. [o EXCEPT !.auto.run = "paused"] = x
  BY <1>2 DEF Conditions
<1> HIDE DEF a
<1>5. /\ x \in Conditions /\ x.deck = o.deck /\ x.row = o.row /\ x.fader = o.fader /\ x.auto = a /\ x.commits = o.commits
      /\ x.coord = o.coord /\ x.tr = o.tr /\ x.ramp = o.ramp /\ x.late = o.late /\ x.pool = o.pool
      /\ x.calls = o.calls
  BY <1>2, <1>3 DEF Conditions
<1> HIDE DEF x
<1>6. Faded(x)
  BY <1>2, <1>5 DEF Good, Faded
<1>7. /\ y \in Conditions /\ y.tr = NoTransition /\ Elsewhere(x, y) /\ y.fader = x.fader
      /\ ~y.ramp.on /\ ~y.ramp.armed
  BY <1>5, <1>6, AbortIs
<1>72. g.tr.state = "idle" => y.late = g.late
  BY <1>5, <1>22 DEF Abort, IsTransitioning
<1>73. y.pool = o.pool /\ y.calls = o.calls
  BY <1>5, <1>7 DEF Elsewhere
<1> HIDE DEF y
<1>8. y.deck = g.deck /\ y.auto = a /\ y.deck \in [Decks -> DeckStates] /\ y.row = g.row /\ y.commits = g.commits
      /\ y.coord = g.coord /\ y.fader = g.fader
  BY <1>1, <1>2, <1>5, <1>7, Parts DEF Elsewhere
<1>9. held \in SUBSET Decks /\ \A d \in held : g.deck[d].phase = "playing"
  BY DEF Playing
<1>10. b \in Autos /\ b.run = "paused" /\ b.busy = FALSE /\ b.gate = g.auto.gate
  <2>1. (IF audio THEN held ELSE y.auto.held) \in SUBSET Decks
    BY <1>3, <1>8, <1>9 DEF Autos
  <2> QED  BY <1>3, <1>8, <2>1 DEF Autos
<1>11. Pause(g, audio) = h
  BY <1>4, <1>7 DEF Pause, Conditions, o, y, Paused
<1>12. /\ e \in [Decks -> DeckStates] /\ (~audio => e = g.deck)
       /\ \A d \in Decks : /\ e[d].phase = "empty" <=> g.deck[d].phase = "empty"
                           /\ e[d].muted = g.deck[d].muted
  <2>1. ASSUME NEW d \in Decks
        PROVE  e[d] \in DeckStates /\ (e[d].phase = "empty" <=> g.deck[d].phase = "empty") /\ e[d].muted = g.deck[d].muted
    <3>1. g.deck[d] \in DeckStates
      BY <1>8
    <3>2. CASE d \in held
      <4>1. e[d] = Paused(g.deck[d]) /\ g.deck[d].phase = "playing"
        BY <1>8, <1>9, <3>2
      <4> QED  BY <3>1, <4>1, PausedDeck
    <3>3. CASE d \notin held
      BY <1>8, <3>1, <3>3
    <3> QED  BY <3>2, <3>3
  <2>2. ~audio => e = g.deck
    BY <1>8
  <2> QED  BY <2>1, <2>2
<1> HIDE DEF b, e, held
<1>13. /\ h \in Conditions /\ h.tr = NoTransition /\ ~h.ramp.on /\ ~h.ramp.armed /\ h.auto = b /\ h.deck = e
       /\ h.pool = y.pool /\ h.row = g.row /\ h.commits = g.commits /\ h.coord = g.coord /\ h.fader = g.fader
       /\ h.calls = y.calls /\ h.late = y.late
  BY <1>7, <1>8, <1>10, <1>12 DEF Conditions
<1> HIDE DEF h
<1>14. Good(h)
  <2>1. Len(h.pool) <= 2
    BY <1>2, <1>5, <1>7, <1>13 DEF Elsewhere, Good
  <2>2. \A d \in Decks : h.deck[d].muted => h.auto.gate /\ h.auto.run # "running"
    BY <1>10, <1>12, <1>13 DEF Good, Opened
  <2> QED  BY <1>13, <2>1, <2>2, IdleGood
<1>15. Working(h) = {} /\ Answers(h) = {} /\ Finishes(h) = Finishes(g)
  BY <1>13, <1>22, <1>73 DEF Working, Answers, Finishes
<1> QED  BY <1>10, <1>11, <1>12, <1>13, <1>14, <1>15, <1>72 DEF Pausing

LEMMA ReopenedDeck ==
  ASSUME NEW k \in DeckStates
  PROVE  /\ Reopened(k) \in DeckStates /\ ~Reopened(k).gated /\ ~Reopened(k).muted /\ Reopened(k).phase = k.phase
         /\ Reopened(k).title = k.title /\ Reopened(k).entry = k.entry /\ Reopened(k).backend = k.backend
BY DEF Reopened, DeckStates

LEMMA OutgoingRestoredIs ==
  ASSUME NEW g, Good(g), NEW out \in Decks, g.tr.state \in {"idle", "wait"}
  PROVE  Restoring(g, out, OutgoingRestored(g, out))
<1> DEFINE k == Reopened(g.deck[out])
           x == [g EXCEPT !.deck[out] = k]
           h == [x EXCEPT !.fader = Side(out)]
<1>1. g \in Conditions /\ g.deck \in [Decks -> DeckStates] /\ g.deck[out] \in DeckStates /\ Side(out) \in 0..3
  BY Parts, Constants DEF Good
<1>2. k \in DeckStates /\ ~k.gated /\ ~k.muted
  BY <1>1, ReopenedDeck
<1>3. OutgoingRestored(g, out) = h
  BY <1>1 DEF OutgoingRestored, Conditions, Reopened
<1> HIDE DEF k
<1>4. Redecked(g, out, k, x)
  BY <1>2, DeckChanges
<1> HIDE DEF x
<1>5. x.tr = g.tr /\ x.ramp = g.ramp /\ x.late = g.late /\ x \in Conditions /\ Faded(x) /\ Opened(x) /\ Len(x.pool) <= 2
  BY <1>4 DEF Redecked, Aside, Good
<1>6. /\ h \in Conditions /\ h.deck = x.deck /\ h.fader = Side(out) /\ h.tr = g.tr /\ h.ramp = g.ramp /\ h.late = g.late
      /\ h.auto = x.auto /\ h.row = x.row /\ h.pool = x.pool /\ h.calls = x.calls /\ h.commits = x.commits
      /\ h.coord = x.coord
  BY <1>1, <1>5 DEF Conditions
<1> HIDE DEF h
<1>7. Good(h)
  BY <1>5, <1>6 DEF Good, Faded, Opened
<1> QED  BY <1>3, <1>4, <1>6, <1>7 DEF Restoring, Redecked, k

LEMMA AutoChanges ==
  ASSUME NEW g, Good(g), NEW a \in Autos, a.run = g.auto.run, a.gate = g.auto.gate
  PROVE  LET h == [g EXCEPT !.auto = a]
         IN  /\ Aside(g, h) /\ Good(h) /\ h.deck = g.deck /\ h.row = g.row /\ h.auto = a
             /\ h.pool = g.pool /\ h.calls = g.calls /\ h.commits = g.commits /\ h.coord = g.coord
<1> DEFINE h == [g EXCEPT !.auto = a]
<1>1. g \in Conditions
  BY DEF Good
<1>2. /\ Aside(g, h) /\ h.deck = g.deck /\ h.row = g.row /\ h.auto = a
      /\ h.pool = g.pool /\ h.calls = g.calls /\ h.commits = g.commits /\ h.coord = g.coord
  BY <1>1 DEF Good, Aside, Conditions
<1> HIDE DEF h
<1>3. Good(h)
  BY <1>2, AsideGood
<1> QED  BY <1>2, <1>3 DEF h

LEMMA Skipped == [status |-> "skipped", deck |-> NoDeck] \in Assignments
BY DEF Assignments, Statuses, SomeDeck

LEMMA SkipIncomingIs ==
  ASSUME NEW g, Good(g), g.tr.state = "wait"
  PROVE  \E w : Skipping(g, w) /\ SkipIncoming(g, g.tr.out) = AutoLoad(w)
<1> DEFINE out == g.tr.out
           in == Other(out)
           t == g.deck[in].entry
           o == OutdatePreload(g)
           g1 == OutgoingRestored(o, out)
           playing == t # Nothing /\ g1.row[t].status = "playing"
           n == NewPlayback(g1, t)
           e == Eject(n, in)
           r == [e.row EXCEPT ![t] = [status |-> "skipped", deck |-> NoDeck]]
           y == [e EXCEPT !.row[t] = [status |-> "skipped", deck |-> NoDeck]]
           g2 == IF playing THEN y ELSE g1
           k == Reopened(g2.deck[in])
           a == [g2.auto EXCEPT !.suppressed = @ \ {in}]
           x == [g2 EXCEPT !.deck[in] = k]
           g3 == [g2 EXCEPT !.deck[in].gated = FALSE, !.deck[in].muted = FALSE, !.auto.suppressed = @ \ {in}]
           z == Reset(g3)
           w == [z EXCEPT !.auto.run = "running"]
<1>1. g \in Conditions /\ g.tr \in Handovers /\ g.deck \in [Decks -> DeckStates]
  BY Parts DEF Good, NoTransition
<1>2. /\ out \in Decks /\ in \in Decks /\ t \in Nothing..N /\ t \in Nothing..Library /\ in # out /\ in = g.tr.in
      /\ g.deck[in] \in DeckStates
  <2>1. out \in Decks /\ in \in Decks /\ in # out /\ in = g.tr.in
    BY <1>1, Constants DEF Handovers
  <2>2. g.deck[in] \in DeckStates
    BY <1>1, <2>1
  <2> QED  BY <2>1, <2>2, Constants DEF DeckStates
<1>3. /\ Good(o) /\ o.tr = g.tr /\ o.late = g.late /\ o.deck = g.deck /\ o.row = g.row /\ o.commits = g.commits
      /\ o.auto.busy = FALSE
      /\ Working(o) = {} /\ Answers(o) = {} /\ Finishes(o) = Finishes(g)
  <2>1. g.auto \in Autos
    BY <1>1, Parts
  <2> QED  BY <2>1, OutdateAside, OutdateStops, AsideGood DEF Aside, Autos
<1>4. SkipIncoming(g, out) = AutoLoad(w)
  BY DEF SkipIncoming
<1>42. out = g.tr.out
  OBVIOUS
<1> HIDE DEF o, out, in, t
<1>5. /\ Good(g1) /\ g1.tr = g.tr /\ g1.fader = Side(out) /\ g1.late = g.late /\ g1.auto = o.auto /\ g1.pool = o.pool
      /\ g1.calls = o.calls /\ Ending(g1) = Ending(g) /\ Played(g1) = Played(g)
      /\ g1.deck[out] = Reopened(g.deck[out]) /\ g1.deck[in] = g.deck[in]
  <2>1. Restoring(o, out, g1)
    BY <1>2, <1>3, OutgoingRestoredIs
  <2> QED  BY <1>1, <1>2, <1>3, <2>1 DEF Restoring, Ending, Played
<1> HIDE DEF g1
<1> DEFINE s == [EmptyDeck(g.deck[in]) EXCEPT !.backend = "silent"]
<1>6. /\ Good(g2) /\ g2.tr = g.tr /\ g2.fader = Side(out) /\ g2.late = g.late /\ g2.auto = o.auto /\ g2.pool = o.pool
      /\ g2.calls = o.calls /\ Ending(g2) = Ending(g) /\ Played(g2) \subseteq Played(g)
      /\ g2.deck[out] = Reopened(g.deck[out]) /\ g2.deck[in] \in {g.deck[in], s}
  <2>1. CASE playing
    <3>1. /\ Aside(g1, n) /\ Good(n) /\ n.tr = g.tr /\ n.deck = g1.deck /\ n.row = g1.row /\ n.auto = o.auto
          /\ n.pool = o.pool /\ n.calls = o.calls /\ Ending(n) = Ending(g)
      BY <1>2, <1>5, NewPlaybackAside, AsideGood DEF Aside
    <3>2. n.fader = g1.fader /\ n.late = g1.late /\ n.deck \in [Decks -> DeckStates]
      BY <3>1, Parts DEF Aside, Good
    <3> HIDE DEF n
    <3>3. Redecked(n, in, s, e)
      BY <1>2, <1>5, <3>1, DetachIs
    <3> HIDE DEF e, s
    <3>31. /\ Good(e) /\ Aside(n, e) /\ e.deck = [n.deck EXCEPT ![in] = s] /\ e.row = n.row /\ e.auto = n.auto
           /\ e.pool = n.pool /\ e.calls = n.calls /\ e.commits = n.commits
      BY <3>3 DEF Redecked
    <3>32. e.deck[in] = s /\ e.deck[out] = g1.deck[out]
      BY <1>2, <3>1, <3>2, <3>31
    <3>33. Ending(e) = Ending(g)
      BY <3>1, <3>31 DEF Ending
    <3>34. e.tr = n.tr /\ e.fader = n.fader /\ e.late = n.late
      BY <3>31 DEF Aside
    <3>4. /\ Good(e) /\ e.tr = g.tr /\ e.fader = Side(out) /\ e.late = g.late /\ e.row = g1.row /\ e.auto = o.auto
          /\ e.pool = o.pool /\ e.calls = o.calls /\ Ending(e) = Ending(g)
          /\ e.deck[in] = s /\ e.deck[out] = g1.deck[out]
      BY <1>5, <3>1, <3>2, <3>31, <3>32, <3>33, <3>34
    <3>5. r \in [Titles -> Assignments] /\ e.row \in [Titles -> Assignments]
      BY <3>4, Skipped, Parts DEF Good
    <3>6. y = [e EXCEPT !.row = r] /\ \A q \in Titles : r[q].status = "played" => e.row[q].status = "played"
      BY <3>4, <3>5 DEF Good, Conditions
    <3> HIDE DEF r, y
    <3>7. /\ Aside(e, y) /\ Good(y) /\ y.deck = e.deck /\ y.row = r /\ y.auto = e.auto
          /\ y.pool = e.pool /\ y.calls = e.calls /\ y.commits = e.commits
      BY <3>4, <3>5, <3>6, RowAside
    <3>8. Ending(y) = Ending(g) /\ Played(y) \subseteq Played(g) /\ y.tr = g.tr /\ y.fader = Side(out) /\ y.late = g.late
      <4>1. y.tr = e.tr /\ y.fader = e.fader /\ y.late = e.late
        BY <3>7 DEF Aside
      <4>2. Ending(y) = Ending(e)
        BY <3>7 DEF Ending
      <4>3. Played(y) \subseteq Played(e) /\ Played(e) = Played(g1)
        BY <3>4, <3>6, <3>7 DEF Played
      <4> QED  BY <1>5, <3>4, <4>1, <4>2, <4>3
    <3>9. g2 = y
      BY <2>1
    <3> QED  BY <1>5, <3>4, <3>7, <3>8, <3>9
  <2>2. CASE ~playing
    BY <1>5, <2>2
  <2> QED  BY <2>1, <2>2
<1> HIDE DEF g2, s
<1>7. g2.deck[in] \in DeckStates /\ g2.auto \in Autos /\ g2.auto.run = "running" /\ g2.auto.busy = FALSE
      /\ g2.deck \in [Decks -> DeckStates]
  BY <1>2, <1>3, <1>6, Parts DEF Good, Opened
<1>8. k \in DeckStates /\ ~k.gated /\ ~k.muted
  BY <1>7, ReopenedDeck
<1>9. a \in Autos /\ a.run = "running" /\ a.gate = g2.auto.gate /\ a.busy = FALSE
  BY <1>7 DEF Autos
<1>10. g3 = [x EXCEPT !.auto = a]
  <2>1. g2 \in Conditions /\ in \in Decks
    BY <1>2, <1>6 DEF Good
  <2> QED  BY <1>7, <2>1 DEF Conditions, Reopened
<1>102. k = Reopened(g2.deck[in])
  OBVIOUS
<1> HIDE DEF k, a, g3
<1>11. Redecked(g2, in, k, x)
  BY <1>2, <1>6, <1>8, DeckChanges
<1> HIDE DEF x
<1>12. /\ Good(x) /\ x.tr = g.tr /\ x.fader = Side(out) /\ x.late = g.late /\ x.auto = g2.auto /\ x.pool = o.pool
       /\ x.calls = o.calls /\ Ending(x) = Ending(g) /\ Played(x) \subseteq Played(g)
       /\ x.deck[out] = Reopened(g.deck[out]) /\ x.deck[in] = k
  <2>1. /\ Good(x) /\ Aside(g2, x) /\ x.deck = [g2.deck EXCEPT ![in] = k] /\ x.row = g2.row /\ x.auto = g2.auto
        /\ x.pool = g2.pool /\ x.calls = g2.calls /\ x.commits = g2.commits
    BY <1>11 DEF Redecked
  <2>2. x.deck[in] = k /\ x.deck[out] = g2.deck[out]
    BY <1>2, <1>7, <2>1
  <2>3. Ending(x) = Ending(g2) /\ Played(x) = Played(g2)
    BY <2>1 DEF Ending, Played
  <2>4. x.tr = g2.tr /\ x.fader = g2.fader /\ x.late = g2.late
    BY <2>1 DEF Aside
  <2> QED  BY <1>6, <2>1, <2>2, <2>3, <2>4
<1>13. /\ Aside(x, g3) /\ Good(g3) /\ g3.deck = x.deck /\ g3.row = x.row /\ g3.auto = a
       /\ g3.pool = x.pool /\ g3.calls = x.calls /\ g3.commits = x.commits
  BY <1>7, <1>9, <1>10, <1>12, AutoChanges
<1>14. g3.tr = g.tr /\ g3.fader = Side(out) /\ g3.late = g.late
  BY <1>12, <1>13 DEF Aside
<1>15. Ended(g3, z) /\ Good(z) /\ z.late = g.late
  BY <1>13, <1>14, ResetEnds, NothingLate
<1> HIDE DEF z
<1>16. /\ Good(z) /\ z.tr = NoTransition /\ z.fader = Side(out) /\ z.auto = a /\ z.deck = x.deck /\ z.pool = o.pool
       /\ z.calls = o.calls /\ z.row = x.row /\ z.commits = x.commits
  BY <1>12, <1>13, <1>14, <1>15 DEF Ended, Elsewhere
<1>17. w = [z EXCEPT !.auto = a]
  BY <1>9, <1>16 DEF Good, Conditions, Autos
<1> HIDE DEF w
<1>18. /\ Aside(z, w) /\ Good(w) /\ w.deck = z.deck /\ w.row = z.row /\ w.auto = a
       /\ w.pool = z.pool /\ w.calls = z.calls /\ w.commits = z.commits
  BY <1>9, <1>16, <1>17, AutoChanges
<1>19. Skipping(g, w)
  <2>1. w.tr = NoTransition /\ w.fader = Side(out) /\ w.late = g.late
    BY <1>15, <1>16, <1>18 DEF Aside
  <2>2. Working(w) = {} /\ Answers(w) = {} /\ Finishes(w) = Finishes(g) /\ Ending(w) = Ending(g)
        /\ Played(w) \subseteq Played(g)
    <3>1. w.pool = o.pool /\ w.calls = o.calls
      BY <1>16, <1>18
    <3>2. Working(w) = Working(o) /\ Answers(w) = Answers(o) /\ Finishes(w) = Finishes(o)
      BY <3>1 DEF Working, Answers, Finishes
    <3>3. w.commits = x.commits /\ w.row = x.row
      BY <1>16, <1>18
    <3>4. Ending(w) = Ending(x) /\ Played(w) = Played(x)
      BY <3>3 DEF Ending, Played
    <3> QED  BY <1>3, <1>12, <3>2, <3>4
  <2>3. w.deck[out] = Reopened(g.deck[out]) /\ w.deck[in] \in {Reopened(g.deck[in]), Reopened(s)}
    BY <1>6, <1>12, <1>16, <1>18, <1>102
  <2> QED  BY <1>2, <1>9, <1>18, <1>42, <2>1, <2>2, <2>3 DEF Skipping, s
<1> QED  BY <1>4, <1>19, <1>42

LEMMA SkipIncomingGood ==
  ASSUME NEW g, Good(g), g.tr.state = "wait"
  PROVE  Good(SkipIncoming(g, g.tr.out))
<1>1. PICK w : Skipping(g, w) /\ SkipIncoming(g, g.tr.out) = AutoLoad(w)
  BY SkipIncomingIs
<1> QED  BY <1>1, AutoLoadAside, AsideGood DEF Skipping

LEMMA LoseIncomingIs ==
  ASSUME NEW g, Good(g), g.tr.state = "crossfade", ~g.ramp.on
  PROVE  Losing(g, LoseIncoming(g, g.tr.out))
<1> DEFINE out == g.tr.out
           in == Other(out)
           t == g.deck[in].entry
           x == [g EXCEPT !.tr = NoTransition]
           p == Pause(x, FALSE)
           g1 == OutgoingRestored(p, out)
           k == [g1.deck[in] EXCEPT !.muted = TRUE]
           a == [g1.auto EXCEPT !.gate = TRUE]
           g2 == [g1 EXCEPT !.deck[in].muted = TRUE, !.auto.gate = TRUE]
           y == [[g1 EXCEPT !.deck = [g1.deck EXCEPT ![in] = k]] EXCEPT !.auto = a]
           n == NewPlayback(g2, t)
           r == [n.row EXCEPT ![t] = [status |-> "ready", deck |-> in]]
           h == [n EXCEPT !.row[t] = [status |-> "ready", deck |-> in]]
<1>1. g \in Conditions /\ g.tr \in Handovers /\ g.deck \in [Decks -> DeckStates]
  BY Parts DEF Good, NoTransition
<1>2. out \in Decks /\ in \in Decks /\ t \in Nothing..Library /\ in # out /\ in = g.tr.in
  <2>1. out \in Decks /\ in \in Decks /\ in # out /\ in = g.tr.in
    BY <1>1, Constants DEF Handovers
  <2>2. g.deck[in] \in DeckStates
    BY <1>1, <2>1, Parts
  <2> QED  BY <2>1, <2>2, Constants DEF DeckStates
<1>22. out = g.tr.out
  OBVIOUS
<1>3. LoseIncoming(g, out) = IF t # Nothing /\ g2.row[t].status = "playing" THEN h ELSE g2
  BY DEF LoseIncoming
<1> HIDE DEF out, in, t
<1>4. /\ x \in Conditions /\ Len(x.pool) <= 2 /\ x.tr = NoTransition /\ x.ramp = g.ramp /\ x.deck = g.deck
      /\ x.auto = g.auto /\ x.late = g.late /\ x.calls = g.calls /\ x.commits = g.commits /\ x.row = g.row
  BY <1>1 DEF Good, Conditions
<1> HIDE DEF x
<1>5. Good(x)
  BY <1>4, IdleGood DEF Good, Faded, Opened
<1>6. Pausing(x, FALSE, p)
  BY <1>5, PauseIs
<1> HIDE DEF p
<1>62. /\ p.tr = NoTransition /\ p.deck = g.deck /\ p.late = g.late /\ p.row = g.row /\ p.commits = g.commits
       /\ p.auto.run = "paused" /\ Working(p) = {} /\ Answers(p) = {} /\ Finishes(p) = Finishes(g) /\ Good(p)
  <2>1. x.tr.state = "idle" /\ Finishes(x) = Finishes(g)
    BY <1>4 DEF NoTransition, Finishes
  <2> QED  BY <1>4, <1>6, <2>1 DEF Pausing
<1>7. Restoring(p, out, g1)
  BY <1>2, <1>62, OutgoingRestoredIs DEF NoTransition
<1> HIDE DEF g1
<1>8. /\ Good(g1) /\ g1.tr = NoTransition /\ g1.auto.run = "paused" /\ g1.auto \in Autos /\ g1 \in Conditions
      /\ g1.deck \in [Decks -> DeckStates] /\ g1.deck[in] \in DeckStates
  BY <1>2, <1>62, <1>7, Parts DEF Restoring, Good
<1>82. /\ g1.deck = [g.deck EXCEPT ![out] = Reopened(g.deck[out])] /\ g1.fader = Side(out) /\ g1.late = g.late
       /\ g1.pool = p.pool /\ g1.calls = p.calls /\ g1.row = g.row /\ g1.commits = g.commits
  BY <1>62, <1>7 DEF Restoring
<1>9. k \in DeckStates /\ a \in Autos /\ a.run = "paused" /\ a.gate = TRUE
  BY <1>8 DEF DeckStates, Autos
<1>10. g2 = y
  BY <1>2, <1>8 DEF Conditions
<1>102. k = [g1.deck[in] EXCEPT !.muted = TRUE]
  OBVIOUS
<1> HIDE DEF k, a, g2
<1>11. /\ y \in Conditions /\ y.tr = NoTransition /\ y.ramp = g1.ramp /\ y.pool = g1.pool /\ y.auto = a
       /\ y.fader = g1.fader /\ y.late = g1.late /\ y.calls = g1.calls /\ y.row = g1.row /\ y.commits = g1.commits
       /\ y.deck = [g1.deck EXCEPT ![in] = k]
  BY <1>2, <1>8, <1>9 DEF Conditions
<1> HIDE DEF y
<1>12. Good(g2)
  <2>1. ~g1.ramp.on /\ ~g1.ramp.armed /\ Len(g1.pool) <= 2
    BY <1>8 DEF Good, Faded, NoTransition
  <2> QED  BY <1>9, <1>10, <1>11, <2>1, IdleGood
<1>122. y.deck = [g.deck EXCEPT ![g.tr.out] = Reopened(g.deck[g.tr.out]), ![g.tr.in] = [g.deck[g.tr.in] EXCEPT !.muted = TRUE]]
  <2>1. g1.deck[in] = g.deck[in]
    BY <1>1, <1>2, <1>82
  <2> QED  BY <1>2, <1>22, <1>82, <1>11, <1>102, <2>1
<1>123. Losing(g, g2)
  <2>1. Working(y) = Working(p) /\ Answers(y) = Answers(p) /\ Finishes(y) = Finishes(p)
    BY <1>82, <1>11 DEF Working, Answers, Finishes
  <2>2. Ending(y) = Ending(g) /\ Played(y) = Played(g)
    BY <1>82, <1>11 DEF Ending, Played
  <2> QED  BY <1>22, <1>62, <1>82, <1>9, <1>10, <1>11, <1>12, <1>122, <2>1, <2>2 DEF Losing
<1>13. /\ Good(n) /\ Aside(g2, n) /\ n.deck = g2.deck /\ n.row = g2.row /\ n.auto = g2.auto /\ n.pool = g2.pool
       /\ n.calls = g2.calls /\ Ending(n) = Ending(g2)
  BY <1>2, <1>12, NewPlaybackAside, AsideGood
<1> HIDE DEF n
<1>14. r \in [Titles -> Assignments]
  <2>1. [status |-> "ready", deck |-> in] \in Assignments
    BY <1>2 DEF Assignments, Statuses, SomeDeck
  <2> QED  BY <1>13, <2>1, Parts DEF Good
<1>15. h = [n EXCEPT !.row = r]
  BY <1>13 DEF Good, Conditions
<1>152. \A q \in Titles : r[q].status = "played" => n.row[q].status = "played"
  <2>1. n.row \in [Titles -> Assignments]
    BY <1>13, Parts DEF Good
  <2> QED  BY <2>1
<1> HIDE DEF r, h
<1>16. /\ Aside(n, h) /\ Good(h) /\ h.deck = n.deck /\ h.row = r /\ h.auto = n.auto /\ h.pool = n.pool
       /\ h.calls = n.calls /\ h.commits = n.commits
  BY <1>13, <1>14, <1>15, RowAside
<1>17. Losing(g, h)
  <2>1. h.tr = g2.tr /\ h.fader = g2.fader /\ h.late = g2.late
    BY <1>13, <1>16 DEF Aside
  <2>2. Working(h) = Working(g2) /\ Answers(h) = Answers(g2) /\ Finishes(h) = Finishes(g2)
    BY <1>13, <1>16 DEF Working, Answers, Finishes
  <2>3. Ending(h) = Ending(g2)
    BY <1>13, <1>16 DEF Ending
  <2>4. Played(h) \subseteq Played(g2)
    BY <1>13, <1>152, <1>16 DEF Played
  <2> QED  BY <1>123, <1>13, <1>16, <2>1, <2>2, <2>3, <2>4 DEF Losing
<1> QED  BY <1>3, <1>123, <1>17, <1>22

LEMMA LoseIncomingGood ==
  ASSUME NEW g, Good(g), g.tr.state = "crossfade", ~g.ramp.on
  PROVE  Good(LoseIncoming(g, g.tr.out))
BY LoseIncomingIs DEF Losing
----------------------------------------------------------------------------
(* The operator's commands.                                                *)

LEMMA OverrideGood ==
  ASSUME NEW g, Good(g)
  PROVE  /\ Good(Override(g)) /\ Override(g).tr = NoTransition /\ Override(g).deck = g.deck /\ Override(g).row = g.row
         /\ Override(g).fader = g.fader
<1> DEFINE o == OutdatePreload(g)
           b == Abort(o)
           a == [b.auto EXCEPT !.run = "stopped"]
           h == [b EXCEPT !.auto = a]
<1>1. Good(o) /\ o.deck = g.deck /\ o.row = g.row /\ o.fader = g.fader /\ o.tr = g.tr
  BY OutdateAside, AsideGood DEF Aside
<1> HIDE DEF o
<1>2. /\ Good(b) /\ b.tr = NoTransition /\ b.deck = g.deck /\ b.row = g.row /\ b.fader = g.fader
      /\ b \in Conditions /\ b.auto \in Autos
  BY <1>1, AbortEnds, Parts DEF Elsewhere, Good
<1>3. [b EXCEPT !.auto.run = "stopped"] = h
  BY <1>2 DEF Conditions
<1>4. Override(g) = IF g.auto.run = "running" \/ IsTransitioning(g) THEN h ELSE o
  BY <1>3 DEF Override, o
<1> HIDE DEF b
<1>5. a \in Autos /\ a.run = "stopped" /\ a.gate = b.auto.gate
  BY <1>2 DEF Autos
<1> HIDE DEF a
<1>6. /\ h \in Conditions /\ h.tr = NoTransition /\ h.deck = g.deck /\ h.row = g.row /\ h.fader = g.fader
      /\ h.ramp = b.ramp /\ h.pool = b.pool /\ h.auto = a
  BY <1>2, <1>5 DEF Conditions
<1> HIDE DEF h
<1>7. Good(h)
  BY <1>2, <1>5, <1>6, IdleGood DEF Good, Faded, Opened, NoTransition
<1>8. ~IsTransitioning(g) => g.tr = NoTransition
  BY Parts DEF Good, IsTransitioning, Handovers, NoTransition
<1> QED  BY <1>1, <1>4, <1>6, <1>7, <1>8

LEMMA DeckValue ==
  ASSUME NEW g, Good(g), NEW d \in Decks
  PROVE  g \in Conditions /\ g.deck \in [Decks -> DeckStates] /\ g.deck[d] \in DeckStates
BY Parts DEF Good

\* The deck d with another phase and backend.
LEMMA PhaseGood ==
  ASSUME NEW g, Good(g), NEW d \in Decks, g.deck[d].phase # "empty",
         NEW p \in Phases \ {"empty"}, NEW b \in Backends
  PROVE  Redecked(g, d, [g.deck[d] EXCEPT !.phase = p, !.backend = b],
                  [g EXCEPT !.deck[d].phase = p, !.deck[d].backend = b])
<1> DEFINE k == [g.deck[d] EXCEPT !.phase = p, !.backend = b]
<1>1. g \in Conditions /\ g.deck \in [Decks -> DeckStates] /\ g.deck[d] \in DeckStates
  BY DeckValue
<1>2. k \in DeckStates /\ k.gated = g.deck[d].gated /\ k.muted = g.deck[d].muted
  BY <1>1 DEF DeckStates
<1>3. [g EXCEPT !.deck[d].phase = p, !.deck[d].backend = b] = [g EXCEPT !.deck[d] = k]
  BY <1>1 DEF Conditions
<1> HIDE DEF k
<1>4. Redecked(g, d, k, [g EXCEPT !.deck[d] = k])
  BY <1>2, DeckChanges
<1> QED  BY <1>3, <1>4 DEF k

LEMMA UngateGood ==
  ASSUME NEW g, Good(g), NEW d \in Decks
  PROVE  Redecked(g, d, [g.deck[d] EXCEPT !.gated = FALSE], [g EXCEPT !.deck[d].gated = FALSE])
<1> DEFINE k == [g.deck[d] EXCEPT !.gated = FALSE]
<1>1. g \in Conditions /\ g.deck \in [Decks -> DeckStates] /\ g.deck[d] \in DeckStates
  BY DeckValue
<1>2. k \in DeckStates /\ k.gated = FALSE /\ k.muted = g.deck[d].muted
  BY <1>1, Ungated
<1>3. [g EXCEPT !.deck[d].gated = FALSE] = [g EXCEPT !.deck[d] = k]
  BY <1>1 DEF Conditions
<1> HIDE DEF k
<1>4. Redecked(g, d, k, [g EXCEPT !.deck[d] = k])
  BY <1>2, DeckChanges
<1> QED  BY <1>3, <1>4 DEF k

LEMMA StartUngated ==
  ASSUME NEW g, Good(g), NEW d \in Decks, g.deck[d].phase # "empty"
  PROVE  Good(StartDeck([g EXCEPT !.deck[d].gated = FALSE], d))
<1> DEFINE u == [g EXCEPT !.deck[d].gated = FALSE]
           k == [g.deck[d] EXCEPT !.gated = FALSE]
<1>1. Redecked(g, d, k, u)
  BY UngateGood
<1>2. g.deck \in [Decks -> DeckStates] /\ g.deck[d] \in DeckStates
  BY DeckValue
<1>3. k.phase = g.deck[d].phase
  BY <1>2 DEF DeckStates
<1> HIDE DEF u, k
<1>4. Good(u) /\ u.deck[d].phase # "empty"
  BY <1>1, <1>2, <1>3 DEF Redecked
<1>5. Good(StartDeck(u, d))
  BY Zenon, <1>4, StartDeckAside, AsideGood
<1> QED  BY <1>5 DEF u

LEMMA PlayingDeck ==
  ASSUME NEW k \in DeckStates, k.phase # "empty"
  PROVE  LET p == [k EXCEPT !.phase = "playing", !.backend = "starting"]
         IN  p \in DeckStates /\ p.gated = k.gated /\ p.muted = k.muted
BY DEF DeckStates, Phases, Backends

LEMMA StartAutomaticGood ==
  ASSUME NEW g, Good(g), g.tr = NoTransition, NEW due
  PROVE  Good(StartAutomatic(g, due))
<1> DEFINE resumed == IF g.auto.run = "paused" THEN {d \in g.auto.held : g.deck[d].phase = "paused"} ELSE {}
           e == [d \in Decks |-> IF d \in resumed
                                 THEN [g.deck[d] EXCEPT !.phase = "playing", !.backend = "starting"] ELSE g.deck[d]]
           a == [g.auto EXCEPT !.held = IF g.auto.run = "paused" THEN {} ELSE g.auto.held,
                               !.run = "running", !.suppressed = {}]
           x == [[g EXCEPT !.deck = e] EXCEPT !.auto = a]
<1>1. g \in Conditions /\ g.deck \in [Decks -> DeckStates] /\ g.auto \in Autos
  BY Parts DEF Good
<1>2. e \in [Decks -> DeckStates] /\ \A d \in Decks : e[d].muted = g.deck[d].muted
  <2>1. ASSUME NEW d \in Decks
        PROVE  e[d] \in DeckStates /\ e[d].muted = g.deck[d].muted
    <3>1. g.deck[d] \in DeckStates
      BY <1>1
    <3>2. CASE d \in resumed
      BY <3>1, <3>2, PlayingDeck
    <3>3. CASE d \notin resumed
      BY <3>1, <3>3
    <3> QED  BY <3>2, <3>3
  <2> QED  BY <2>1
<1>3. a \in Autos /\ a.gate = g.auto.gate
  BY <1>1 DEF Autos
<1>4. StartAutomatic(g, due) \in {g, Playback(AutoLoad(x), due)}
  BY <1>1 DEF StartAutomatic, Conditions
<1>5. g.auto.gate => StartAutomatic(g, due) = g
  BY DEF StartAutomatic
<1> HIDE DEF e, a
<1>6. /\ x \in Conditions /\ x.tr = NoTransition /\ x.ramp = g.ramp /\ x.pool = g.pool /\ x.deck = e /\ x.auto = a
  BY <1>1, <1>2, <1>3 DEF Conditions
<1> HIDE DEF x
<1>7. ~g.auto.gate => Good(x)
  BY <1>2, <1>6, IdleGood DEF Good, Faded, Opened, NoTransition
<1>8. ~g.auto.gate => Good(Playback(AutoLoad(x), due))
  BY <1>7, AutoLoadAside, AsideGood, PlaybackGood
<1> QED  BY <1>4, <1>5, <1>8

LEMMA FinishedGood ==
  ASSUME NEW g, Good(g), NEW t \in Nothing..N, NEW status \in {"played", "skipped"}
  PROVE  Good(Finished(g, t, status))
<1> DEFINE r == [g.row EXCEPT ![t] = [status |-> status, deck |-> IF status = "skipped" THEN NoDeck ELSE g.row[t].deck]]
<1>1. g \in Conditions /\ g.row \in [Titles -> Assignments]
  BY Parts DEF Good
<1>2. t # Nothing => r \in [Titles -> Assignments]
  <2>1. t # Nothing => t \in Titles
    BY Constants
  <2>2. t # Nothing => [status |-> status, deck |-> IF status = "skipped" THEN NoDeck ELSE g.row[t].deck] \in Assignments
    BY <1>1, <2>1 DEF Assignments, Statuses, SomeDeck
  <2> QED  BY <1>1, <2>1, <2>2
<1>3. Finished(g, t, status) = IF t = Nothing \/ g.row[t].status # "playing" THEN g ELSE [g EXCEPT !.row = r]
  BY <1>1 DEF Finished, Conditions
<1> HIDE DEF r
<1> QED  BY <1>2, <1>3, RowAside

LEMMA ManualStopGood ==
  ASSUME NEW g, Good(g), NEW d \in Decks, g.deck[d].title # Nothing
  PROVE  Good(ManualStop(g, d))
<1> DEFINE o == Override(g)
           x == [o EXCEPT !.deck[d].phase = "stopped", !.deck[d].backend = "silent"]
<1>1. g.deck[d] \in DeckStates
  BY DeckValue
<1>2. g.deck[d].phase # "empty" /\ g.deck[d].entry \in Nothing..N
  BY <1>1 DEF DeckStates
<1>3. Good(o) /\ o.deck = g.deck
  BY OverrideGood
<1> HIDE DEF o
<1>4. Redecked(o, d, [o.deck[d] EXCEPT !.phase = "stopped", !.backend = "silent"], x)
  BY Zenon, <1>2, <1>3, PhaseGood DEF Phases, Backends
<1> HIDE DEF x
<1>5. Good(x)
  BY <1>4 DEF Redecked
<1>6. Good(Finished(x, g.deck[d].entry, "played"))
  BY <1>2, <1>5, FinishedGood
<1> QED  BY <1>5, <1>6 DEF ManualStop, x, o

LEMMA ManualEjectGood ==
  ASSUME NEW g, Good(g), NEW d \in Decks
  PROVE  Good(ManualEject(g, d))
<1> DEFINE o == Override(g)
           e == Eject(o, d)
           a == [e.auto EXCEPT !.suppressed = @ \cup {d}]
           x == [e EXCEPT !.auto.suppressed = @ \cup {d}]
<1>1. g.deck[d].entry \in Nothing..N
  BY DeckValue DEF DeckStates
<1>2. Good(o)
  BY OverrideGood
<1> HIDE DEF o
<1>3. Good(e)
  BY <1>2, DetachIs DEF Redecked
<1> HIDE DEF e
<1>4. e \in Conditions /\ e.auto \in Autos
  BY <1>3, Parts DEF Good
<1>5. a \in Autos /\ a.run = e.auto.run /\ a.gate = e.auto.gate
  BY <1>4 DEF Autos
<1>6. x = [e EXCEPT !.auto = a]
  BY <1>4 DEF Conditions
<1> HIDE DEF a, x
<1>7. Good(x)
  BY <1>3, <1>5, <1>6, AutoChanges
<1> QED  BY <1>1, <1>7, FinishedGood DEF ManualEject, x, e, o

LEMMA LoadedDeck ==
  ASSUME NEW k \in DeckStates, NEW t \in 1..Library, NEW e \in {Nothing, t}, e \in Nothing..N
  PROVE  LET p == [k EXCEPT !.title = t, !.entry = e, !.phase = "loaded", !.backend = "silent", !.gated = FALSE]
         IN  p \in DeckStates /\ p.gated = FALSE /\ p.muted = k.muted
<1> DEFINE p == [k EXCEPT !.title = t, !.entry = e, !.phase = "loaded", !.backend = "silent", !.gated = FALSE]
<1>1. t \in Nothing..Library /\ t # Nothing
  BY Constants
<1>2. /\ p \in [title : Nothing..Library, entry : Nothing..N, phase : Phases, backend : Backends,
                gated : BOOLEAN, muted : BOOLEAN]
      /\ p.title = t /\ p.entry = e /\ p.phase = "loaded" /\ p.gated = FALSE /\ p.muted = k.muted
  BY <1>1 DEF DeckStates, Phases, Backends
<1> HIDE DEF p
<1>3. p \in DeckStates
  BY <1>1, <1>2 DEF DeckStates
<1> QED  BY <1>2, <1>3 DEF p

LEMMA ManualLoadGood ==
  ASSUME NEW g, Good(g), NEW d \in Decks
  PROVE  Good(ManualLoad(g, d))
<1> DEFINE o == Override(g)
           k == [o.deck[d] EXCEPT !.title = Library, !.entry = Nothing, !.phase = "loaded",
                                  !.backend = "silent", !.gated = FALSE]
           r == [t \in Titles |-> IF g.row[t].deck = d /\ g.row[t].status \in {"ready", "playing"}
                                  THEN [status |-> "skipped", deck |-> NoDeck] ELSE o.row[t]]
           x == [o EXCEPT !.deck[d] = k]
<1>1. Good(o) /\ o \in Conditions /\ o.deck[d] \in DeckStates /\ o.row \in [Titles -> Assignments]
  BY OverrideGood, DeckValue, Parts
<1>2. ManualLoad(g, d) = [x EXCEPT !.row = r]
  BY <1>1 DEF ManualLoad, Conditions
<1> HIDE DEF o
<1>3. k \in DeckStates /\ k.gated = FALSE /\ k.muted = o.deck[d].muted
  <2>1. Library \in 1..Library /\ Nothing \in {Nothing, Library} /\ Nothing \in Nothing..N
    BY Constants
  <2> QED  BY Zenon, <1>1, <2>1, LoadedDeck
<1>4. r \in [Titles -> Assignments]
  BY <1>1, Skipped
<1> HIDE DEF k, r
<1>5. Good(x)
  BY <1>1, <1>3, DeckChanges DEF Redecked
<1> HIDE DEF x
<1>6. Good([x EXCEPT !.row = r])
  BY <1>4, <1>5, RowAside
<1> QED  BY <1>2, <1>6

LEMMA ManualPauseGood ==
  ASSUME NEW g, Good(g), NEW d \in Decks, g.deck[d].phase = "playing"
  PROVE  Good(ManualPause(g, d))
<1> DEFINE o == IF g.auto.run = "running" THEN Pause(g, FALSE) ELSE Override(g)
<1>1. Good(o) /\ o.deck = g.deck
  BY PauseIs, OverrideGood DEF Pausing
<1>2. ManualPause(g, d) = [o EXCEPT !.deck[d].phase = "paused", !.deck[d].backend = "held"]
  BY DEF ManualPause
<1> HIDE DEF o
<1>3. Redecked(o, d, [o.deck[d] EXCEPT !.phase = "paused", !.backend = "held"],
               [o EXCEPT !.deck[d].phase = "paused", !.deck[d].backend = "held"])
  BY Zenon, <1>1, PhaseGood DEF Phases, Backends
<1> QED  BY <1>2, <1>3 DEF Redecked

LEMMA ManualResumeGood ==
  ASSUME NEW g, Good(g), NEW d \in Decks, g.deck[d].phase = "paused", NEW due
  PROVE  Good(ManualResume(g, d, due))
<1> DEFINE paused == g.auto.run = "paused"
           o == IF paused THEN g ELSE Override(g)
           s == StartDeck([o EXCEPT !.deck[d].gated = FALSE], d)
<1>1. Good(o) /\ o.deck = g.deck
  BY OverrideGood
<1>2. ManualResume(g, d, due) = IF paused THEN StartAutomatic(s, due) ELSE s
  BY DEF ManualResume
<1>3. Good(s)
  BY <1>1, StartUngated
<1>4. paused => s.tr = NoTransition
  <2>1. paused => g.tr = NoTransition
    BY Parts DEF Good, Opened, Handovers, NoTransition
  <2>2. paused => Redecked(g, d, [g.deck[d] EXCEPT !.gated = FALSE], [g EXCEPT !.deck[d].gated = FALSE])
    BY UngateGood
  <2> DEFINE u == [g EXCEPT !.deck[d].gated = FALSE]
  <2>3. paused => Good(u) /\ u.tr = NoTransition /\ u.deck = [g.deck EXCEPT ![d] = [g.deck[d] EXCEPT !.gated = FALSE]]
    BY <2>1, <2>2 DEF Redecked, Aside
  <2>4. g.deck \in [Decks -> DeckStates] /\ [g.deck[d] EXCEPT !.gated = FALSE].phase = "paused"
    BY DeckValue DEF DeckStates
  <2>5. s = StartDeck(IF paused THEN u ELSE [Override(g) EXCEPT !.deck[d].gated = FALSE], d)
    OBVIOUS
  <2> HIDE DEF u, s
  <2>6. paused => u.deck[d].phase # "empty"
    BY <2>3, <2>4
  <2>7. paused => s = StartDeck(u, d)
    BY <2>5
  <2>8. paused => Aside(u, StartDeck(u, d))
    BY Zenon, <2>3, <2>6, StartDeckAside
  <2> QED  BY <2>3, <2>7, <2>8 DEF Aside
<1> QED  BY <1>2, <1>3, <1>4, StartAutomaticGood

LEMMA ManualFaderGood ==
  ASSUME NEW g, Good(g), NEW x \in {0, 3}
  PROVE  Good(ManualFader(g, x))
<1> DEFINE p == Pause(g, FALSE)
           h == [p EXCEPT !.fader = x]
<1>1. CASE x = g.fader
  <2>1. [g EXCEPT !.fader = x] = g
    BY <1>1 DEF Good, Conditions
  <2> QED  BY <1>1, <2>1 DEF ManualFader
<1>2. CASE x # g.fader
  <2>1. Good(p) /\ p.tr = NoTransition
    BY PauseIs DEF Pausing
  <2>2. ManualFader(g, x) = h
    BY <1>2 DEF ManualFader
  <2> HIDE DEF p
  <2>3. /\ h \in Conditions /\ h.tr = p.tr /\ h.ramp = p.ramp /\ h.pool = p.pool /\ h.deck = p.deck /\ h.auto = p.auto
    <3>1. x \in 0..3
      OBVIOUS
    <3> QED  BY <2>1, <3>1 DEF Good, Conditions
  <2> HIDE DEF h
  <2> QED  BY <2>1, <2>2, <2>3, IdleGood DEF Good, Faded, Opened, NoTransition
<1> QED  BY <1>1, <1>2
----------------------------------------------------------------------------
(* Every action keeps it.                                                  *)

LEMMA DoneIs ==
  ASSUME NEW h \in Conditions, Done(h)
  PROVE  G' = h
BY DEF Done, G, Conditions

LEMMA DoneGood ==
  ASSUME NEW h, Good(h), Done(h)
  PROVE  Good(G)'
<1>1. G' = h
  BY DoneIs DEF Good
<1> QED  BY <1>1

LEMMA GIsNext ==
  /\ G'.deck = deck' /\ G'.fader = fader' /\ G'.tr = tr' /\ G'.ramp = ramp' /\ G'.late = late' /\ G'.auto = auto'
  /\ G'.row = row' /\ G'.pool = pool' /\ G'.calls = calls' /\ G'.commits = commits' /\ G'.coord = coord'
BY DEF G

LEMMA GConditions ==
  ASSUME deck \in [Decks -> DeckStates], fader \in 0..3, tr \in {NoTransition} \cup Handovers, ramp \in Ramps,
         late \in SUBSET (0..3), auto \in Autos, row \in [Titles -> Assignments], pool \in Seq(Jobs),
         calls \in SUBSET Calls, commits \in Seq(Ends), coord \in [1..Library -> Coords]
  PROVE  G \in Conditions
BY DEF G, Conditions

LEMMA GParts ==
  ASSUME Good(G)
  PROVE  /\ deck \in [Decks -> DeckStates] /\ fader \in 0..3 /\ tr \in {NoTransition} \cup Handovers
         /\ ramp \in Ramps /\ late \in SUBSET (0..3) /\ auto \in Autos /\ row \in [Titles -> Assignments]
         /\ pool \in Seq(Jobs) /\ calls \in SUBSET Calls /\ commits \in Seq(Ends)
         /\ coord \in [1..Library -> Coords] /\ Len(pool) <= 2
BY GIs, Parts DEF Good

LEMMA StatusTickGood ==
  ASSUME Good(G), StatusTick
  PROVE  Good(G)'
<1>1. PICK due \in BOOLEAN : Done(Playback(AutoLoad(Observe(Observe(G, "A"), "B")), due))
  BY DEF StatusTick
<1>2. Good(Observe(Observe(G, "A"), "B"))
  BY ObserveAside, Constants
<1>3. Good(AutoLoad(Observe(Observe(G, "A"), "B")))
  BY <1>2, AutoLoadAside, AsideGood
<1> QED  BY <1>1, <1>3, PlaybackGood, DoneGood

LEMMA TransitionCallsGood ==
  ASSUME Good(G), Poll \/ PollTimesOut \/ RenderTick \/ FinishTransition
  PROVE  Good(G)'
<1>1. tr \in {NoTransition} \cup Handovers /\ G.tr = tr /\ G.ramp = ramp /\ G.deck = deck
  BY GParts, GIs
<1>2. /\ tr.step = "poll" => tr.state = "wait"
      /\ tr.step = "render" => tr.state = "crossfade"
  BY <1>1 DEF Handovers, NoTransition
<1>3. CASE Poll
  BY <1>1, <1>2, <1>3, PolledGood, DoneGood DEF Poll
<1>4. CASE PollTimesOut
  BY <1>1, <1>2, <1>4, SkipIncomingGood, DoneGood DEF PollTimesOut
<1>5. CASE RenderTick
  <2>1. CASE deck[tr.in].backend = "playing"
    <3> DEFINE m == [tr EXCEPT !.state = "verify", !.step = "finish"]
               h == [G EXCEPT !.tr = m]
    <3>1. tr \in Handovers /\ tr.state = "crossfade" /\ ~ramp.on
      BY <1>1, <1>2, <1>5 DEF RenderTick, NoTransition
    <3>2. m \in Handovers /\ m.in = tr.in /\ m.state = "verify"
      BY <3>1 DEF Handovers
    <3>3. Done([G EXCEPT !.tr.state = "verify", !.tr.step = "finish"])
      BY <1>5, <2>1 DEF RenderTick
    <3>4. [G EXCEPT !.tr.state = "verify", !.tr.step = "finish"] = h
      BY <1>1 DEF Good, Conditions
    <3> HIDE DEF m
    <3>5. /\ h \in Conditions /\ h.tr = m /\ h.deck = G.deck /\ h.ramp = G.ramp /\ h.auto = G.auto /\ h.late = G.late
          /\ h.pool = G.pool /\ h.fader = G.fader
      BY <3>2 DEF Good, Conditions
    <3> HIDE DEF h
    <3>6. Good(h)
      BY <1>1, <3>1, <3>2, <3>5 DEF Good, Faded, Opened
    <3> QED  BY <3>3, <3>4, <3>6, DoneGood
  <2>2. CASE deck[tr.in].backend # "playing"
    <3>1. Done(LoseIncoming(G, G.tr.out)) /\ G.tr.state = "crossfade" /\ ~G.ramp.on
      BY <1>1, <1>2, <1>5, <2>2 DEF RenderTick
    <3> QED  BY <3>1, LoseIncomingGood, DoneGood
  <2> QED  BY <2>1, <2>2
<1>6. CASE FinishTransition
  BY <1>1, <1>6, CompleteGood, DoneGood DEF FinishTransition
<1> QED  BY <1>3, <1>4, <1>5, <1>6

LEMMA RampGood ==
  ASSUME Good(G), RampArms \/ RampWrites \/ RampWritesLate
  PROVE  Good(G)'
<1>1. /\ G' \in Conditions
      /\ deck' = deck /\ tr' = tr /\ auto' = auto /\ pool' = pool
  <2>1. CASE RampArms
    <3>1. ramp' \in Ramps
      <4>1. ramp \in Ramps /\ ramp.value \in 0..3 /\ ramp.target \in 0..3
        BY GParts DEF Ramps
      <4> DEFINE v == IF ramp.value < ramp.target THEN ramp.value + 1
                      ELSE IF ramp.value > ramp.target THEN ramp.value - 1 ELSE ramp.value
      <4>2. v \in 0..3
        BY <4>1
      <4>3. ramp' = [ramp EXCEPT !.armed = TRUE, !.value = v]
        BY <2>1 DEF RampArms
      <4> HIDE DEF v
      <4> QED  BY <4>1, <4>2, <4>3 DEF Ramps
    <3> QED  BY <2>1, <3>1, GParts DEF RampArms, G, Conditions
  <2>2. CASE RampWrites
    <3>1. ramp' \in Ramps /\ fader' \in 0..3
      BY <2>2, GParts DEF RampWrites, Ramps
    <3> QED  BY <2>2, <3>1, GParts DEF RampWrites, G, Conditions
  <2>3. CASE RampWritesLate
    BY <2>3, GParts DEF RampWritesLate, G, Conditions
  <2> QED  BY <2>1, <2>2, <2>3
<1>2. Opened(G')
  BY <1>1, GIs, GIsNext DEF Good, Opened
<1>3. Faded(G')
  <2>1. Faded(G) /\ ramp \in Ramps
    BY GParts DEF Good
  <2>2. CASE RampArms
    <3>1. ramp'.armed /\ ramp'.on /\ ramp'.target = ramp.target
      BY <2>1, <2>2 DEF RampArms, Ramps
    <3> QED  BY <2>1, <2>2, <3>1, GIs, GIsNext DEF RampArms, Faded
  <2>3. CASE RampWrites
    <3>1. ~ramp'.armed /\ ramp'.on = (ramp.value # ramp.target) /\ ramp'.target = ramp.target
      BY <2>1, <2>3 DEF RampWrites, Ramps
    <3> QED  BY Zenon, <2>1, <2>3, <3>1, GIs, GIsNext DEF RampWrites, Faded
  <2>4. CASE RampWritesLate
    BY <2>1, <2>4, GIs, GIsNext DEF RampWritesLate, Faded
  <2> QED  BY <2>2, <2>3, <2>4
<1> QED  BY <1>1, <1>2, <1>3, GIs, GIsNext DEF Good

\* What touches rows, executors and callbacks only.
LEMMA OutsideGood ==
  ASSUME Good(G), row' \in [Titles -> Assignments], pool' \in Seq(Jobs), Len(pool') <= 2, calls' \in SUBSET Calls,
         UNCHANGED <<deck, fader, tr, ramp, late, auto, commits, coord>>
  PROVE  Good(G)'
<1>1. G' \in Conditions
  BY GParts DEF G, Conditions
<1>2. Aside(G, G')
  BY <1>1, GIs, GIsNext DEF Aside
<1> QED  BY <1>2, AsideGood

LEMMA ReconciledIs ==
  ASSUME NEW r \in [Titles -> Assignments]
  PROVE  /\ Reconciled(r) \in [Titles -> Assignments]
         /\ \A t \in Titles : Reconciled(r)[t] = r[t] \/ (r[t].status = "ready" /\ deck[r[t].deck].title # t
                                                          /\ Reconciled(r)[t] = [status |-> "waiting", deck |-> NoDeck])
<1>1. [status |-> "waiting", deck |-> NoDeck] \in Assignments
  BY DEF Assignments, Statuses, SomeDeck
<1> QED  BY <1>1 DEF Reconciled

LEMMA PoolTail ==
  ASSUME Good(G), pool # << >>
  PROVE  /\ Tail(pool) \in Seq(Jobs) /\ Len(Tail(pool)) <= 2 /\ Head(pool) \in Jobs
         /\ Len(Tail(pool)) = Len(pool) - 1
BY GParts

\* The title a search finds is the first that waits.
LEMMA FirstWaiting ==
  ASSUME NEW r, Waiting(r) # {}
  PROVE  LET t == CHOOSE x \in Waiting(r) : \A y \in Waiting(r) : x <= y
         IN  t \in Waiting(r) /\ t \in Titles
<1>1. Waiting(r) \subseteq Nat
  BY Constants DEF Waiting
<1>2. PICK x \in Waiting(r) : \A y \in Waiting(r) : ~ (<<y, x>> \in OpToRel(<, Nat))
  BY <1>1, NatLessThanWellFounded, WFMin
<1>3. \A y \in Waiting(r) : ~ (y < x)
  BY <1>1, <1>2 DEF OpToRel
<1>4. \A y \in Waiting(r) : x <= y
  BY <1>1, <1>3
<1> QED  BY <1>4 DEF Waiting

LEMMA ExecutorCall ==
  ASSUME NEW kind \in {"missed", "followup"}
  PROVE  Call(kind, Nothing, NoDeck) \in Calls
BY Constants DEF Calls, Call, SomeDeck

LEMMA TitleCall ==
  ASSUME NEW kind \in {"adopt", "failed"}, NEW t \in Titles, NEW d \in Decks
  PROVE  Call(kind, t, d) \in Calls
BY Constants DEF Calls, Call, SomeDeck

LEMMA PrepareGood ==
  ASSUME Good(G), Prepare
  PROVE  Good(G)'
<1> DEFINE r == Reconciled(row)
           free == {d \in Decks \ auto.suppressed : deck[d].title = Nothing /\ deck[d].backend # "playing"}
           t == CHOOSE x \in Waiting(r) : \A y \in Waiting(r) : x <= y
           d == FirstOf(free)
           outcome == IF ~Head(pool).live THEN {}
                      ELSE IF free = {} \/ Waiting(r) = {} THEN {Call("missed", Nothing, NoDeck)}
                      ELSE IF Assigned(r, d) # {} THEN {Call("failed", t, d)} ELSE {Call("adopt", t, d)}
<1>1. /\ pool # << >> /\ pool' = Tail(pool) /\ calls' = calls \cup outcome
      /\ row' = IF ~Head(pool).live THEN row
                ELSE IF outcome = {Call("adopt", t, d)}
                     THEN [r EXCEPT ![t] = [status |-> "preparing", deck |-> d]] ELSE r
      /\ UNCHANGED <<deck, fader, tr, ramp, late, auto, commits, coord>>
  BY DEF Prepare
<1>2. /\ row \in [Titles -> Assignments] /\ calls \in SUBSET Calls
      /\ r \in [Titles -> Assignments]
  BY GParts, ReconciledIs
<1>3. Waiting(r) # {} => t \in Titles
  BY FirstWaiting
<1>4. free # {} => d \in Decks
  BY FirstIs
<1> HIDE DEF r, t, d
<1>5. outcome \in SUBSET Calls
  <2>1. free # {} /\ Waiting(r) # {} => Call("failed", t, d) \in Calls /\ Call("adopt", t, d) \in Calls
    BY <1>3, <1>4, TitleCall
  <2>2. Call("missed", Nothing, NoDeck) \in Calls
    BY ExecutorCall
  <2> QED  BY <2>1, <2>2
<1>6. row' \in [Titles -> Assignments]
  <2>1. CASE ~(free # {} /\ Waiting(r) # {} /\ Head(pool).live /\ Assigned(r, d) = {})
    <3>1. outcome # {Call("adopt", t, d)} \/ ~Head(pool).live
      <4>1. /\ Call("missed", Nothing, NoDeck) # Call("adopt", t, d)
            /\ Call("failed", t, d) # Call("adopt", t, d)
        BY DEF Call
      <4>2. outcome \in {{}, {Call("missed", Nothing, NoDeck)}, {Call("failed", t, d)}} \/ ~Head(pool).live
        BY <2>1
      <4> HIDE DEF outcome
      <4> QED  BY <4>1, <4>2
    <3> QED  BY <1>1, <1>2, <3>1
  <2>2. CASE free # {} /\ Waiting(r) # {}
    <3>1. [status |-> "preparing", deck |-> d] \in Assignments
      BY <1>4, <2>2 DEF Assignments, Statuses, SomeDeck
    <3> QED  BY <1>1, <1>2, <3>1
  <2> QED  BY <2>1, <2>2
<1> HIDE DEF outcome
<1>7. pool' \in Seq(Jobs) /\ Len(pool') <= 2
  BY <1>1, PoolTail
<1> QED  BY <1>1, <1>2, <1>5, <1>6, <1>7, OutsideGood

LEMMA CommitPreloadGood ==
  ASSUME Good(G), CommitPreload
  PROVE  Good(G)'
<1>1. /\ pool # << >> /\ pool' = Tail(pool) /\ Head(pool) \in Jobs /\ Head(pool).kind = "commit"
      /\ UNCHANGED <<deck, fader, tr, ramp, late, auto, commits, coord>>
  BY PoolTail DEF CommitPreload
<1>2. row \in [Titles -> Assignments] /\ calls \in SUBSET Calls
  BY GParts
<1>3. row' \in [Titles -> Assignments]
  <2>1. [status |-> "ready", deck |-> Head(pool).deck] \in Assignments
    BY <1>1 DEF Jobs, Assignments, Statuses, SomeDeck
  <2> QED  BY <1>1, <1>2, <2>1, Skipped DEF CommitPreload
<1>4. calls' \in SUBSET Calls
  BY <1>1, <1>2, ExecutorCall DEF CommitPreload
<1>5. pool' \in Seq(Jobs) /\ Len(pool') <= 2
  BY <1>1, PoolTail
<1> QED  BY <1>1, <1>3, <1>4, <1>5, OutsideGood

LEMMA PoolAside ==
  ASSUME NEW g, Good(g), NEW p \in Seq(Jobs), Len(p) <= 2
  PROVE  LET h == [g EXCEPT !.pool = p]
         IN  /\ Aside(g, h) /\ Good(h) /\ h.deck = g.deck /\ h.row = g.row /\ h.auto = g.auto
             /\ h.pool = p /\ h.calls = g.calls /\ h.commits = g.commits /\ h.coord = g.coord
<1> DEFINE h == [g EXCEPT !.pool = p]
<1>1. g \in Conditions
  BY DEF Good
<1>2. /\ Aside(g, h) /\ h.deck = g.deck /\ h.row = g.row /\ h.auto = g.auto
      /\ h.pool = p /\ h.calls = g.calls /\ h.commits = g.commits /\ h.coord = g.coord
  BY <1>1 DEF Good, Aside, Conditions
<1> HIDE DEF h
<1>3. Good(h)
  BY <1>2, AsideGood
<1> QED  BY <1>2, <1>3 DEF h

LEMMA SilentDeck ==
  ASSUME NEW k \in DeckStates, NEW b \in Backends
  PROVE  /\ [k EXCEPT !.backend = b] \in DeckStates /\ [k EXCEPT !.backend = b].gated = k.gated
         /\ [k EXCEPT !.backend = b].muted = k.muted /\ [k EXCEPT !.backend = b].title = k.title
         /\ [k EXCEPT !.backend = b].entry = k.entry /\ [k EXCEPT !.backend = b].phase = k.phase
         /\ [k EXCEPT !.backend = b].backend = b
BY DEF DeckStates

LEMMA CleanupGood ==
  ASSUME Good(G), Cleanup
  PROVE  Good(G)'
<1> DEFINE job == Head(pool)
           g == [G EXCEPT !.pool = Tail(@)]
           k == [g.deck[job.deck] EXCEPT !.backend = "silent"]
           x == [g EXCEPT !.deck[job.deck].backend = "silent"]
<1>1. /\ pool # << >> /\ job.kind = "cleanup"
      /\ Done(Reported(x, job.title, "cleanup", "ok")) \/ Done(Reported(g, job.title, "cleanup", "failed"))
  BY DEF Cleanup
<1>2. job \in Jobs /\ job.deck \in Decks /\ job.title \in 1..Library /\ Tail(pool) \in Seq(Jobs) /\ Len(Tail(pool)) <= 2
  BY <1>1, PoolTail DEF Jobs
<1> HIDE DEF job
<1>3. Good(g)
  <2>1. g = [G EXCEPT !.pool = Tail(pool)]
    BY GIs
  <2> QED  BY <1>2, <2>1, PoolAside
<1> HIDE DEF g
<1>4. g.deck[job.deck] \in DeckStates /\ g \in Conditions /\ g.deck \in [Decks -> DeckStates]
  BY <1>2, <1>3, DeckValue
<1>5. k \in DeckStates /\ k.gated = g.deck[job.deck].gated /\ k.muted = g.deck[job.deck].muted
  BY <1>4, SilentDeck DEF Backends
<1>6. x = [g EXCEPT !.deck[job.deck] = k]
  BY <1>2, <1>4 DEF Conditions
<1> HIDE DEF k, x
<1>7. Good(x)
  BY <1>2, <1>3, <1>5, <1>6, DeckChanges DEF Redecked
<1>8. Good(Reported(x, job.title, "cleanup", "ok")) /\ Good(Reported(g, job.title, "cleanup", "failed"))
  BY <1>2, <1>3, <1>7, ReportedIs DEF Reporting
<1> QED  BY <1>1, <1>8, DoneGood

LEMMA CommitGood ==
  ASSUME Good(G), Commit
  PROVE  Good(G)'
<1> DEFINE job == Head(commits)
           g == [G EXCEPT !.commits = Tail(@)]
           due == job.live /\ row[job.title] = [status |-> "playing", deck |-> job.deck]
           x == [g EXCEPT !.row[job.title] = [status |-> "played", deck |-> NoDeck]]
           r == [g.row EXCEPT ![job.title] = [status |-> "played", deck |-> NoDeck]]
           Report(h, result) == IF job.coord THEN Reported(h, job.title, "commit", result) ELSE h
<1>1. commits # << >> /\ (Done(Report(x, "ok")) \/ Done(Report(g, "failed")))
  <2>1. commits # << >>
    BY DEF Commit
  <2>2. Done(IF due THEN Report(x, "ok") ELSE Report(g, "failed")) \/ Done(Report(g, "failed"))
    BY DEF Commit
  <2> QED  BY <2>1, <2>2
<1>2. job \in Ends /\ job.title \in 1..Library /\ Tail(commits) \in Seq(Ends) /\ G \in Conditions
  <2>1. job \in Ends /\ Tail(commits) \in Seq(Ends)
    BY <1>1, GParts
  <2> QED  BY <2>1, Constants DEF Ends, Good
<1> HIDE DEF job
<1>3. Aside(G, g)
  <2>1. g = [G EXCEPT !.commits = Tail(commits)]
    BY GIs
  <2> QED  BY <1>2, <2>1 DEF Good, Aside, Conditions
<1> HIDE DEF g
<1>4. Good(g)
  BY <1>3, AsideGood
<1>5. r \in [Titles -> Assignments]
  <2>1. [status |-> "played", deck |-> NoDeck] \in Assignments
    BY DEF Assignments, Statuses, SomeDeck
  <2> QED  BY <1>4, <2>1, Parts DEF Good
<1>6. x = [g EXCEPT !.row = r]
  BY <1>4 DEF Good, Conditions
<1> HIDE DEF r, x
<1>7. Good(x)
  BY <1>4, <1>5, <1>6, RowAside
<1>8. Good(Reported(x, job.title, "commit", "ok")) /\ Good(Reported(g, job.title, "commit", "failed"))
  BY <1>2, <1>4, <1>7, ReportedIs DEF Reporting
<1> QED  BY <1>1, <1>4, <1>7, <1>8, DoneGood

LEMMA CallbackGood ==
  ASSUME Good(G), Callback
  PROVE  Good(G)'
<1>1. PICK c \in calls, due \in BOOLEAN :
        LET g == [G EXCEPT !.calls = @ \ {c}]
        IN  Done(CASE c.kind = "finish" -> FinishDeck(g, c.deck)
                   [] c.kind = "refill" -> AutoLoad(g)
                   [] c.kind = "autoload" -> AutoloadIfCurrent(g, c)
                   [] c.kind = "adopt" -> Adopt(g, c)
                   [] c.kind = "failed" -> PreparationFailed(g, c)
                   [] c.kind = "missed" -> [g EXCEPT !.auto.busy = FALSE]
                   [] c.kind = "followup" -> AutoLoad(Playback([g EXCEPT !.auto.busy = FALSE], due)))
  BY DEF Callback
<1> DEFINE g == [G EXCEPT !.calls = @ \ {c}]
<1>2. c \in Calls /\ Good(g)
  <2>1. g = [G EXCEPT !.calls = calls \ {c}]
    BY GIs
  <2>2. calls \ {c} \in SUBSET Calls /\ c \in Calls
    BY GParts
  <2> QED  BY <2>1, <2>2, CallsAside
<1> HIDE DEF g
<1>3. g \in Conditions /\ g.auto \in Autos /\ g.row \in [Titles -> Assignments]
  BY <1>2, Parts DEF Good
<1> DEFINE idle == [g EXCEPT !.auto.busy = FALSE]
<1>4. Good(idle)
  <2> DEFINE a == [g.auto EXCEPT !.busy = FALSE]
  <2>1. a \in Autos /\ a.run = g.auto.run /\ a.gate = g.auto.gate
    BY <1>3 DEF Autos
  <2>2. idle = [g EXCEPT !.auto = a]
    BY <1>3 DEF Conditions
  <2> HIDE DEF a, idle
  <2> QED  BY <1>2, <2>1, <2>2, AutoChanges
<1>5. idle \in Conditions /\ idle.row = g.row
  BY <1>3, <1>4 DEF Good, Conditions
<1>6. CASE c.kind = "finish"
  <2>1. c.deck \in Decks
    BY <1>2, <1>6 DEF Calls
  <2> QED  BY <1>1, <1>2, <1>6, <2>1, FinishDeckAside, DoneGood DEF g
<1>7. CASE c.kind = "refill"
  BY <1>1, <1>2, <1>7, AutoLoadAside, AsideGood, DoneGood DEF g
<1>8. CASE c.kind = "autoload"
  <2>1. Done(AutoloadIfCurrent(g, c))
    BY <1>1, <1>8 DEF g
  <2>2. AutoloadIfCurrent(g, c) \in {g, AutoLoad(g)}
    BY DEF AutoloadIfCurrent
  <2> QED  BY <1>2, <2>1, <2>2, AutoLoadAside, AsideGood, DoneGood
<1>9. CASE c.kind = "adopt"
  <2>1. c.title \in Titles /\ c.deck \in Decks
    BY <1>2, <1>9 DEF Calls
  <2>2. Done(Adopt(g, c))
    BY <1>1, <1>9 DEF g
  <2> DEFINE z == Reset(g)
             a == [z.auto EXCEPT !.busy = FALSE]
             k == [g.deck[c.deck] EXCEPT !.title = c.title, !.entry = c.title, !.phase = "loaded",
                                         !.backend = "silent", !.gated = FALSE]
             x == [g EXCEPT !.deck[c.deck] = k]
  <2>3. Adopt(g, c) \in {[z EXCEPT !.auto.busy = FALSE], Submit(x, Job("commit", c.title, c.deck))}
    BY <1>3 DEF Adopt, Conditions
  <2>4. Good(z) /\ z \in Conditions /\ z.auto \in Autos
    BY <1>2, ResetEnds, Parts DEF Good
  <2> HIDE DEF z
  <2>5. a \in Autos /\ a.run = z.auto.run /\ a.gate = z.auto.gate
    BY <2>4 DEF Autos
  <2>6. [z EXCEPT !.auto.busy = FALSE] = [z EXCEPT !.auto = a]
    BY <2>4 DEF Conditions
  <2> HIDE DEF a
  <2>7. Good([z EXCEPT !.auto.busy = FALSE])
    BY <2>4, <2>5, <2>6, AutoChanges
  <2>8. k \in DeckStates /\ k.gated = FALSE /\ k.muted = g.deck[c.deck].muted
    <3>1. g.deck[c.deck] \in DeckStates /\ c.title \in 1..Library /\ c.title \in {Nothing, c.title} /\ c.title \in Nothing..N
      BY <1>2, <2>1, DeckValue, Constants
    <3> QED  BY ONLY Zenon, <3>1, LoadedDeck
  <2> HIDE DEF k
  <2>9. Good(x)
    BY <1>2, <2>1, <2>8, DeckChanges DEF Redecked
  <2> HIDE DEF x
  <2>10. Job("commit", c.title, c.deck) \in Jobs
    BY <2>1, Constants DEF Jobs, Job, SomeDeck
  <2>11. Good(Submit(x, Job("commit", c.title, c.deck)))
    BY <2>9, <2>10, SubmitAside, AsideGood
  <2> QED  BY <2>2, <2>3, <2>7, <2>11, DoneGood
<1>10. CASE c.kind = "failed"
  <2>1. c.title \in Titles
    BY <1>2, <1>10 DEF Calls
  <2>2. Done(PreparationFailed(g, c))
    BY <1>1, <1>10 DEF g
  <2> DEFINE v == IF g.row[c.title].status \in {"waiting", "preparing"} THEN [status |-> "failed", deck |-> NoDeck]
                  ELSE g.row[c.title]
             r == [g.row EXCEPT ![c.title] = v]
             x == [g EXCEPT !.auto.busy = FALSE, !.row[c.title] = v]
  <2>3. PreparationFailed(g, c) = AutoLoad(x)
    BY <1>3 DEF PreparationFailed, Conditions
  <2>4. x = [idle EXCEPT !.row = r]
    BY <1>3, <1>4 DEF Conditions
  <2>5. r \in [Titles -> Assignments]
    <3>1. [status |-> "failed", deck |-> NoDeck] \in Assignments
      BY DEF Assignments, Statuses, SomeDeck
    <3> QED  BY <1>3, <2>1, <3>1
  <2> HIDE DEF x, r, v, idle
  <2>6. Good(x)
    BY <1>4, <2>4, <2>5, RowAside
  <2> QED  BY <2>2, <2>3, <2>6, AutoLoadAside, AsideGood, DoneGood
<1>11. CASE c.kind = "missed"
  BY <1>1, <1>4, <1>11, DoneGood DEF g
<1>12. CASE c.kind = "followup"
  <2>1. Done(AutoLoad(Playback(idle, due)))
    BY <1>1, <1>12 DEF g
  <2> HIDE DEF idle
  <2> QED  BY <1>4, <2>1, PlaybackGood, AutoLoadAside, AsideGood, DoneGood
<1>13. c.kind \in {"finish", "refill", "autoload", "adopt", "failed", "missed", "followup"}
  BY <1>2 DEF Calls
<1> QED  BY <1>6, <1>7, <1>8, <1>9, <1>10, <1>11, <1>12, <1>13

LEMMA BackendGood ==
  ASSUME Good(G), NEW d \in Decks, NEW from, NEW to \in Backends, Backend(d, from, to)
  PROVE  Good(G)'
<1> DEFINE k == [deck[d] EXCEPT !.backend = to]
<1>1. deck[d] \in DeckStates /\ deck \in [Decks -> DeckStates]
  BY GParts
<1>2. k \in DeckStates /\ k.gated = deck[d].gated /\ k.muted = deck[d].muted
  BY <1>1, SilentDeck
<1>3. deck' = [deck EXCEPT ![d] = k]
  BY DEF Backend
<1> HIDE DEF k
<1>4. deck' \in [Decks -> DeckStates]
  BY <1>1, <1>2, <1>3
<1>5. G' \in Conditions
  BY <1>4, GParts DEF Backend, G, Conditions
<1>6. \A x \in Decks : deck'[x].gated = deck[x].gated /\ deck'[x].muted = deck[x].muted
  BY <1>1, <1>2, <1>3
<1>7. Aside(G, G')
  BY <1>5, <1>6, GIs, GIsNext, GParts DEF Aside, Backend
<1> QED  BY <1>7, AsideGood

LEMMA BackendsGood ==
  ASSUME Good(G), (\E d \in Decks : BackendStarts(d) \/ TitleEnds(d)) \/ BackendNeverStarts \/ BackendLost
  PROVE  Good(G)'
<1>1. tr.state # "idle" => tr.in \in Decks
  BY GParts DEF Handovers, NoTransition
<1>2. {"playing", "ended", "dead", "silent"} \subseteq Backends
  BY DEF Backends
<1> QED  BY <1>1, <1>2, BackendGood DEF BackendStarts, TitleEnds, BackendNeverStarts, BackendLost

LEMMA CommandGood ==
  ASSUME Good(G), NEW what, Command(what)
  PROVE  Good(G)'
<1>1. PICK d \in Decks, due \in BOOLEAN :
       \/ what = "pause" /\ Done(Pause(G, TRUE))
       \/ what = "resume" /\ auto.run # "running" /\ Done(StartAutomatic(G, due))
       \/ what = "play" /\ deck[d].phase \in {"loaded", "stopped", "finished"} /\ Done(ManualPlay(G, d))
       \/ what = "deckpause" /\ deck[d].phase = "playing" /\ Done(ManualPause(G, d))
       \/ what = "deckresume" /\ deck[d].phase = "paused" /\ Done(ManualResume(G, d, due))
       \/ what = "stop" /\ deck[d].title # Nothing /\ Done(ManualStop(G, d))
       \/ what = "eject" /\ deck[d].title # Nothing /\ Done(ManualEject(G, d))
       \/ what = "seek" /\ IsTransitioning(G) /\ Done(Abort(G))
       \/ what = "fader" /\ \E x \in {0, 3} : Done(ManualFader(G, x))
       \/ what = "load" /\ Done(ManualLoad(G, d))
  BY DEF Command
<1>2. CASE what = "pause"
  <2>1. Good(Pause(G, TRUE))
    BY PauseIs DEF Pausing
  <2> QED  BY <1>1, <1>2, <2>1, DoneGood
<1>3. CASE what = "resume"
  <2>1. auto.run # "running" => G.tr = NoTransition
    BY GIs, GParts DEF Good, Opened, Handovers, NoTransition
  <2> QED  BY <1>1, <1>3, <2>1, StartAutomaticGood, DoneGood
<1>4. CASE what = "play"
  <2>1. ManualPlay(G, d) = StartDeck([Override(G) EXCEPT !.deck[d].gated = FALSE], d)
    BY DEF ManualPlay
  <2>2. Good(Override(G)) /\ Override(G).deck[d].phase # "empty"
    BY <1>1, <1>4, OverrideGood, GIs
  <2> QED  BY <1>1, <1>4, <2>1, <2>2, StartUngated, DoneGood
<1>5. CASE what = "deckpause"
  BY <1>1, <1>5, ManualPauseGood, DoneGood, GIs
<1>6. CASE what = "deckresume"
  BY <1>1, <1>6, ManualResumeGood, DoneGood, GIs
<1>7. CASE what = "stop"
  BY <1>1, <1>7, ManualStopGood, DoneGood, GIs
<1>8. CASE what = "eject"
  BY <1>1, <1>8, ManualEjectGood, DoneGood
<1>9. CASE what = "seek"
  BY <1>1, <1>9, AbortEnds, DoneGood
<1>10. CASE what = "fader"
  BY <1>1, <1>10, ManualFaderGood, DoneGood
<1>11. CASE what = "load"
  BY <1>1, <1>11, ManualLoadGood, DoneGood
<1> QED  BY <1>1, <1>2, <1>3, <1>4, <1>5, <1>6, <1>7, <1>8, <1>9, <1>10, <1>11

LEMMA NextGood ==
  ASSUME Good(G), Next
  PROVE  Good(G)'
<1>1. CASE StatusTick
  BY <1>1, StatusTickGood
<1>2. CASE Poll \/ PollTimesOut \/ RenderTick \/ FinishTransition
  BY <1>2, TransitionCallsGood
<1>3. CASE Callback
  BY <1>3, CallbackGood
<1>4. CASE RampArms \/ RampWrites \/ RampWritesLate
  BY <1>4, RampGood
<1>5. CASE Prepare \/ CommitPreload \/ Cleanup \/ Commit
  BY <1>5, PrepareGood, CommitPreloadGood, CleanupGood, CommitGood
<1>6. CASE (\E d \in Decks : BackendStarts(d) \/ TitleEnds(d)) \/ BackendNeverStarts \/ BackendLost
  BY <1>6, BackendsGood
<1>7. CASE Operator
  BY <1>7, CommandGood DEF Operator
<1> QED  BY <1>1, <1>2, <1>3, <1>4, <1>5, <1>6, <1>7 DEF Next

LEMMA InitGood ==
  ASSUME Init
  PROVE  Good(G)
<1>1. /\ fader = 0 /\ tr = NoTransition /\ ramp = NoRamp /\ late = {} /\ pool = << >> /\ calls = {} /\ commits = << >>
      /\ auto = [run |-> "running", held |-> {}, suppressed |-> {}, busy |-> FALSE, gate |-> FALSE]
      /\ coord = [t \in Titles \cup {Library} |-> NoCoord]
  BY DEF Init
<1>2. deck \in [Decks -> DeckStates] /\ \A d \in Decks : deck[d].muted = FALSE
  <2> DEFINE k(t, p, b) == [title |-> t, entry |-> t, phase |-> p, backend |-> b, gated |-> FALSE, muted |-> FALSE]
  <2>1. k(1, "playing", "playing") \in DeckStates /\ k(2, "loaded", "silent") \in DeckStates
    BY Constants DEF DeckStates, Phases, Backends
  <2>2. /\ deck = [d \in Decks |-> deck[d]]
        /\ deck["A"] = k(1, "playing", "playing") /\ deck["B"] = k(2, "loaded", "silent")
    BY DEF Init, Decks
  <2>3. \A d \in Decks : deck[d] \in {k(1, "playing", "playing"), k(2, "loaded", "silent")}
    BY <2>2 DEF Decks
  <2>4. k(1, "playing", "playing").muted = FALSE /\ k(2, "loaded", "silent").muted = FALSE
    OBVIOUS
  <2> HIDE DEF k
  <2> QED  BY <2>1, <2>2, <2>3, <2>4
<1>3. row \in [Titles -> Assignments]
  <2>1. /\ [status |-> "playing", deck |-> "A"] \in Assignments /\ [status |-> "ready", deck |-> "B"] \in Assignments
        /\ [status |-> "waiting", deck |-> NoDeck] \in Assignments
    BY Constants DEF Assignments, Statuses, SomeDeck
  <2>2. row = [t \in Titles |-> IF t = 1 THEN [status |-> "playing", deck |-> "A"]
                                ELSE IF t = 2 THEN [status |-> "ready", deck |-> "B"]
                                ELSE [status |-> "waiting", deck |-> NoDeck]]
    BY DEF Init
  <2> QED  BY <2>1, <2>2
<1>4. coord \in [1..Library -> Coords]
  <2>1. Titles \cup {Library} = 1..Library
    BY Constants
  <2>2. NoCoord \in Coords
    BY DEF NoCoord, Coords, Results, SomeDeck
  <2> QED  BY <1>1, <2>1, <2>2
<1>5. NoRamp \in Ramps /\ auto \in Autos
  BY <1>1 DEF NoRamp, Ramps, Autos
<1>6. G \in Conditions
  BY <1>1, <1>2, <1>3, <1>4, <1>5, GConditions
<1> QED  BY <1>1, <1>2, <1>6, GIs, IdleGood DEF NoRamp
----------------------------------------------------------------------------
(* Without the operator.                                                   *)

LEMMA IdleOrNot ==
  ASSUME NEW g, Good(g)
  PROVE  /\ g \in Conditions
         /\ g.tr.state = "idle" => g.tr = NoTransition /\ ~IsTransitioning(g)
         /\ g.tr.state # "idle" => g.tr \in Handovers /\ g.tr.in \in Decks /\ g.tr.out \in Decks /\ g.tr.in = Other(g.tr.out)
                                   /\ g.tr.out # g.tr.in /\ IsTransitioning(g) /\ g.auto.run = "running"
         /\ g.tr.state \in States
         /\ \A d \in Decks : g.deck[d] \in DeckStates /\ (g.deck[d].title = Nothing <=> g.deck[d].phase = "empty")
<1>1. g \in Conditions /\ g.tr \in {NoTransition} \cup Handovers
  BY Parts DEF Good
<1>2. \A d \in Decks : g.deck[d] \in DeckStates
  BY <1>1, Parts
<1>3. \A d \in Decks : g.deck[d].title = Nothing <=> g.deck[d].phase = "empty"
  BY <1>2 DEF DeckStates
<1>4. g.tr.state # "idle" => g.tr.out # g.tr.in
  BY <1>1, Constants DEF Handovers, NoTransition
<1> QED  BY <1>1, <1>2, <1>3, <1>4 DEF Good, Opened, Handovers, NoTransition, IsTransitioning, States

LEMMA SameLine ==
  ASSUME NEW g, NEW h, OneLine(g), h.pool = g.pool, Answers(h) = Answers(g), h.auto.busy = g.auto.busy
  PROVE  OneLine(h)
BY DEF OneLine, Working

LEMMA NoLine ==
  ASSUME NEW g, Working(g) = {}, Answers(g) = {}
  PROVE  OneLine(g)
BY DEF OneLine

LEMMA OutdateLine ==
  ASSUME NEW g, Good(g)
  PROVE  OneLine(OutdatePreload(g))
BY OutdateStops, NoLine

LEMMA AppendLine ==
  ASSUME NEW g, NEW h, g.pool \in Seq(Jobs), NEW j \in Jobs, h.pool = Append(g.pool, j)
  PROVE  /\ j.kind = "cleanup" => Working(h) = Working(g)
         /\ Working(g) = {} => \A x, y \in Working(h) : x = y
<1>1. DOMAIN h.pool = 1..(Len(g.pool) + 1) /\ Len(g.pool) \in Nat /\ DOMAIN g.pool = 1..Len(g.pool)
      /\ h.pool[Len(g.pool) + 1] = j /\ \A i \in 1..Len(g.pool) : h.pool[i] = g.pool[i]
  OBVIOUS
<1>2. Working(h) \subseteq Working(g) \cup {Len(g.pool) + 1}
  BY <1>1 DEF Working
<1>3. j.kind = "cleanup" => Len(g.pool) + 1 \notin Working(h)
  BY <1>1 DEF Working
<1>4. Working(g) \subseteq Working(h)
  BY <1>1 DEF Working
<1> QED  BY <1>2, <1>3, <1>4

LEMMA AutoLoadLine ==
  ASSUME NEW g, Good(g), OneLine(g)
  PROVE  /\ OneLine(AutoLoad(g))
         /\ (\A d \in Decks : g.deck[d].phase # "empty") => AutoLoad(g) = g
<1> DEFINE o == OutdatePreload(g)
           s == Submit(o, Job("prepare", Nothing, NoDeck))
           h == [s EXCEPT !.auto.busy = TRUE]
<1>1. Good(o) /\ Working(o) = {} /\ Answers(o) = {} /\ OneLine(o)
  BY OutdateLine, OutdateStops, OutdateAside, AsideGood
<1>2. AutoLoad(g) = g \/ AutoLoad(g) = o \/ (HasRoom(o) /\ AutoLoad(g) = h)
  BY DEF AutoLoad
<1>3. (\A d \in Decks : g.deck[d].phase # "empty") => AutoLoad(g) = g
  BY DEF AutoLoad, Free
<1>4. HasRoom(o) => OneLine(h)
  <2> HIDE DEF o
  <2>1. Good(s) /\ s.calls = o.calls
    BY <1>1, PrepareJob, SubmitAside, AsideGood
  <2>2. o \in Conditions /\ s \in Conditions /\ o.pool \in Seq(Jobs) /\ s.auto \in Autos
    BY <1>1, <2>1, Parts DEF Good
  <2>3. HasRoom(o) => s.pool = Append(o.pool, Job("prepare", Nothing, NoDeck))
    BY <2>2 DEF Submit, Conditions
  <2> HIDE DEF s
  <2>4. h.pool = s.pool /\ h.calls = s.calls /\ h.auto.busy
    BY <2>2 DEF Conditions, Autos
  <2> HIDE DEF h
  <2>5. Answers(h) = {}
    BY <1>1, <2>1, <2>4 DEF Answers
  <2>6. HasRoom(o) => \A x, y \in Working(h) : x = y
    BY <1>1, <2>2, <2>3, <2>4, PrepareJob, AppendLine
  <2> QED  BY <2>4, <2>5, <2>6 DEF OneLine
<1> QED  BY <1>1, <1>2, <1>3, <1>4

\* The first job is taken.
LEMMA TailLine ==
  ASSUME NEW g, NEW h, g.pool \in Seq(Jobs), g.pool # << >>, h.pool = Tail(g.pool), OneLine(g)
  PROVE  /\ Head(g.pool).kind # "cleanup" /\ Head(g.pool).live => Working(h) = {} /\ Answers(g) = {} /\ g.auto.busy
         /\ \A i, j \in Working(h) : i = j
         /\ Working(h) # {} => Working(g) # {}
<1>1. Len(g.pool) \in Nat \ {0} /\ DOMAIN g.pool = 1..Len(g.pool) /\ DOMAIN h.pool = 1..(Len(g.pool) - 1)
      /\ Head(g.pool) = g.pool[1] /\ \A i \in 1..(Len(g.pool) - 1) : h.pool[i] = g.pool[i + 1]
  OBVIOUS
<1>2. ASSUME NEW i \in Working(h)
      PROVE  i \in Nat /\ i > 0 /\ i + 1 \in Working(g)
  <2>1. i \in 1..(Len(g.pool) - 1) /\ h.pool[i].kind # "cleanup" /\ h.pool[i].live
    BY <1>1 DEF Working
  <2>2. i + 1 \in 1..Len(g.pool) /\ h.pool[i] = g.pool[i + 1]
    BY <1>1, <2>1
  <2> QED  BY <1>1, <2>1, <2>2 DEF Working
<1>3. Head(g.pool).kind # "cleanup" /\ Head(g.pool).live => 1 \in Working(g)
  BY <1>1 DEF Working
<1>4. ASSUME NEW i \in Working(h), NEW j \in Working(h)
      PROVE  i = j
  <2>1. i + 1 = j + 1
    BY <1>2 DEF OneLine
  <2> QED  BY <1>2, <2>1
<1>5. 1 \in Working(g) => Working(h) = {}
  <2>1. SUFFICES ASSUME 1 \in Working(g), NEW i \in Working(h) PROVE FALSE
    OBVIOUS
  <2>2. i + 1 = 1 /\ i \in Nat /\ i > 0
    BY <1>2, <2>1 DEF OneLine
  <2> QED  BY <2>2
<1> QED  BY <1>2, <1>3, <1>4, <1>5 DEF OneLine

\* What neither the handover nor a deck can see, and what it must leave alone.
LEMMA CalmBeside ==
  ASSUME NEW g, NEW h, NEW H, Calm(g, H), Good(h), OneLine(h), h.deck = g.deck, h.fader = g.fader, h.tr = g.tr,
         h.late = g.late, h.auto.run = g.auto.run, g.tr.state # "idle" => ~h.auto.busy,
         Finishes(h) \subseteq Finishes(g), Ending(h) \subseteq H, Played(h) \subseteq H
  PROVE  Calm(h, H)
<1>1. Steady(h)
  BY DEF Calm, Steady
<1>2. Accounted(h, H)
  BY DEF Calm, Accounted
<1> QED  BY <1>1, <1>2 DEF Calm

LEMMA AutoLoadCalm ==
  ASSUME NEW g, NEW H, Calm(g, H)
  PROVE  Calm(AutoLoad(g), H)
<1> DEFINE h == AutoLoad(g)
<1>1. /\ Aside(g, h) /\ h.deck = g.deck /\ h.row = g.row /\ h.commits = g.commits /\ h.calls \subseteq g.calls
  BY AutoLoadAside DEF Calm
<1>2. OneLine(h) /\ (g.tr.state # "idle" => h = g)
  BY AutoLoadLine DEF Calm, Steady
<1>3. g.tr.state # "idle" => ~g.auto.busy
  BY DEF Calm, Steady
<1>4. Good(h)
  BY <1>1, AsideGood DEF Calm
<1>5. Finishes(h) \subseteq Finishes(g) /\ Ending(h) = Ending(g) /\ Played(h) = Played(g)
  BY <1>1 DEF Finishes, Ending, Played
<1>6. Ending(g) \subseteq H /\ Played(g) \subseteq H
  BY DEF Calm, Accounted
<1> HIDE DEF h
<1>7. h.fader = g.fader /\ h.tr = g.tr /\ h.late = g.late /\ h.auto.run = g.auto.run /\ h.deck = g.deck
  BY <1>1 DEF Aside
<1>8. g.tr.state # "idle" => ~h.auto.busy
  BY <1>2, <1>3
<1>9. Calm(h, H)
  BY <1>2, <1>4, <1>5, <1>6, <1>7, <1>8, CalmBeside
<1> QED  BY <1>9 DEF h

LEMMA ObserveCalm ==
  ASSUME NEW g, NEW H, Calm(g, H), NEW d \in Decks
  PROVE  Calm(Observe(g, d), H)
<1> DEFINE k == [g.deck[d] EXCEPT !.phase = "finished"]
           h == Observe(g, d)
<1>1. CASE g.deck[d].phase # "playing" \/ g.deck[d].backend # "ended"
  BY <1>1 DEF Observe
<1>2. CASE g.deck[d].phase = "playing" /\ g.deck[d].backend = "ended"
  <2>1. /\ g \in Conditions /\ g.deck[d] \in DeckStates /\ g.calls \in SUBSET Calls /\ g.deck \in [Decks -> DeckStates]
        /\ Good(g) /\ OneLine(g) /\ Steady(g) /\ Accounted(g, H)
    BY Parts DEF Calm, Good
  <2>2. /\ k.phase = "finished" /\ k.backend = "ended" /\ k.title = g.deck[d].title /\ k.entry = g.deck[d].entry
        /\ k.gated = g.deck[d].gated /\ k.muted = g.deck[d].muted
    BY <1>2, <2>1 DEF DeckStates
  <2>3. /\ h.deck = [g.deck EXCEPT ![d] = k] /\ h.calls = g.calls \cup {Call("finish", Nothing, d)}
        /\ h.fader = g.fader /\ h.tr = g.tr /\ h.late = g.late /\ h.auto = g.auto /\ h.pool = g.pool
        /\ h.row = g.row /\ h.commits = g.commits
    BY <1>2, <2>1 DEF Observe, Conditions
  <2>4. Good(h)
    BY <2>1, ObserveAside
  <2> HIDE DEF k, h
  <2>5. OneLine(h)
    <3>1. Answers(h) = Answers(g)
      BY <2>3 DEF Answers, Call
    <3> QED  BY <2>1, <2>3, <3>1, SameLine
  <2>6. d # g.tr.in /\ g.deck[d].title # Nothing /\ g.deck[d].title \in H
    BY <1>2, <2>1, IdleOrNot DEF Steady, Accounted, NoTransition, NoDeck, Decks
  <2>7. \A x \in Decks : /\ h.deck[x] = IF x = d THEN k ELSE g.deck[x]
    BY <2>1, <2>3
  <2>8. Steady(h)
    BY <1>2, <2>1, <2>2, <2>3, <2>6, <2>7, IdleOrNot DEF Steady
  <2>9. Accounted(h, H)
    <3>1. ASSUME NEW c \in Finishes(h)
          PROVE  c.title = Nothing /\ h.deck[c.deck].phase = "finished"
      <4>1. CASE c \in g.calls
        <5>1. c \in Finishes(g) /\ c.deck \in Decks
          BY <2>1, <3>1, <4>1 DEF Finishes, Calls
        <5> QED  BY <2>1, <2>2, <2>7, <5>1 DEF Accounted
      <4>2. CASE c = Call("finish", Nothing, d)
        BY <2>2, <2>7, <4>2 DEF Call
      <4> QED  BY <2>3, <3>1, <4>1, <4>2 DEF Finishes
    <3>2. Ending(h) = Ending(g) /\ Played(h) = Played(g)
      BY <2>3 DEF Ending, Played
    <3> QED  BY <1>2, <2>1, <2>2, <2>3, <2>6, <2>7, <3>1, <3>2, IdleOrNot DEF Accounted
  <2> QED  BY <2>4, <2>5, <2>8, <2>9 DEF Calm, h
<1> QED  BY <1>1, <1>2

\* A deck that is to play, between two handovers.
LEMMA StartDeckIs ==
  ASSUME NEW g, Good(g), NEW d \in Decks, g.deck[d].phase # "empty"
  PROVE  LET h == StartDeck(g, d)
         IN  /\ Good(h) /\ h.fader = g.fader /\ h.tr = g.tr /\ h.late = g.late /\ h.auto = g.auto /\ h.pool = g.pool
             /\ h.calls = g.calls /\ Ending(h) = Ending(g) /\ Played(h) \subseteq Played(g)
             /\ h.deck[d].phase = "playing" /\ h.deck[d].backend = "starting" /\ h.deck[d].gated = g.deck[d].gated
             /\ h.deck[d].title = g.deck[d].title /\ h.deck[d].entry \in {g.deck[d].entry, Nothing}
             /\ \A x \in Decks : x # d => h.deck[x] = g.deck[x]
<1> DEFINE h == StartDeck(g, d)
<1>1. /\ Aside(g, h) /\ h.auto = g.auto /\ h.pool = g.pool /\ h.calls = g.calls /\ Ending(h) = Ending(g)
      /\ Played(h) \subseteq Played(g)
  BY Zenon, StartDeckAside
<1>2. PICK e \in {g.deck[d].entry, Nothing} :
        h.deck = [g.deck EXCEPT ![d] = [g.deck[d] EXCEPT !.phase = "playing", !.backend = "starting", !.entry = e]]
  BY Zenon, StartDeckAside
<1> HIDE DEF h
<1>3. g.deck \in [Decks -> DeckStates] /\ g.deck[d] \in DeckStates
  BY Parts DEF Good
<1> DEFINE k == [g.deck[d] EXCEPT !.phase = "playing", !.backend = "starting", !.entry = e]
<1>4. k.phase = "playing" /\ k.backend = "starting" /\ k.gated = g.deck[d].gated /\ k.title = g.deck[d].title
      /\ k.entry = e
  BY <1>3 DEF DeckStates
<1>5. h.deck = [g.deck EXCEPT ![d] = k]
  BY <1>2
<1> HIDE DEF k
<1>6. h.deck[d] = k /\ \A x \in Decks : x # d => h.deck[x] = g.deck[x]
  BY <1>3, <1>5
<1>7. Good(h) /\ h.fader = g.fader /\ h.tr = g.tr /\ h.late = g.late
  BY <1>1, AsideGood DEF Aside
<1> QED  BY <1>1, <1>4, <1>6, <1>7 DEF h

LEMMA StopCalm ==
  ASSUME NEW g, NEW H, Calm(g, H), g.tr = NoTransition, Playing(g) = {}
  PROVE  Calm(Stopped(g), H)
<1> DEFINE r == Reset(g)
           h == Stopped(g)
<1>1. Good(g) /\ OneLine(g) /\ Steady(g) /\ Accounted(g, H) /\ g.tr.state = "idle"
  BY DEF Calm, NoTransition
<1>2. Ended(g, r) /\ Good(r) /\ r.late = g.late
  BY <1>1, ResetEnds, NothingLate
<1>3. r \in Conditions /\ r.auto \in Autos
  BY <1>2, Parts DEF Good
<1>4. h = [r EXCEPT !.auto.run = "stopped", !.auto.held = {}]
  BY DEF Stopped
<1> HIDE DEF r, h
<1>5. /\ h.deck = r.deck /\ h.fader = r.fader /\ h.tr = r.tr /\ h.late = r.late /\ h.row = r.row /\ h.pool = r.pool
      /\ h.calls = r.calls /\ h.commits = r.commits /\ h.auto.run = "stopped" /\ h.auto.busy = r.auto.busy
  <2> DEFINE a == [r.auto EXCEPT !.run = "stopped", !.held = {}]
  <2>1. h = [r EXCEPT !.auto = a]
    BY <1>3, <1>4 DEF Conditions
  <2>2. a.run = "stopped" /\ a.busy = r.auto.busy
    BY <1>3 DEF Autos
  <2> HIDE DEF a
  <2> QED  BY <1>3, <2>1, <2>2 DEF Conditions
<1>6. Good(h)
  BY <1>1, StopEnds DEF h
<1>7. /\ h.deck = g.deck /\ h.fader = g.fader /\ h.tr = NoTransition /\ h.late = g.late /\ h.pool = g.pool /\ h.calls = g.calls
      /\ h.auto.busy = g.auto.busy /\ h.row = g.row /\ h.commits = g.commits
  BY <1>2, <1>5 DEF Ended, Elsewhere
<1>8. Answers(h) = Answers(g) /\ Finishes(h) = Finishes(g) /\ Ending(h) = Ending(g) /\ Played(h) = Played(g)
  BY <1>7 DEF Answers, Finishes, Ending, Played
<1>9. OneLine(h)
  BY <1>1, <1>7, <1>8, SameLine
<1>10. Steady(h)
  BY <1>1, <1>5, <1>7 DEF Steady, NoTransition
<1>11. \A d \in Decks : g.deck[d].backend # "starting"
  BY <1>1 DEF Accounted, Playing
<1>12. Accounted(h, H)
  BY <1>1, <1>7, <1>8, <1>11 DEF Accounted, NoTransition
<1> QED  BY <1>6, <1>9, <1>10, <1>12 DEF Calm, h

\* What a handover begins from: the outgoing deck is open and the fader on its side, the
\* incoming one does not play yet.
LEMMA BeginCalm ==
  ASSUME NEW g, NEW H, Good(g), OneLine(g), Accounted(g, H), g.tr = NoTransition, g.late = {}, ~g.auto.busy,
         g.auto.run = "running", NEW out \in Decks, \A d \in Decks : g.deck[d].phase # "empty",
         ~g.deck[out].gated, g.fader = Side(out), g.deck[Other(out)].phase = "playing",
         g.deck[Other(out)].backend \notin {"playing", "ended"},
         g.deck[Other(out)].backend = "starting" => g.deck[out].backend # "starting" /\ g.deck[out].title \in H
  PROVE  Calm(Begin(g, out), H)
<1> DEFINE n == NewGeneration(g)
           m == [state |-> "wait", out |-> out, in |-> Other(out), title |-> g.deck[out].title,
                 entry |-> g.deck[out].entry, step |-> "none"]
           h == [n EXCEPT !.tr = m]
           z == [h EXCEPT !.tr.step = "poll"]
<1>1. /\ n \in Conditions /\ n.ramp = NoRamp /\ n.fader = g.fader /\ Elsewhere(g, n) /\ n.late = g.late
  BY NewGenerationIs, NothingLate DEF Good, NoTransition
<1>2. Begin(g, out) = Polled(h)
  BY DEF Begin, IsTransitioning, NoTransition
<1> HIDE DEF n
<1>3. /\ h.tr = m /\ h.fader = g.fader /\ h.late = {} /\ h.deck = g.deck /\ h.auto = g.auto /\ h.row = g.row
      /\ h.pool = g.pool /\ h.calls = g.calls /\ h.commits = g.commits /\ h.ramp = NoRamp
      /\ DOMAIN h = DOMAIN n
  BY <1>1 DEF Conditions, Elsewhere
<1>4. Polled(h) = z
  <2>1. h.deck[h.tr.in] = g.deck[Other(out)] /\ h.deck[h.tr.out] = g.deck[out] /\ g.deck[out].phase # "empty"
    BY <1>3
  <2> HIDE DEF h
  <2> QED  BY <2>1 DEF Polled
<1>5. /\ z.tr = [m EXCEPT !.step = "poll"] /\ z.fader = g.fader /\ z.late = {} /\ z.deck = g.deck /\ z.auto = g.auto
      /\ z.row = g.row /\ z.pool = g.pool /\ z.calls = g.calls /\ z.commits = g.commits
  BY <1>1, <1>3 DEF Conditions
<1> HIDE DEF h
<1>6. Good(z)
  <2>1. Good(Begin(g, out))
    BY BeginGood
  <2> QED  BY <1>2, <1>4, <2>1
<1> HIDE DEF z
<1>7. /\ z.tr.state = "wait" /\ z.tr.out = out /\ z.tr.in = Other(out) /\ z.tr.title = g.deck[out].title
      /\ z.tr.entry = g.deck[out].entry
  BY <1>5
<1> HIDE DEF m
<1>8. Answers(z) = Answers(g) /\ Finishes(z) = Finishes(g) /\ Ending(z) = Ending(g) /\ Played(z) = Played(g)
  BY <1>5 DEF Answers, Finishes, Ending, Played
<1>9. OneLine(z)
  BY <1>5, <1>8, SameLine
<1>10. g.deck[out].entry \in {Nothing, g.deck[out].title} /\ Side(out) \in {0, 3}
  <2>1. g.deck[out] \in DeckStates
    BY Parts DEF Good
  <2> QED  BY <2>1 DEF DeckStates, Side
<1>11. Steady(z)
  BY <1>5, <1>7, <1>10 DEF Steady
<1>12. Accounted(z, H)
  BY <1>5, <1>7, <1>8, Constants DEF Accounted, NoTransition
<1> QED  BY <1>2, <1>4, <1>6, <1>9, <1>11, <1>12 DEF Calm

LEMMA StartNextCalm ==
  ASSUME NEW g, NEW H, Calm(g, H), g.tr = NoTransition, g.auto.run = "running", Playing(g) = {}
  PROVE  Calm(StartNext(g), H)
<1> DEFINE ready == {x \in Decks : DeckIsReady(g, x)}
           d == FirstOf(ready)
           p == Placed(g, d, FALSE, Side(d))
           h == StartDeck(p, d)
<1>1. Good(g) /\ OneLine(g) /\ Steady(g) /\ Accounted(g, H)
  BY DEF Calm
<1>2. CASE ready # {}
  <2>1. d \in Decks /\ DeckIsReady(g, d)
    BY <1>2, FirstIs
  <2>2. StartNext(g) = StartDeck([g EXCEPT !.deck[d].gated = FALSE, !.fader = Side(d)], d)
    BY <1>2 DEF StartNext
  <2> HIDE DEF d
  <2>3. /\ g \in Conditions /\ g.deck \in [Decks -> DeckStates] /\ g.deck[d] \in DeckStates /\ Side(d) \in 0..3
        /\ Side(d) \in {0, 3} /\ g.deck[d].phase \in {"loaded", "stopped"}
    BY <1>1, <2>1, Parts, Constants DEF Good, Side, DeckIsReady
  <2>4. [g EXCEPT !.deck[d].gated = FALSE, !.fader = Side(d)] = p
    BY <2>3 DEF Placed, Conditions
  <2>5. Placing(g, d, FALSE, Side(d), p)
    BY <1>1, <2>1, <2>3, PlacedGood, Zenon
  <2> HIDE DEF p
  <2>6. /\ p.deck[d].gated = FALSE /\ p.deck[d].title = g.deck[d].title /\ p.deck[d].phase = g.deck[d].phase
        /\ \A x \in Decks : x # d => p.deck[x] = g.deck[x]
    BY <2>1, <2>3, <2>5 DEF Placing, DeckStates
  <2>7. Good(p) /\ d \in Decks /\ p.deck[d].phase # "empty"
    BY <2>1, <2>3, <2>5, <2>6 DEF Placing
  <2>8. /\ Good(h) /\ h.fader = p.fader /\ h.tr = p.tr /\ h.late = p.late /\ h.auto = p.auto /\ h.pool = p.pool
        /\ h.calls = p.calls /\ Ending(h) = Ending(p) /\ Played(h) \subseteq Played(p)
        /\ h.deck[d].phase = "playing" /\ h.deck[d].backend = "starting" /\ h.deck[d].gated = p.deck[d].gated
        /\ h.deck[d].title = p.deck[d].title
        /\ \A x \in Decks : x # d => h.deck[x] = p.deck[x]
    BY ONLY <2>7, StartDeckIs
  <2> HIDE DEF h
  <2>9. /\ h.fader = Side(d) /\ h.tr = NoTransition /\ h.late = g.late /\ h.auto = g.auto /\ h.pool = g.pool
        /\ h.calls = g.calls
        /\ \A x \in Decks : x # d => h.deck[x] = g.deck[x]
    BY <2>5, <2>6, <2>8 DEF Placing
  <2>10. Answers(h) = Answers(g) /\ Finishes(h) = Finishes(g) /\ Ending(h) = Ending(g) /\ Played(h) \subseteq Played(g)
    <3>1. Ending(p) = Ending(g) /\ Played(p) = Played(g)
      BY <2>5 DEF Placing, Ending, Played
    <3> QED  BY <2>8, <2>9, <3>1 DEF Answers, Finishes
  <2>11. OneLine(h)
    BY <1>1, <2>9, <2>10, SameLine
  <2>12. Steady(h)
    BY <1>1, <2>3, <2>6, <2>8, <2>9 DEF Steady, NoTransition, Playing
  <2>13. Accounted(h, H)
    <3>1. \A c \in Finishes(g) : c.deck # d
      BY <1>1, <2>3 DEF Accounted
    <3>2. \A c \in Finishes(g) : c.deck \in Decks
      BY <1>1, Parts DEF Good, Finishes, Calls
    <3> QED  BY <1>1, <2>8, <2>9, <2>10, <3>1, <3>2 DEF Accounted, NoTransition
  <2> QED  BY <2>2, <2>4, <2>8, <2>11, <2>12, <2>13 DEF Calm, h
<1>3. CASE ready = {}
  BY <1>3, StopCalm DEF StartNext
<1> QED  BY <1>2, <1>3

LEMMA StartHandoverCalm ==
  ASSUME NEW g, NEW H, Calm(g, H), g.tr = NoTransition, g.auto.run = "running", ~g.auto.busy, NEW out \in Decks,
         g.deck[out].phase = "playing", g.deck[out].backend \in {"playing", "ended"}, DeckIsReady(g, Other(out))
  PROVE  Calm(StartHandover(g, out), H)
<1> DEFINE in == Other(out)
           p == Placed(g, in, TRUE, Side(out))
           h == StartDeck(p, in)
<1>1. /\ Good(g) /\ OneLine(g) /\ Steady(g) /\ Accounted(g, H) /\ g \in Conditions /\ g.deck \in [Decks -> DeckStates]
      /\ in \in Decks /\ in # out /\ g.deck[in] \in DeckStates /\ Side(out) \in 0..3
      /\ g.deck[in].phase \in {"loaded", "stopped"} /\ \A x \in Decks : x = in \/ x = out
  BY Parts, Constants DEF Calm, Good, DeckIsReady
<1>2. [g EXCEPT !.fader = Side(out), !.deck[in].gated = TRUE] = p
  BY <1>1 DEF Placed, Conditions
<1>3. StartHandover(g, out) = Begin(h, out)
  BY <1>2 DEF StartHandover
<1>4. Placing(g, in, TRUE, Side(out), p)
  BY <1>1, PlacedGood, Zenon
<1>5. in = Other(out)
  OBVIOUS
<1> HIDE DEF in, p
<1>6. /\ p.deck[in].title = g.deck[in].title /\ p.deck[in].phase = g.deck[in].phase
      /\ p.deck[out] = g.deck[out]
  BY <1>1, <1>4 DEF Placing, DeckStates
<1>7. Good(p) /\ in \in Decks /\ p.deck[in].phase # "empty"
  BY <1>1, <1>4, <1>6 DEF Placing
<1>8. /\ Good(h) /\ h.fader = p.fader /\ h.tr = p.tr /\ h.late = p.late /\ h.auto = p.auto /\ h.pool = p.pool
      /\ h.calls = p.calls /\ Ending(h) = Ending(p) /\ Played(h) \subseteq Played(p)
      /\ h.deck[in].phase = "playing" /\ h.deck[in].backend = "starting"
      /\ h.deck[in].title = p.deck[in].title
      /\ \A x \in Decks : x # in => h.deck[x] = p.deck[x]
  BY ONLY <1>7, StartDeckIs
<1> HIDE DEF h
<1>9. /\ h.fader = Side(out) /\ h.tr = NoTransition /\ h.late = g.late /\ h.auto = g.auto /\ h.pool = g.pool
      /\ h.calls = g.calls /\ h.deck[out] = g.deck[out]
  BY <1>1, <1>4, <1>6, <1>8 DEF Placing
<1>10. Answers(h) = Answers(g) /\ Finishes(h) = Finishes(g) /\ Ending(h) = Ending(g) /\ Played(h) \subseteq Played(g)
  <2>1. Ending(p) = Ending(g) /\ Played(p) = Played(g)
    BY <1>4 DEF Placing, Ending, Played
  <2> QED  BY <1>8, <1>9, <2>1 DEF Answers, Finishes
<1>11. OneLine(h)
  BY <1>1, <1>9, <1>10, SameLine
<1>12. ~g.deck[out].gated /\ g.late = {} /\ g.deck[out].title \in H /\ out # g.tr.in
  <2>1. out # g.tr.in /\ g.deck[out].title # Nothing /\ g.tr.state = "idle"
    BY <1>1, IdleOrNot, Constants DEF NoTransition
  <2> QED  BY <1>1, <2>1 DEF Steady, Accounted
<1>13. Accounted(h, H)
  <2>1. \A c \in Finishes(g) : c.deck \in Decks /\ c.deck # in
    BY <1>1, Parts DEF Good, Finishes, Calls, Accounted
  <2> QED  BY <1>1, <1>8, <1>9, <1>10, <1>12, <2>1 DEF Accounted, NoTransition
<1>14. \A d \in Decks : h.deck[d].phase # "empty"
  BY <1>1, <1>8, <1>9
<1>15. /\ ~h.auto.busy /\ h.auto.run = "running" /\ h.late = {} /\ ~h.deck[out].gated /\ h.deck[out].title \in H
       /\ h.deck[out].backend # "starting" /\ h.deck[Other(out)].phase = "playing"
       /\ h.deck[Other(out)].backend = "starting"
  BY <1>5, <1>8, <1>9, <1>12
<1>16. Calm(Begin(h, out), H)
  BY <1>8, <1>9, <1>11, <1>13, <1>14, <1>15, BeginCalm
<1> QED  BY <1>3, <1>16

LEMMA PlaybackCalm ==
  ASSUME NEW g, NEW H, Calm(g, H), NEW due
  PROVE  Calm(Playback(g, due), H)
<1> DEFINE playing == Playing(g)
           out == FirstOf(playing)
<1>1. CASE g.auto.run # "running" \/ IsTransitioning(g) \/ g.auto.busy
  BY <1>1 DEF Playback
<1>2. CASE g.auto.run = "running" /\ ~IsTransitioning(g) /\ ~g.auto.busy
  <2>1. /\ g.tr = NoTransition /\ g.tr.state = "idle" /\ playing \in SUBSET Decks /\ Good(g) /\ OneLine(g) /\ Steady(g)
        /\ Accounted(g, H)
    BY <1>2, IdleOrNot DEF Calm, Playing, IsTransitioning
  <2>2. CASE playing = {}
    BY <1>2, <2>1, <2>2, StartNextCalm DEF Playback
  <2>3. CASE playing = Decks
    <3> DEFINE d == IF g.fader <= 1 THEN "A" ELSE "B"
    <3>1. /\ d \in Decks /\ Decks # {} /\ \A x \in Decks : g.deck[x].phase = "playing"
      BY <2>3, Constants DEF Playing
    <3>2. Playback(g, due) = Begin(g, d)
      BY <1>2, <2>3, <3>1 DEF Playback
    <3>3. g.fader = Side(d) /\ g.fader # Side(Other(d))
      BY <2>1 DEF Steady, Side, Other
    <3> HIDE DEF d
    <3>4. /\ ~g.deck[d].gated /\ g.deck[Other(d)].phase = "playing" /\ g.late = {}
          /\ g.deck[Other(d)].backend \notin {"starting", "playing", "ended"}
      BY <1>2, <2>1, <3>1, <3>3, Constants DEF Steady
    <3>5. Calm(Begin(g, d), H)
      BY <1>2, <2>1, <3>1, <3>3, <3>4, BeginCalm
    <3> QED  BY <3>2, <3>5
  <2>4. CASE playing # {} /\ playing # Decks
    <3>1. out \in Decks /\ g.deck[out].phase = "playing"
      BY <2>1, <2>4, FirstIs DEF Playing
    <3>2. Playback(g, due) = IF due /\ g.deck[out].backend \in {"playing", "ended"} /\ DeckIsReady(g, Other(out))
                             THEN StartHandover(g, out) ELSE g
      BY <1>2, <2>4 DEF Playback
    <3> HIDE DEF out
    <3> QED  BY <1>2, <2>1, <3>1, <3>2, StartHandoverCalm
  <2> QED  BY <2>2, <2>3, <2>4
<1> QED  BY <1>1, <1>2

LEMMA PolledCalm ==
  ASSUME NEW g, NEW H, Calm(g, H), g.tr.state = "wait"
  PROVE  Calm(Polled(g), H)
<1>1. /\ Good(g) /\ OneLine(g) /\ Steady(g) /\ Accounted(g, H) /\ g \in Conditions /\ g.tr \in Handovers
      /\ g.deck \in [Decks -> DeckStates] /\ g.tr.in \in Decks /\ g.tr.out \in Decks /\ g.tr.in # g.tr.out
      /\ g.tr.in = Other(g.tr.out)
  BY IdleOrNot, Parts DEF Calm, Good
<1>2. CASE g.deck[g.tr.in].backend = "playing"
  <2> DEFINE h == StartCrossfade(g)
             k == [g.deck[g.tr.in] EXCEPT !.gated = FALSE]
  <2>1. Polled(g) = h
    BY <1>2 DEF Polled
  <2>2. /\ Good(h) /\ h.auto = g.auto /\ h.row = g.row /\ h.late = g.late /\ h.fader = g.fader
        /\ h.deck = [g.deck EXCEPT ![g.tr.in] = k] /\ h.tr = [g.tr EXCEPT !.state = "crossfade", !.step = "render"]
    BY <1>1, StartCrossfadeGood
  <2>3. h.pool = g.pool /\ h.calls = g.calls /\ h.commits = g.commits
    BY <1>1 DEF StartCrossfade, Conditions
  <2>4. /\ k.phase = g.deck[g.tr.in].phase /\ k.backend = "playing" /\ k.title = g.deck[g.tr.in].title
    BY <1>1, <1>2 DEF DeckStates
  <2> HIDE DEF h, k
  <2>5. \A d \in Decks : h.deck[d] = IF d = g.tr.in THEN k ELSE g.deck[d]
    BY <1>1, <2>2
  <2>6. h.tr.state = "crossfade" /\ h.tr.in = g.tr.in /\ h.tr.out = g.tr.out /\ h.tr.title = g.tr.title /\ h.tr.entry = g.tr.entry
    BY <1>1, <2>2 DEF Handovers
  <2>7. Answers(h) = Answers(g) /\ Finishes(h) = Finishes(g) /\ Ending(h) = Ending(g) /\ Played(h) = Played(g)
    BY <2>2, <2>3 DEF Answers, Finishes, Ending, Played
  <2>8. OneLine(h)
    BY <1>1, <2>2, <2>3, <2>7, SameLine
  <2>9. Steady(h)
    BY <1>1, <2>2, <2>4, <2>5, <2>6 DEF Steady
  <2>10. Accounted(h, H)
    <3>1. \A c \in Finishes(g) : c.deck \in Decks
      BY <1>1, Parts DEF Finishes, Calls
    <3> QED  BY <1>1, <1>2, <2>2, <2>4, <2>5, <2>6, <2>7, <3>1 DEF Accounted
  <2> QED  BY <2>1, <2>2, <2>8, <2>9, <2>10 DEF Calm
<1>3. CASE g.deck[g.tr.in].backend # "playing"
  <2> DEFINE h == [g EXCEPT !.tr.step = "poll"]
  <2>1. Polled(g) = h
    BY <1>1, <1>3 DEF Polled, Steady
  <2>2. Good(h)
    BY <1>1, <2>1, PolledGood
  <2>3. /\ h.tr = [g.tr EXCEPT !.step = "poll"] /\ h.fader = g.fader /\ h.late = g.late /\ h.deck = g.deck /\ h.auto = g.auto
        /\ h.row = g.row /\ h.pool = g.pool /\ h.calls = g.calls /\ h.commits = g.commits
    BY <1>1 DEF Conditions
  <2> HIDE DEF h
  <2>4. h.tr.state = "wait" /\ h.tr.in = g.tr.in /\ h.tr.out = g.tr.out /\ h.tr.title = g.tr.title /\ h.tr.entry = g.tr.entry
    BY <1>1, <2>3 DEF Handovers
  <2>5. Answers(h) = Answers(g) /\ Finishes(h) = Finishes(g) /\ Ending(h) = Ending(g) /\ Played(h) = Played(g)
    BY <2>3 DEF Answers, Finishes, Ending, Played
  <2>6. OneLine(h)
    BY <1>1, <2>3, <2>5, SameLine
  <2>7. Steady(h)
    BY <1>1, <2>3, <2>4 DEF Steady
  <2>8. Accounted(h, H)
    BY <1>1, <2>3, <2>4, <2>5 DEF Accounted
  <2> QED  BY <2>1, <2>2, <2>6, <2>7, <2>8 DEF Calm
<1> QED  BY <1>2, <1>3

LEMMA PersistIs ==
  ASSUME NEW g, Good(g), NEW t \in Nothing..N, NEW d \in Decks, NEW b \in BOOLEAN
  PROVE  Persisting(g, t, Persist(g, t, d, b))
<1> DEFINE e == [title |-> t, deck |-> d, live |-> TRUE, coord |-> b]
           h == Persist(g, t, d, b)
<1>1. /\ Aside(g, h) /\ Good(h) /\ h.deck = g.deck /\ h.auto = g.auto /\ h.pool = g.pool /\ h.calls = g.calls
      /\ h.row = g.row
  BY PersistAside
<1>2. CASE t = Nothing
  BY <1>1, <1>2 DEF Persist, Aside, Persisting
<1>3. CASE t # Nothing
  <2>1. g \in Conditions /\ g.commits \in Seq(Ends)
    BY Parts DEF Good
  <2>2. h.commits = Append(g.commits, e)
    BY <1>3, <2>1 DEF Persist, Conditions
  <2> HIDE DEF h
  <2>3. e.title = t
    OBVIOUS
  <2> HIDE DEF e
  <2>4. /\ DOMAIN h.commits = 1..(Len(g.commits) + 1) /\ Len(g.commits) \in Nat
        /\ h.commits[Len(g.commits) + 1] = e /\ DOMAIN g.commits = 1..Len(g.commits)
        /\ \A i \in 1..Len(g.commits) : h.commits[i] = g.commits[i]
    BY <2>1, <2>2
  <2>5. \A i \in DOMAIN h.commits : h.commits[i] = e \/ (i \in DOMAIN g.commits /\ h.commits[i] = g.commits[i])
    BY <2>4
  <2>6. Ending(h) \subseteq Ending(g) \cup ({t} \ {Nothing})
    BY <1>3, <2>3, <2>5 DEF Ending
  <2> QED  BY <1>1, <2>6 DEF Aside, h, Persisting
<1> QED  BY <1>2, <1>3

LEMMA FinishDeckCalm ==
  ASSUME NEW g, NEW H, Calm(g, H), NEW d \in Decks, g.deck[d].phase = "finished", \A c \in Finishes(g) : c.deck # d
  PROVE  Calm(FinishDeck(g, d), H)
<1> DEFINE p == Persist(g, g.deck[d].entry, d, FALSE)
           e == Eject(p, d)
           k == [EmptyDeck(p.deck[d]) EXCEPT !.backend = "silent"]
           h == [e EXCEPT !.calls = @ \cup {Call("refill", Nothing, d)}]
<1>1. /\ Good(g) /\ OneLine(g) /\ Steady(g) /\ Accounted(g, H) /\ g \in Conditions /\ g.deck[d] \in DeckStates
      /\ g.deck[d].entry \in Nothing..N /\ g.deck[d].entry \in {Nothing, g.deck[d].title} /\ g.deck[d].title \in H
  <2>1. g.deck[d] \in DeckStates
    BY Parts DEF Calm, Good
  <2> QED  BY <2>1 DEF Calm, Good, DeckStates, Accounted
<1>2. /\ Good(p) /\ p.deck = g.deck /\ p.fader = g.fader /\ p.tr = g.tr /\ p.late = g.late /\ p.auto = g.auto
      /\ p.pool = g.pool /\ p.calls = g.calls /\ p.row = g.row
      /\ Ending(p) \subseteq Ending(g) \cup ({g.deck[d].entry} \ {Nothing})
  <2>1. Good(g) /\ g.deck[d].entry \in Nothing..N /\ d \in Decks /\ FALSE \in BOOLEAN
    BY <1>1
  <2>2. Persisting(g, g.deck[d].entry, p)
    BY <2>1, PersistIs
  <2> QED  BY <2>2 DEF Persisting
<1> HIDE DEF p
<1>3. /\ Answers(p) = Answers(g) /\ Finishes(p) = Finishes(g) /\ Played(p) = Played(g) /\ Ending(p) \subseteq H
      /\ Played(p) \subseteq H
  BY <1>1, <1>2 DEF Answers, Finishes, Played, Accounted
<1>4. Calm(p, H)
  <2>1. OneLine(p)
    BY <1>1, <1>2, <1>3, SameLine
  <2>2. g.tr.state # "idle" => ~p.auto.busy
    BY <1>1, <1>2 DEF Steady
  <2> QED  BY <1>2, <1>3, <2>1, <2>2, CalmBeside
<1>5. CASE ~(g.auto.run = "running" /\ ~IsTransitioning(g))
  BY <1>4, <1>5 DEF FinishDeck, p
<1>6. CASE g.auto.run = "running" /\ ~IsTransitioning(g)
  <2>1. Redecked(p, d, k, e) /\ p.deck[d] \in DeckStates /\ p.deck \in [Decks -> DeckStates]
    BY <1>2, DetachIs, Parts DEF Good
  <2>2. k.phase = "empty" /\ k.backend = "silent" /\ k.title = Nothing /\ k.entry = Nothing
    BY <2>1, Emptied
  <2>3. FinishDeck(g, d) = h
    BY <1>6 DEF FinishDeck, p
  <2> HIDE DEF k, e
  <2>4. e \in Conditions /\ Call("refill", Nothing, d) \in Calls /\ e.calls \in SUBSET Calls
    BY <2>1, DeckCall, Parts DEF Redecked, Good
  <2>5. Good(h)
    <3>1. e.calls \cup {Call("refill", Nothing, d)} \in SUBSET Calls
      BY <2>4
    <3>2. h = [e EXCEPT !.calls = e.calls \cup {Call("refill", Nothing, d)}]
      BY <2>4 DEF Conditions
    <3> QED  BY <2>1, <3>1, <3>2, CallsAside DEF Redecked
  <2>6. /\ h.deck = e.deck /\ h.fader = e.fader /\ h.tr = e.tr /\ h.late = e.late /\ h.auto = e.auto /\ h.pool = e.pool
        /\ h.calls = e.calls \cup {Call("refill", Nothing, d)} /\ h.row = e.row /\ h.commits = e.commits
    BY <2>4 DEF Conditions
  <2> HIDE DEF h
  <2>7. /\ h.fader = p.fader /\ h.tr = p.tr /\ h.late = p.late /\ h.auto = p.auto /\ h.pool = p.pool
        /\ h.calls = p.calls \cup {Call("refill", Nothing, d)} /\ h.row = p.row /\ h.commits = p.commits
        /\ \A x \in Decks : h.deck[x] = IF x = d THEN k ELSE p.deck[x]
    BY <2>1, <2>6 DEF Redecked, Aside
  <2>8. Answers(h) = Answers(p) /\ Finishes(h) = Finishes(p) /\ Ending(h) = Ending(p) /\ Played(h) = Played(p)
    BY <2>7 DEF Answers, Finishes, Ending, Played, Call
  <2>9. OneLine(h)
    BY <1>4, <2>7, <2>8, SameLine DEF Calm
  <2>10. g.tr.state = "idle"
    BY <1>6 DEF IsTransitioning
  <2>11. Steady(h)
    BY <1>2, <1>4, <2>2, <2>7, <2>10 DEF Calm, Steady
  <2>12. Accounted(h, H)
    <3>1. \A c \in Finishes(p) : c.deck \in Decks /\ c.deck # d
      BY <1>2, <1>3, Parts DEF Good, Finishes, Calls
    <3> QED  BY <1>2, <1>4, <2>2, <2>7, <2>8, <2>10, <3>1 DEF Calm, Accounted
  <2> QED  BY <2>3, <2>5, <2>9, <2>11, <2>12 DEF Calm
<1> QED  BY <1>5, <1>6

\* A report changes coordinators only, and may publish a load.
LEMMA ReportCalm ==
  ASSUME NEW g, NEW h, NEW H, Reporting(g, h), Calm(g, H)
  PROVE  Calm(h, H)
<1>1. /\ Good(h) /\ h.deck = g.deck /\ h.row = g.row /\ h.auto = g.auto /\ h.pool = g.pool /\ h.commits = g.commits
      /\ h.fader = g.fader /\ h.tr = g.tr /\ h.late = g.late
      /\ g.calls \subseteq h.calls /\ \A c \in h.calls : c \in g.calls \/ c.kind = "autoload"
  BY DEF Reporting, Aside
<1>2. Answers(h) = Answers(g) /\ Finishes(h) = Finishes(g)
  BY <1>1 DEF Answers, Finishes
<1>3. Ending(h) \subseteq H /\ Played(h) \subseteq H
  BY <1>1 DEF Calm, Accounted, Ending, Played
<1>4. OneLine(h)
  BY <1>1, <1>2, SameLine DEF Calm
<1>5. g.tr.state # "idle" => ~h.auto.busy
  BY <1>1 DEF Calm, Steady
<1> QED  BY <1>1, <1>2, <1>3, <1>4, <1>5, CalmBeside

\* The handover is complete; the incoming title is heard from now on at the latest.
LEMMA CompleteCalm ==
  ASSUME NEW g, NEW H, NEW K, Calm(g, H), H \subseteq K, g.tr.step = "finish",
         Hears(Complete(g), K)
  PROVE  Calm(Complete(g), K)
<1> DEFINE d == g.tr.out
           t == g.tr.title
           coo == [cleanup |-> "open", commit |-> IF g.tr.entry = Nothing THEN "ok" ELSE "open",
                   published |-> FALSE, live |-> TRUE, deck |-> d]
           kk == [g.coord EXCEPT ![t] = coo]
           c == {x \in g.calls : x.kind # "finish" \/ x.deck # d}
           g1 == [[g EXCEPT !.calls = c] EXCEPT !.coord = kk]
           e == Detach(g1, d)
           k == EmptyDeck(g1.deck[d])
           j == Job("cleanup", t, d)
           g2 == Submit(e, j)
           p == Persist(g2, g.tr.entry, d, TRUE)
           h == [p EXCEPT !.tr = NoTransition, !.ramp = NoRamp]
<1>1. /\ Good(g) /\ OneLine(g) /\ Steady(g) /\ Accounted(g, H) /\ g \in Conditions /\ g.tr \in Handovers
      /\ g.deck \in [Decks -> DeckStates] /\ g.tr.in \in Decks /\ d \in Decks /\ g.tr.in # d
      /\ g.tr.in = Other(d) /\ g.tr.state = "verify"
  <2>1. g.tr.state = "verify"
    BY Parts DEF Calm, Good, Handovers, NoTransition
  <2> QED  BY <2>1, IdleOrNot, Parts DEF Calm, Good
<1>2. t \in 1..Library /\ g.tr.entry \in Nothing..N /\ g.tr.entry \in {Nothing, t} /\ g.deck[d].title = t
      /\ g.coord \in [1..Library -> Coords] /\ t \in H
  BY <1>1, Parts DEF Handovers, Steady, Accounted
<1>3. kk \in [1..Library -> Coords] /\ c \in SUBSET Calls
  <2>1. coo \in Coords
    BY <1>1 DEF Coords, Results, SomeDeck
  <2> QED  BY <1>1, <1>2, <2>1, Parts
<1>4. Complete(g) = h
  <2>1. [g EXCEPT !.calls = {x \in @ : x.kind # "finish" \/ x.deck # d}, !.coord[t] = coo] = g1
    BY <1>1 DEF Conditions
  <2> QED  BY <1>2, <2>1 DEF Complete
<1> HIDE DEF kk, c
<1>5. /\ Aside(g, g1) /\ g1.deck = g.deck /\ g1.auto = g.auto /\ g1.pool = g.pool /\ g1.calls = c /\ g1.row = g.row
      /\ g1.commits = g.commits
  BY <1>1, <1>3 DEF Good, Aside, Conditions
<1> HIDE DEF g1
<1>6. Good(g1) /\ g1.deck[d] \in DeckStates
  BY <1>1, <1>5, AsideGood
<1>7. Redecked(g1, d, k, e)
  BY <1>1, <1>6, DetachIs
<1>8. k.phase = "empty" /\ k.title = Nothing /\ k.backend = g.deck[d].backend
  <2>1. k.phase = "empty" /\ k.title = Nothing /\ k.backend = g1.deck[d].backend
    BY <1>6, Emptied
  <2> QED  BY <1>5, <2>1
<1> HIDE DEF e, k
<1>9. j \in Jobs /\ j.kind = "cleanup"
  BY <1>1, <1>2, Constants DEF Jobs, Job, SomeDeck
<1> HIDE DEF j
<1>10. /\ Aside(e, g2) /\ Good(g2) /\ g2.deck = e.deck /\ g2.row = e.row /\ g2.auto = e.auto /\ g2.calls = e.calls
       /\ g2.commits = e.commits /\ Working(g2) = Working(e)
  <2>1. Good(e) /\ e \in Conditions /\ e.pool \in Seq(Jobs)
    BY <1>7, Parts DEF Redecked, Good
  <2>2. Aside(e, g2) /\ Good(g2) /\ g2.deck = e.deck /\ g2.row = e.row /\ g2.auto = e.auto /\ g2.calls = e.calls
        /\ g2.commits = e.commits
    BY <1>9, <2>1, SubmitAside, AsideGood
  <2>3. g2.pool = Append(e.pool, j) \/ g2.pool = e.pool
    BY <2>1 DEF Submit, Conditions
  <2> HIDE DEF g2
  <2>4. Working(g2) = Working(e)
    BY <1>9, <2>1, <2>3, AppendLine DEF Working
  <2> QED  BY <2>2, <2>4
<1> HIDE DEF g2
<1>11. /\ Good(p) /\ p.deck = g2.deck /\ p.fader = g2.fader /\ p.late = g2.late /\ p.auto = g2.auto
       /\ p.pool = g2.pool /\ p.calls = g2.calls /\ p.row = g2.row
       /\ Ending(p) \subseteq Ending(g2) \cup ({g.tr.entry} \ {Nothing})
  <2>1. Good(g2) /\ g.tr.entry \in Nothing..N /\ d \in Decks /\ TRUE \in BOOLEAN
    BY <1>1, <1>2, <1>10
  <2>2. Persisting(g2, g.tr.entry, p)
    BY <2>1, PersistIs
  <2> QED  BY <2>2 DEF Persisting
<1> HIDE DEF p
<1>12. /\ h.deck = p.deck /\ h.fader = p.fader /\ h.late = p.late /\ h.auto = p.auto /\ h.tr = NoTransition
       /\ h.pool = p.pool /\ h.calls = p.calls /\ h.row = p.row /\ h.commits = p.commits
  BY <1>11 DEF Good, Conditions
<1>13. Good(h)
  BY <1>1, <1>4, CompleteGood
<1> HIDE DEF h
<1>14. /\ h.fader = g.fader /\ h.late = g.late /\ h.auto = g.auto /\ h.calls = c /\ h.row = g.row
       /\ \A x \in Decks : h.deck[x] = IF x = d THEN k ELSE g.deck[x]
  BY <1>1, <1>5, <1>7, <1>10, <1>11, <1>12 DEF Redecked, Aside
<1>15. OneLine(h)
  <2>1. Answers(h) = Answers(g)
    BY <1>14 DEF Answers, c
  <2>2. Working(h) = Working(g)
    BY <1>5, <1>7, <1>10, <1>11, <1>12 DEF Redecked, Working
  <2> QED  BY <1>1, <1>14, <2>1, <2>2 DEF OneLine
<1>16. Ending(h) \subseteq H /\ Played(h) \subseteq H
  <2>1. Ending(h) = Ending(p) /\ Ending(g2) = Ending(g)
    BY <1>5, <1>7, <1>10, <1>12 DEF Ending, Redecked
  <2>2. Played(h) = Played(g)
    BY <1>14 DEF Played
  <2> QED  BY <1>1, <1>2, <1>11, <2>1, <2>2 DEF Accounted
<1>17. g.fader = Side(g.tr.in) /\ ~g.deck[g.tr.in].gated /\ g.fader \in {0, 3}
  BY <1>1 DEF Good, Faded, Opened, Side
<1>18. h.tr.state = "idle" /\ h.tr.in = NoDeck /\ \A x \in Decks : x = d \/ x = g.tr.in
  BY <1>1, <1>12, Constants DEF NoTransition
<1>19. Steady(h)
  BY <1>1, <1>8, <1>14, <1>17, <1>18 DEF Steady
<1>20. Accounted(h, K)
  <2>1. ASSUME NEW x \in Finishes(h)
        PROVE  x.title = Nothing /\ h.deck[x.deck].phase = "finished"
    <3>1. x \in Finishes(g) /\ x.deck # d /\ x.deck \in Decks
      BY <1>1, <1>14, Parts DEF Finishes, c, Calls
    <3> QED  BY <1>1, <1>14, <3>1 DEF Accounted
  <2>3. g.deck[g.tr.in].backend = "playing" /\ g.deck[g.tr.in].title # Nothing => g.deck[g.tr.in].title \in K
    <3>1. h.deck[g.tr.in] = g.deck[g.tr.in] /\ h.fader = Side(g.tr.in) /\ ~g.deck[g.tr.in].muted
      BY <1>1, <1>14, <1>17, IdleOrNot DEF Good, Opened
    <3>2. Side(g.tr.in) # Side(Other(g.tr.in))
      BY <1>1 DEF Side, Other, Decks
    <3>3. g.deck[g.tr.in].backend = "playing" => Audible(h, g.tr.in)
      BY <1>17, <3>1, <3>2 DEF Audible
    <3> QED  BY <1>1, <1>4, <3>1, <3>3 DEF Hears
  <2>2. ASSUME NEW x \in Decks
        PROVE  /\ h.deck[x].backend = "starting" => h.deck[x].phase = "playing" /\ h.auto.run = "running"
               /\ h.deck[x].title # Nothing /\ h.deck[x].backend \in {"playing", "ended"} /\ x # h.tr.in
                    => h.deck[x].title \in K
               /\ h.deck[x].phase = "finished" => h.deck[x].title \in K
    <3>1. CASE x = d
      BY <1>1, <1>8, <1>14, <3>1 DEF Accounted
    <3>2. CASE x = g.tr.in
      BY <1>1, <1>14, <2>3, <3>2 DEF Accounted, Steady
    <3> QED  BY <1>18, <3>1, <3>2
  <2> QED  BY <1>16, <1>18, <2>1, <2>2 DEF Accounted
<1> QED  BY <1>4, <1>13, <1>15, <1>19, <1>20 DEF Calm

\* The incoming title did not start: it is skipped, what plays goes on.
LEMMA SkipIncomingCalm ==
  ASSUME NEW g, NEW H, Calm(g, H), g.tr.state = "wait", g.deck[g.tr.in].backend # "playing",
         g.deck[g.tr.in].backend # "starting"
  PROVE  Calm(SkipIncoming(g, g.tr.out), H)
<1>1. /\ Good(g) /\ OneLine(g) /\ Steady(g) /\ Accounted(g, H) /\ g \in Conditions /\ g.tr \in Handovers
      /\ g.deck \in [Decks -> DeckStates] /\ g.tr.in \in Decks /\ g.tr.out \in Decks /\ g.tr.in # g.tr.out
      /\ g.deck[g.tr.in] \in DeckStates /\ g.deck[g.tr.out] \in DeckStates
  BY IdleOrNot, Parts DEF Calm, Good
<1>2. PICK w : Skipping(g, w) /\ SkipIncoming(g, g.tr.out) = AutoLoad(w)
  BY <1>1, SkipIncomingIs
<1>3. /\ Good(w) /\ w.tr = NoTransition /\ w.fader = Side(g.tr.out) /\ w.late = g.late /\ w.auto.run = "running"
      /\ Working(w) = {} /\ Answers(w) = {} /\ Finishes(w) = Finishes(g)
      /\ Ending(w) = Ending(g) /\ Played(w) \subseteq Played(g)
  BY <1>2 DEF Skipping
<1> DEFINE i == w.deck[g.tr.in]
           o == w.deck[g.tr.out]
<1>4. /\ ~o.gated /\ o.phase = g.deck[g.tr.out].phase /\ o.title = g.deck[g.tr.out].title
      /\ o.backend = g.deck[g.tr.out].backend
  BY <1>1, <1>2, ReopenedDeck DEF Skipping
<1>5. ~i.gated /\ i.phase # "finished" /\ i.backend \notin {"starting", "playing", "ended"}
  <2> DEFINE e == [EmptyDeck(g.deck[g.tr.in]) EXCEPT !.backend = "silent"]
  <2>1. CASE i = Reopened(g.deck[g.tr.in])
    BY <1>1, <2>1, ReopenedDeck DEF Steady
  <2>2. CASE i = Reopened(e)
    <3>1. e \in DeckStates /\ e.phase = "empty" /\ e.backend = "silent"
      BY <1>1, Emptied
    <3> HIDE DEF e
    <3> QED  BY <2>2, <3>1, ReopenedDeck
  <2> QED  BY <1>2, <2>1, <2>2 DEF Skipping
<1>6. w.tr.state = "idle" /\ \A d \in Decks : d = g.tr.in \/ d = g.tr.out
  BY <1>1, <1>3 DEF NoTransition, Decks
<1>7. Steady(w)
  <2>1. Side(g.tr.out) \in {0, 3}
    BY DEF Side
  <2> QED  BY <1>1, <1>3, <1>4, <1>5, <1>6, <2>1 DEF Steady
<1>8. Accounted(w, H)
  <2>1. \A c \in Finishes(w) : c.title = Nothing /\ w.deck[c.deck].phase = "finished"
    <3>1. SUFFICES ASSUME NEW c \in Finishes(g) PROVE c.title = Nothing /\ w.deck[c.deck].phase = "finished"
      BY <1>3
    <3>2. c.deck \in Decks /\ c.title = Nothing /\ g.deck[c.deck].phase = "finished"
      BY <1>1, Parts DEF Finishes, Calls, Accounted
    <3> QED  BY <1>1, <1>4, <1>6, <3>2 DEF Steady
  <2>2. ASSUME NEW d \in Decks
        PROVE  /\ w.deck[d].backend = "starting" => w.deck[d].phase = "playing" /\ w.auto.run = "running"
               /\ w.deck[d].title # Nothing /\ w.deck[d].backend \in {"playing", "ended"} => w.deck[d].title \in H
               /\ w.deck[d].phase = "finished" => w.deck[d].title \in H
    <3>1. CASE d = g.tr.in
      BY <1>5, <3>1
    <3>2. CASE d = g.tr.out
      BY <1>1, <1>3, <1>4, <3>2 DEF Accounted
    <3> QED  BY <1>6, <3>1, <3>2
  <2>3. Ending(w) \subseteq H /\ Played(w) \subseteq H
    BY <1>1, <1>3 DEF Accounted
  <2> QED  BY <1>6, <2>1, <2>2, <2>3 DEF Accounted
<1>9. Calm(w, H)
  BY <1>3, <1>7, <1>8, NoLine DEF Calm
<1> QED  BY <1>2, <1>9, AutoLoadCalm

\* The incoming title was lost: the run is held back, what was mixed out is heard on.
LEMMA LoseIncomingCalm ==
  ASSUME NEW g, NEW H, Calm(g, H), g.tr.state = "crossfade", ~g.ramp.on, g.deck[g.tr.in].backend # "playing"
  PROVE  Calm(LoseIncoming(g, g.tr.out), H)
<1> DEFINE h == LoseIncoming(g, g.tr.out)
           i == h.deck[g.tr.in]
           o == h.deck[g.tr.out]
<1>1. /\ Good(g) /\ OneLine(g) /\ Steady(g) /\ Accounted(g, H) /\ g \in Conditions /\ g.tr \in Handovers
      /\ g.deck \in [Decks -> DeckStates] /\ g.tr.in \in Decks /\ g.tr.out \in Decks /\ g.tr.in # g.tr.out
      /\ g.deck[g.tr.in] \in DeckStates /\ g.deck[g.tr.out] \in DeckStates
  BY IdleOrNot, Parts DEF Calm, Good
<1>2. /\ Good(h) /\ h.tr = NoTransition /\ h.fader = Side(g.tr.out) /\ h.late = g.late /\ h.auto.run = "paused"
      /\ Working(h) = {} /\ Answers(h) = {} /\ Finishes(h) = Finishes(g)
      /\ Ending(h) = Ending(g) /\ Played(h) \subseteq Played(g)
      /\ h.deck = [g.deck EXCEPT ![g.tr.out] = Reopened(g.deck[g.tr.out]),
                                 ![g.tr.in] = [g.deck[g.tr.in] EXCEPT !.muted = TRUE]]
  BY <1>1, LoseIncomingIs DEF Losing
<1> HIDE DEF h
<1>3. o = Reopened(g.deck[g.tr.out]) /\ i = [g.deck[g.tr.in] EXCEPT !.muted = TRUE]
  BY <1>1, <1>2
<1> HIDE DEF o, i
<1>4. o.phase = g.deck[g.tr.out].phase /\ o.title = g.deck[g.tr.out].title /\ o.backend = g.deck[g.tr.out].backend
  BY <1>1, <1>3, ReopenedDeck
<1>5. i.phase = "playing" /\ i.backend \notin {"starting", "playing", "ended"}
  <2>1. i.phase = g.deck[g.tr.in].phase /\ i.backend = g.deck[g.tr.in].backend
    BY <1>1, <1>3 DEF DeckStates
  <2> QED  BY <1>1, <2>1 DEF Steady
<1>6. h.tr.state = "idle" /\ (\A d \in Decks : d = g.tr.in \/ d = g.tr.out) /\ h.deck[g.tr.in] = i /\ h.deck[g.tr.out] = o
  BY <1>1, <1>2 DEF NoTransition, Decks, i, o
<1>7. Steady(h)
  <2>1. Side(g.tr.out) \in {0, 3}
    BY DEF Side
  <2> QED  BY <1>1, <1>2, <1>6, <2>1 DEF Steady
<1>8. Accounted(h, H)
  <2>1. \A c \in Finishes(h) : c.title = Nothing /\ h.deck[c.deck].phase = "finished"
    <3>1. SUFFICES ASSUME NEW c \in Finishes(g) PROVE c.title = Nothing /\ h.deck[c.deck].phase = "finished"
      BY <1>2
    <3>2. c.deck \in Decks /\ c.title = Nothing /\ g.deck[c.deck].phase = "finished"
      BY <1>1, Parts DEF Finishes, Calls, Accounted
    <3> QED  BY <1>1, <1>4, <1>6, <3>2 DEF Steady
  <2>2. ASSUME NEW d \in Decks
        PROVE  /\ h.deck[d].backend = "starting" => h.deck[d].phase = "playing" /\ h.auto.run = "running"
               /\ h.deck[d].title # Nothing /\ h.deck[d].backend \in {"playing", "ended"} => h.deck[d].title \in H
               /\ h.deck[d].phase = "finished" => h.deck[d].title \in H
    <3>1. CASE d = g.tr.in
      BY <1>5, <1>6, <3>1
    <3>2. CASE d = g.tr.out
      BY <1>1, <1>4, <1>6, <3>2 DEF Accounted
    <3> QED  BY <1>6, <3>1, <3>2
  <2>3. Ending(h) \subseteq H /\ Played(h) \subseteq H
    BY <1>1, <1>2 DEF Accounted
  <2> QED  BY <1>6, <2>1, <2>2, <2>3 DEF Accounted
<1>9. Calm(h, H)
  BY <1>2, <1>7, <1>8, NoLine DEF Calm
<1> QED  BY <1>9 DEF h
----------------------------------------------------------------------------
(* Every action but the operator's keeps it.                               *)

LEMMA CalmMore ==
  ASSUME NEW g, NEW H, NEW K, Calm(g, H), H \subseteq K
  PROVE  Calm(g, K)
BY DEF Calm, Accounted

LEMMA CalmDone ==
  ASSUME NEW h, Done(h), Calm(h, heard), heard \subseteq heard'
  PROVE  Calm(G', heard')
<1>1. G' = h
  BY DoneIs DEF Calm, Good
<1> QED  BY <1>1, CalmMore

LEMMA StatusTickCalm ==
  ASSUME Calm(G, heard), StatusTick, heard \subseteq heard'
  PROVE  Calm(G', heard')
<1>1. PICK due \in BOOLEAN : Done(Playback(AutoLoad(Observe(Observe(G, "A"), "B")), due))
  BY DEF StatusTick
<1>2. "A" \in Decks /\ "B" \in Decks
  BY DEF Decks
<1>3. Calm(Observe(Observe(G, "A"), "B"), heard)
  BY <1>2, ObserveCalm
<1>4. Calm(Playback(AutoLoad(Observe(Observe(G, "A"), "B")), due), heard)
  BY <1>3, AutoLoadCalm, PlaybackCalm
<1> QED  BY <1>1, <1>4, CalmDone

LEMMA TransitionCallsCalm ==
  ASSUME Calm(G, heard), Poll \/ PollTimesOut \/ RenderTick \/ FinishTransition, heard \subseteq heard',
         Hears(G', heard')
  PROVE  Calm(G', heard')
<1>1. Good(G) /\ tr \in {NoTransition} \cup Handovers /\ G.tr = tr /\ G.ramp = ramp /\ G.deck = deck
  BY GParts, GIs DEF Calm
<1>2. /\ tr.step = "poll" => tr.state = "wait"
      /\ tr.step = "render" => tr.state = "crossfade"
  BY <1>1 DEF Handovers, NoTransition
<1>3. CASE Poll
  BY <1>1, <1>2, <1>3, PolledCalm, CalmDone DEF Poll
<1>4. CASE PollTimesOut
  <2>1. Done(SkipIncoming(G, G.tr.out)) /\ G.tr.state = "wait" /\ G.deck[G.tr.in].backend # "playing"
        /\ G.deck[G.tr.in].backend # "starting"
    BY <1>1, <1>2, <1>4 DEF PollTimesOut
  <2>2. Calm(SkipIncoming(G, G.tr.out), heard)
    BY <2>1, SkipIncomingCalm
  <2> QED  BY <2>1, <2>2, CalmDone
<1>5. CASE RenderTick
  <2>1. CASE deck[tr.in].backend = "playing"
    <3> DEFINE m == [tr EXCEPT !.state = "verify", !.step = "finish"]
               h == [G EXCEPT !.tr = m]
    <3>1. tr \in Handovers /\ tr.state = "crossfade" /\ ~ramp.on
      BY <1>1, <1>2, <1>5 DEF RenderTick, NoTransition
    <3>2. m \in Handovers /\ m.in = tr.in /\ m.out = tr.out /\ m.title = tr.title /\ m.entry = tr.entry
          /\ m.state = "verify"
      BY <3>1 DEF Handovers
    <3>3. Done([G EXCEPT !.tr.state = "verify", !.tr.step = "finish"])
      BY <1>5, <2>1 DEF RenderTick
    <3>4. [G EXCEPT !.tr.state = "verify", !.tr.step = "finish"] = h
      BY <1>1 DEF Good, Conditions
    <3> HIDE DEF m
    <3>5. /\ h \in Conditions /\ h.tr = m /\ h.deck = G.deck /\ h.ramp = G.ramp /\ h.auto = G.auto /\ h.late = G.late
          /\ h.pool = G.pool /\ h.fader = G.fader /\ h.calls = G.calls /\ h.row = G.row /\ h.commits = G.commits
      BY <1>1, <3>2 DEF Good, Conditions
    <3> HIDE DEF h
    <3>6. Good(h)
      BY <1>1, <3>1, <3>2, <3>5 DEF Good, Faded, Opened
    <3>7. Answers(h) = Answers(G) /\ Finishes(h) = Finishes(G) /\ Ending(h) = Ending(G) /\ Played(h) = Played(G)
      BY <3>5 DEF Answers, Finishes, Ending, Played
    <3>8. OneLine(h)
      BY <3>5, <3>7, SameLine DEF Calm
    <3>9. G.fader = Side(tr.in) /\ Side(tr.in) \in {0, 3}
      BY <1>1, <3>1 DEF Good, Faded, Side
    <3>10. Steady(h)
      BY <1>1, <3>1, <3>2, <3>5, <3>9 DEF Calm, Steady
    <3>11. Accounted(h, heard)
      BY <1>1, <3>1, <3>2, <3>5, <3>7 DEF Calm, Accounted
    <3> QED  BY <3>3, <3>4, <3>6, <3>8, <3>10, <3>11, CalmDone DEF Calm
  <2>2. CASE deck[tr.in].backend # "playing"
    <3>1. Done(LoseIncoming(G, G.tr.out)) /\ G.tr.state = "crossfade" /\ ~G.ramp.on /\ G.deck[G.tr.in].backend # "playing"
      BY <1>1, <1>2, <1>5, <2>2 DEF RenderTick
    <3> QED  BY <3>1, LoseIncomingCalm, CalmDone
  <2> QED  BY <2>1, <2>2
<1>6. CASE FinishTransition
  <2>1. Good(Complete(G)) /\ Done(Complete(G)) /\ G.tr.step = "finish"
    BY <1>1, <1>6, CompleteGood DEF FinishTransition
  <2>2. G' = Complete(G)
    BY <2>1, DoneIs DEF Good
  <2>3. Hears(Complete(G), heard')
    BY <2>2
  <2> QED  BY <2>1, <2>2, <2>3, CompleteCalm
<1> QED  BY <1>3, <1>4, <1>5, <1>6

LEMMA RampCalm ==
  ASSUME Calm(G, heard), RampArms \/ RampWrites \/ RampWritesLate, heard \subseteq heard'
  PROVE  Calm(G', heard')
<1>1. Good(G) /\ OneLine(G) /\ Steady(G) /\ Accounted(G, heard)
  BY DEF Calm
<1>2. Good(G')
  BY <1>1, RampGood
<1>3. late = {}
  BY <1>1, GIs DEF Steady
<1>4. /\ UNCHANGED <<deck, tr, late, auto, row, pool, calls, commits, coord>>
      /\ fader' = fader \/ tr.state = "crossfade"
  <2>1. ramp.armed => tr.state = "crossfade"
    BY <1>1, GIs DEF Good, Faded
  <2> QED  BY <1>3, <2>1 DEF RampArms, RampWrites, RampWritesLate
<1> DEFINE h == G'
<1>5. /\ h.deck = G.deck /\ h.tr = G.tr /\ h.late = G.late /\ h.auto = G.auto /\ h.row = G.row /\ h.pool = G.pool
      /\ h.calls = G.calls /\ h.commits = G.commits /\ (h.fader = G.fader \/ G.tr.state = "crossfade")
  BY <1>4, GIs, GIsNext
<1>6. Good(h)
  BY <1>2
<1> HIDE DEF h
<1>7. Answers(h) = Answers(G) /\ Finishes(h) = Finishes(G) /\ Ending(h) = Ending(G) /\ Played(h) = Played(G)
  BY <1>5 DEF Answers, Finishes, Ending, Played
<1>8. OneLine(h)
  BY <1>1, <1>5, <1>7, SameLine
<1>9. Steady(h)
  BY <1>1, <1>5 DEF Steady
<1>10. Accounted(h, heard)
  BY <1>1, <1>5, <1>7 DEF Accounted
<1>11. Calm(h, heard')
  BY <1>6, <1>8, <1>9, <1>10, CalmMore DEF Calm
<1> QED  BY <1>11 DEF h

\* Rows and callbacks that the preload executor leaves behind, having taken a job that counts,
\* or one that does not.
LEMMA ExecutorCalm ==
  ASSUME Calm(G, heard), Good(G'), pool # << >>, pool' = Tail(pool), Head(pool).kind # "cleanup",
         UNCHANGED <<deck, fader, tr, late, auto, commits>>, heard \subseteq heard', NEW x,
         calls' \subseteq calls \cup (IF Head(pool).live THEN {x} ELSE {}), x.kind # "finish",
         \A t \in Titles : row'[t].status = "played" => row[t].status = "played"
  PROVE  Calm(G', heard')
<1> DEFINE h == G'
<1>1. Good(G) /\ OneLine(G) /\ Steady(G) /\ Accounted(G, heard) /\ pool \in Seq(Jobs)
  BY GParts DEF Calm
<1>2. /\ h.deck = G.deck /\ h.fader = G.fader /\ h.tr = G.tr /\ h.late = G.late /\ h.auto = G.auto
      /\ h.commits = G.commits /\ h.pool = Tail(G.pool) /\ G.pool = pool
      /\ h.calls \subseteq G.calls \cup (IF Head(pool).live THEN {x} ELSE {})
      /\ \A t \in Titles : h.row[t].status = "played" => G.row[t].status = "played"
  BY GIs, GIsNext
<1>3. Good(h)
  OBVIOUS
<1> HIDE DEF h
<1>4. /\ Head(pool).live => Working(h) = {} /\ Answers(G) = {} /\ G.auto.busy
      /\ \A i, j \in Working(h) : i = j
      /\ Working(h) # {} => Working(G) # {}
  BY <1>1, <1>2, TailLine
<1>5. OneLine(h)
  <2>1. CASE Head(pool).live
    <3>1. Answers(h) \subseteq {x}
      BY <1>2, <1>4, <2>1 DEF Answers
    <3> QED  BY <1>2, <1>4, <2>1, <3>1 DEF OneLine
  <2>2. CASE ~Head(pool).live
    <3>1. Answers(h) \subseteq Answers(G)
      BY <1>2, <2>2 DEF Answers
    <3> QED  BY <1>1, <1>2, <1>4, <3>1 DEF OneLine
  <2> QED  BY <2>1, <2>2
<1>6. Finishes(h) \subseteq Finishes(G) /\ Ending(h) = Ending(G) /\ Played(h) \subseteq Played(G)
  BY <1>2 DEF Finishes, Ending, Played
<1>7. Ending(h) \subseteq heard /\ Played(h) \subseteq heard
  BY <1>1, <1>6 DEF Accounted
<1>8. G.tr.state # "idle" => ~h.auto.busy
  BY <1>1, <1>2 DEF Steady
<1>9. Calm(h, heard)
  BY <1>2, <1>3, <1>5, <1>6, <1>7, <1>8, CalmBeside
<1>10. Calm(h, heard')
  BY <1>9, CalmMore
<1> QED  BY <1>10 DEF h

LEMMA PrepareCalm ==
  ASSUME Calm(G, heard), Prepare, heard \subseteq heard'
  PROVE  Calm(G', heard')
<1> DEFINE r == Reconciled(row)
           free == {d \in Decks \ auto.suppressed : deck[d].title = Nothing /\ deck[d].backend # "playing"}
           t == CHOOSE x \in Waiting(r) : \A y \in Waiting(r) : x <= y
           d == FirstOf(free)
           outcome == IF ~Head(pool).live THEN {}
                      ELSE IF free = {} \/ Waiting(r) = {} THEN {Call("missed", Nothing, NoDeck)}
                      ELSE IF Assigned(r, d) # {} THEN {Call("failed", t, d)} ELSE {Call("adopt", t, d)}
           x == IF free = {} \/ Waiting(r) = {} THEN Call("missed", Nothing, NoDeck)
                ELSE IF Assigned(r, d) # {} THEN Call("failed", t, d) ELSE Call("adopt", t, d)
<1>1. /\ pool # << >> /\ Head(pool).kind = "prepare" /\ pool' = Tail(pool) /\ calls' = calls \cup outcome
      /\ row' = IF ~Head(pool).live THEN row
                ELSE IF outcome = {Call("adopt", t, d)}
                     THEN [r EXCEPT ![t] = [status |-> "preparing", deck |-> d]] ELSE r
      /\ UNCHANGED <<deck, fader, tr, late, auto, commits>>
  BY DEF Prepare
<1>2. Good(G) /\ row \in [Titles -> Assignments] /\ r \in [Titles -> Assignments]
  BY GParts, ReconciledIs DEF Calm
<1>3. \A q \in Titles : r[q] = row[q] \/ r[q] = [status |-> "waiting", deck |-> NoDeck]
  BY <1>2, ReconciledIs
<1>4. x.kind # "finish" /\ outcome = IF Head(pool).live THEN {x} ELSE {}
  BY DEF Call
<1> HIDE DEF r, t, d, outcome, x
<1>5. \A q \in Titles : row'[q].status = "played" => row[q].status = "played"
  BY <1>1, <1>2, <1>3
<1>6. Good(G')
  BY <1>2, PrepareGood
<1> QED  BY <1>1, <1>4, <1>5, <1>6, ExecutorCalm

LEMMA CommitPreloadCalm ==
  ASSUME Calm(G, heard), CommitPreload, heard \subseteq heard'
  PROVE  Calm(G', heard')
<1> DEFINE x == Call("followup", Nothing, NoDeck)
<1>1. /\ pool # << >> /\ Head(pool).kind = "commit" /\ pool' = Tail(pool)
      /\ calls' = calls \cup (IF Head(pool).live THEN {x} ELSE {})
      /\ UNCHANGED <<deck, fader, tr, late, auto, commits>>
  BY DEF CommitPreload
<1>2. Good(G) /\ Good(G')
  BY CommitPreloadGood DEF Calm
<1>3. \A q \in Titles : row'[q].status = "played" => row[q].status = "played"
  BY <1>2, GParts DEF CommitPreload
<1>4. x.kind # "finish"
  BY DEF Call
<1> HIDE DEF x
<1> QED  BY <1>1, <1>2, <1>3, <1>4, ExecutorCalm

LEMMA CleanupCalm ==
  ASSUME Calm(G, heard), Cleanup, heard \subseteq heard'
  PROVE  Calm(G', heard')
<1> DEFINE job == Head(pool)
           g == [G EXCEPT !.pool = Tail(@)]
           k == [g.deck[job.deck] EXCEPT !.backend = "silent"]
           x == [g EXCEPT !.deck[job.deck].backend = "silent"]
<1>1. /\ pool # << >> /\ job.kind = "cleanup"
      /\ Done(Reported(x, job.title, "cleanup", "ok")) \/ Done(Reported(g, job.title, "cleanup", "failed"))
  BY DEF Cleanup
<1>2. /\ Good(G) /\ OneLine(G) /\ Steady(G) /\ Accounted(G, heard) /\ pool \in Seq(Jobs)
      /\ job.deck \in Decks /\ job.title \in 1..Library /\ Tail(pool) \in Seq(Jobs) /\ Len(Tail(pool)) <= 2
  <2>1. Good(G)
    BY DEF Calm
  <2> QED  BY <1>1, <2>1, PoolTail, GParts DEF Jobs, Calm
<1>3. /\ Aside(G, g) /\ Good(g) /\ g.deck = G.deck /\ g.row = G.row /\ g.auto = G.auto
      /\ g.pool = Tail(pool) /\ g.calls = G.calls /\ g.commits = G.commits
  <2>1. g = [G EXCEPT !.pool = Tail(pool)]
    BY GIs
  <2> DEFINE p == Tail(pool)
  <2>2. p \in Seq(Jobs) /\ Len(p) <= 2 /\ Good(G) /\ g = [G EXCEPT !.pool = p]
    BY <1>2, <2>1
  <2> HIDE DEF p, g
  <2>3. /\ Aside(G, g) /\ Good(g) /\ g.deck = G.deck /\ g.row = G.row /\ g.auto = G.auto
        /\ g.pool = p /\ g.calls = G.calls /\ g.commits = G.commits
    BY <2>2, PoolAside
  <2> QED  BY <2>3 DEF p
<1> HIDE DEF g, job
<1>4. Calm(g, heard)
  <2>1. OneLine(g)
    <3>1. /\ \A i, j \in Working(g) : i = j
          /\ Working(g) # {} => Working(G) # {}
      BY <1>1, <1>2, <1>3, GIs, TailLine
    <3>2. Answers(g) = Answers(G)
      BY <1>3 DEF Answers
    <3> QED  BY <1>2, <1>3, <3>1, <3>2 DEF OneLine
  <2>2. Finishes(g) = Finishes(G) /\ Ending(g) = Ending(G) /\ Played(g) = Played(G)
    BY <1>3 DEF Finishes, Ending, Played
  <2>3. Ending(g) \subseteq heard /\ Played(g) \subseteq heard
    BY <1>2, <2>2 DEF Accounted
  <2>4. G.tr.state # "idle" => ~g.auto.busy
    BY <1>2, <1>3 DEF Steady
  <2>5. g.fader = G.fader /\ g.tr = G.tr /\ g.late = G.late
    BY <1>3 DEF Aside
  <2> QED  BY <1>3, <2>1, <2>2, <2>3, <2>4, <2>5, CalmBeside
<1>5. g.deck[job.deck] \in DeckStates /\ g \in Conditions /\ g.deck \in [Decks -> DeckStates]
  BY <1>2, <1>3, DeckValue
<1>6. /\ k \in DeckStates /\ k.gated = g.deck[job.deck].gated /\ k.muted = g.deck[job.deck].muted
      /\ k.backend = "silent" /\ k.phase = g.deck[job.deck].phase /\ k.title = g.deck[job.deck].title
  BY <1>5, SilentDeck DEF Backends
<1>7. x = [g EXCEPT !.deck[job.deck] = k]
  BY <1>2, <1>5 DEF Conditions
<1> HIDE DEF k, x
<1>8. Redecked(g, job.deck, k, x)
  BY <1>2, <1>3, <1>6, <1>7, DeckChanges
<1>9. /\ Good(x) /\ x.fader = g.fader /\ x.tr = g.tr /\ x.late = g.late /\ x.auto = g.auto /\ x.pool = g.pool
      /\ x.calls = g.calls /\ x.row = g.row /\ x.commits = g.commits
      /\ \A d \in Decks : x.deck[d] = IF d = job.deck THEN k ELSE g.deck[d]
  BY <1>2, <1>5, <1>8 DEF Redecked, Aside
<1>10. Calm(x, heard)
  <2>1. Answers(x) = Answers(g) /\ Finishes(x) = Finishes(g) /\ Ending(x) = Ending(g) /\ Played(x) = Played(g)
    BY <1>9 DEF Answers, Finishes, Ending, Played
  <2>2. OneLine(x)
    BY <1>4, <1>9, <2>1, SameLine DEF Calm
  <2>3. g.tr.state # "idle" => g.tr.in \in Decks /\ g.tr.out \in Decks
    BY <1>3, IdleOrNot
  <2>4. Steady(x)
    BY <1>4, <1>6, <1>9, <2>3 DEF Calm, Steady
  <2>5. \A c \in Finishes(g) : c.deck \in Decks
    BY <1>3, Parts DEF Good, Finishes, Calls
  <2>6. Accounted(x, heard)
    <3>1. Steady(g) /\ Accounted(g, heard) /\ g.tr.state \in States
      BY <1>3, <1>4, IdleOrNot DEF Calm
    <3>2. \A c \in Finishes(x) : c.title = Nothing /\ x.deck[c.deck].phase = "finished"
      BY <1>6, <1>9, <2>1, <2>5, <3>1 DEF Accounted
    <3>3. \A d \in Decks :
            /\ x.deck[d].backend = "starting" => x.deck[d].phase = "playing" /\ x.auto.run = "running"
            /\ x.deck[d].title # Nothing /\ x.deck[d].backend \in {"playing", "ended"} /\ d # x.tr.in
                 => x.deck[d].title \in heard
            /\ x.deck[d].phase = "finished" => x.deck[d].title \in heard
      BY <1>6, <1>9, <3>1 DEF Accounted
    <3>4. x.tr.state \in {"crossfade", "verify"} \/ (x.tr.state = "wait" /\ x.deck[x.tr.in].backend \in {"starting", "playing"})
            => x.deck[x.tr.out].backend # "starting" /\ x.tr.title \in heard
      BY <1>6, <1>9, <2>3, <3>1 DEF Accounted
    <3> QED  BY <1>9, <2>1, <3>1, <3>2, <3>3, <3>4 DEF Accounted
  <2> QED  BY <1>9, <2>2, <2>4, <2>6 DEF Calm
<1>11. Calm(Reported(x, job.title, "cleanup", "ok"), heard) /\ Calm(Reported(g, job.title, "cleanup", "failed"), heard)
  <2>1. Reporting(x, Reported(x, job.title, "cleanup", "ok")) /\ Reporting(g, Reported(g, job.title, "cleanup", "failed"))
    BY <1>2, <1>3, <1>9, ReportedIs
  <2> QED  BY <1>4, <1>10, <2>1, ReportCalm
<1> QED  BY <1>1, <1>11, CalmDone

LEMMA CommitCalm ==
  ASSUME Calm(G, heard), Commit, heard \subseteq heard'
  PROVE  Calm(G', heard')
<1> DEFINE job == Head(commits)
           g == [G EXCEPT !.commits = Tail(@)]
           due == job.live /\ row[job.title] = [status |-> "playing", deck |-> job.deck]
           x == [g EXCEPT !.row[job.title] = [status |-> "played", deck |-> NoDeck]]
           r == [g.row EXCEPT ![job.title] = [status |-> "played", deck |-> NoDeck]]
           Report(h, result) == IF job.coord THEN Reported(h, job.title, "commit", result) ELSE h
<1>1. commits # << >> /\ (Done(Report(x, "ok")) \/ Done(Report(g, "failed")))
  <2>1. commits # << >>
    BY DEF Commit
  <2>2. Done(IF due THEN Report(x, "ok") ELSE Report(g, "failed")) \/ Done(Report(g, "failed"))
    BY DEF Commit
  <2> QED  BY <2>1, <2>2
<1>2. /\ job \in Ends /\ job.title \in 1..Library /\ job.title \in Titles /\ Tail(commits) \in Seq(Ends)
      /\ G \in Conditions /\ Good(G) /\ OneLine(G) /\ Steady(G) /\ Accounted(G, heard)
  <2>1. job \in Ends /\ Tail(commits) \in Seq(Ends)
    BY <1>1, GParts DEF Calm
  <2> QED  BY <2>1, Constants DEF Ends, Good, Calm
<1>22. job.title \in heard
  <2>1. commits \in Seq(Ends)
    BY <1>2, GParts
  <2>2. 1 \in DOMAIN commits /\ job = commits[1]
    BY <1>1, <2>1
  <2>3. job.title \in Ending(G)
    BY <2>2, GIs DEF Ending
  <2> QED  BY <1>2, <2>3 DEF Accounted
<1> HIDE DEF job
<1>3. /\ Aside(G, g) /\ g.deck = G.deck /\ g.row = G.row /\ g.auto = G.auto
      /\ g.pool = G.pool /\ g.calls = G.calls /\ g.commits = Tail(commits)
  <2>1. g = [G EXCEPT !.commits = Tail(commits)]
    BY GIs
  <2> QED  BY <1>2, <2>1 DEF Good, Aside, Conditions
<1> HIDE DEF g
<1>4. Good(g)
  BY <1>2, <1>3, AsideGood
<1>5. Calm(g, heard)
  <2>1. Ending(g) \subseteq Ending(G)
    <3>1. commits \in Seq(Ends) /\ commits # << >>
      BY <1>1, <1>2, GParts
    <3>2. ASSUME NEW i \in DOMAIN g.commits
          PROVE  i + 1 \in DOMAIN commits /\ g.commits[i] = commits[i + 1]
      BY <1>3, <3>1, <3>2
    <3> QED  BY <3>2, GIs DEF Ending
  <2>2. Finishes(g) = Finishes(G) /\ Answers(g) = Answers(G) /\ Played(g) = Played(G)
    BY <1>3 DEF Finishes, Answers, Played
  <2>3. OneLine(g)
    BY <1>2, <1>3, <2>2, SameLine
  <2>4. Ending(g) \subseteq heard /\ Played(g) \subseteq heard
    BY <1>2, <2>1, <2>2 DEF Accounted
  <2>5. G.tr.state # "idle" => ~g.auto.busy
    BY <1>2, <1>3 DEF Steady
  <2>6. g.fader = G.fader /\ g.tr = G.tr /\ g.late = G.late
    BY <1>3 DEF Aside
  <2> QED  BY <1>3, <1>4, <2>2, <2>3, <2>4, <2>5, <2>6, CalmBeside
<1>6. r \in [Titles -> Assignments] /\ \A q \in Titles : r[q].status = "played" => q = job.title \/ g.row[q].status = "played"
  <2>1. [status |-> "played", deck |-> NoDeck] \in Assignments
    BY DEF Assignments, Statuses, SomeDeck
  <2>2. g.row \in [Titles -> Assignments]
    BY <1>4, Parts DEF Good
  <2> QED  BY <2>1, <2>2
<1>7. x = [g EXCEPT !.row = r]
  BY <1>4 DEF Good, Conditions
<1> HIDE DEF r, x
<1>8. /\ Aside(g, x) /\ Good(x) /\ x.deck = g.deck /\ x.row = r /\ x.auto = g.auto
      /\ x.pool = g.pool /\ x.calls = g.calls /\ x.commits = g.commits
  BY <1>4, <1>6, <1>7, RowAside
<1>9. Calm(x, heard)
  <2>1. Finishes(x) = Finishes(g) /\ Answers(x) = Answers(g) /\ Ending(x) = Ending(g)
    BY <1>8 DEF Finishes, Answers, Ending
  <2>2. Played(x) \subseteq heard
    <3>1. Played(g) \subseteq heard
      BY <1>5 DEF Calm, Accounted
    <3> QED  BY <1>6, <1>8, <1>22, <3>1 DEF Played
  <2>3. OneLine(x)
    BY <1>5, <1>8, <2>1, SameLine DEF Calm
  <2>4. Ending(x) \subseteq heard /\ (g.tr.state # "idle" => ~x.auto.busy)
    BY <1>5, <1>8, <2>1 DEF Calm, Accounted, Steady
  <2>5. x.fader = g.fader /\ x.tr = g.tr /\ x.late = g.late
    BY <1>8 DEF Aside
  <2> QED  BY <1>5, <1>8, <2>1, <2>2, <2>3, <2>4, <2>5, CalmBeside
<1>10. Calm(Reported(x, job.title, "commit", "ok"), heard) /\ Calm(Reported(g, job.title, "commit", "failed"), heard)
  <2>1. Reporting(x, Reported(x, job.title, "commit", "ok")) /\ Reporting(g, Reported(g, job.title, "commit", "failed"))
    BY <1>2, <1>4, <1>8, ReportedIs
  <2> QED  BY <1>5, <1>9, <2>1, ReportCalm
<1> QED  BY <1>1, <1>5, <1>9, <1>10, CalmDone

LEMMA CallbackCalm ==
  ASSUME Calm(G, heard), Callback, heard \subseteq heard'
  PROVE  Calm(G', heard')
<1>1. PICK c \in calls, due \in BOOLEAN :
        LET g == [G EXCEPT !.calls = @ \ {c}]
        IN  Done(CASE c.kind = "finish" -> FinishDeck(g, c.deck)
                   [] c.kind = "refill" -> AutoLoad(g)
                   [] c.kind = "autoload" -> AutoloadIfCurrent(g, c)
                   [] c.kind = "adopt" -> Adopt(g, c)
                   [] c.kind = "failed" -> PreparationFailed(g, c)
                   [] c.kind = "missed" -> [g EXCEPT !.auto.busy = FALSE]
                   [] c.kind = "followup" -> AutoLoad(Playback([g EXCEPT !.auto.busy = FALSE], due)))
  BY DEF Callback
<1> DEFINE g == [G EXCEPT !.calls = @ \ {c}]
<1>2. /\ c \in Calls /\ Good(G) /\ OneLine(G) /\ Steady(G) /\ Accounted(G, heard) /\ Aside(G, g) /\ Good(g)
      /\ g.deck = G.deck /\ g.row = G.row /\ g.auto = G.auto /\ g.pool = G.pool /\ g.commits = G.commits
      /\ g.calls = calls \ {c} /\ G.calls = calls
  <2>1. g = [G EXCEPT !.calls = calls \ {c}]
    BY GIs
  <2>2. calls \ {c} \in SUBSET Calls /\ c \in Calls
    BY GParts DEF Calm
  <2> QED  BY <2>1, <2>2, CallsAside, GIs DEF Calm
<1> HIDE DEF g
<1>3. /\ g \in Conditions /\ g.auto \in Autos /\ g.row \in [Titles -> Assignments] /\ g.deck \in [Decks -> DeckStates]
      /\ g.fader = G.fader /\ g.tr = G.tr /\ g.late = G.late
  BY <1>2, Parts DEF Good, Aside
<1>4. Finishes(g) = Finishes(G) \ {c} /\ Answers(g) = Answers(G) \ {c} /\ Working(g) = Working(G)
      /\ Ending(g) = Ending(G) /\ Played(g) = Played(G)
  BY <1>2 DEF Finishes, Answers, Working, Ending, Played
<1>5. OneLine(g)
  BY <1>2, <1>4 DEF OneLine
<1>6. Ending(g) \subseteq heard /\ Played(g) \subseteq heard /\ (g.tr.state # "idle" => ~g.auto.busy)
  BY <1>2, <1>3, <1>4 DEF Accounted, Steady
<1>7. Calm(g, heard)
  BY <1>2, <1>3, <1>4, <1>5, <1>6, CalmBeside
<1>8. c.kind \in {"adopt", "failed", "missed", "followup"} =>
        /\ Answers(g) = {} /\ Working(g) = {} /\ g.auto.busy /\ g.tr = NoTransition
  <2>1. c.kind \in {"adopt", "failed", "missed", "followup"} => c \in Answers(G)
    BY <1>2 DEF Answers
  <2>2. c \in Answers(G) => Answers(g) = {} /\ Working(g) = {} /\ g.auto.busy
    BY <1>2, <1>4 DEF OneLine
  <2>3. g.auto.busy => g.tr.state = "idle"
    BY <1>6
  <2> QED  BY <1>2, <2>1, <2>2, <2>3, IdleOrNot
<1> DEFINE idle == [g EXCEPT !.auto.busy = FALSE]
           a == [g.auto EXCEPT !.busy = FALSE]
<1>9. /\ Aside(g, idle) /\ Good(idle) /\ idle.deck = g.deck /\ idle.row = g.row /\ idle.auto = a
      /\ idle.pool = g.pool /\ idle.calls = g.calls /\ idle.commits = g.commits /\ a.busy = FALSE
  <2>1. a \in Autos /\ a.run = g.auto.run /\ a.gate = g.auto.gate /\ a.busy = FALSE
    BY <1>3 DEF Autos
  <2>2. idle = [g EXCEPT !.auto = a]
    BY <1>3 DEF Conditions
  <2> HIDE DEF a, idle
  <2> QED  BY <1>2, <2>1, <2>2, AutoChanges
<1> HIDE DEF a, idle
<1>10. c.kind \in {"failed", "missed", "followup"} => Calm(idle, heard)
  <2>1. SUFFICES ASSUME c.kind \in {"failed", "missed", "followup"} PROVE Calm(idle, heard)
    OBVIOUS
  <2>2. Answers(idle) = Answers(g) /\ Working(idle) = Working(g) /\ Finishes(idle) = Finishes(g)
        /\ Ending(idle) = Ending(g) /\ Played(idle) = Played(g)
    BY <1>9 DEF Answers, Working, Finishes, Ending, Played
  <2>3. OneLine(idle)
    BY <1>8, <2>1, <2>2, NoLine
  <2>4. /\ idle.fader = g.fader /\ idle.tr = g.tr /\ idle.late = g.late /\ idle.auto.run = g.auto.run
    BY <1>9 DEF Aside
  <2> QED  BY <1>6, <1>7, <1>9, <2>2, <2>3, <2>4, CalmBeside
<1>11. CASE c.kind = "finish"
  <2>1. c.deck \in Decks /\ Done(FinishDeck(g, c.deck))
    BY <1>1, <1>2, <1>11 DEF Calls, g
  <2>2. c \in Finishes(G) /\ c.title = Nothing
    BY <1>2, <1>11 DEF Finishes, Accounted
  <2>3. g.deck[c.deck].phase = "finished"
    BY <1>2, <2>2 DEF Accounted
  <2>4. ASSUME NEW x \in Finishes(g)
        PROVE  x.deck # c.deck
    <3>1. x \in Finishes(G) /\ x # c /\ x \in Calls /\ x.title = Nothing /\ x.kind = "finish"
      BY <1>2, <1>4, GParts DEF Accounted, Finishes
    <3> QED  BY <1>2, <1>11, <2>2, <3>1 DEF Calls
  <2>5. Calm(FinishDeck(g, c.deck), heard)
    BY <1>7, <2>1, <2>3, <2>4, FinishDeckCalm
  <2> QED  BY <2>1, <2>5, CalmDone
<1>12. CASE c.kind = "refill"
  BY <1>1, <1>7, <1>12, AutoLoadCalm, CalmDone DEF g
<1>13. CASE c.kind = "autoload"
  <2>1. Done(AutoloadIfCurrent(g, c))
    BY <1>1, <1>13 DEF g
  <2>2. AutoloadIfCurrent(g, c) \in {g, AutoLoad(g)}
    BY DEF AutoloadIfCurrent
  <2>3. Calm(AutoloadIfCurrent(g, c), heard)
    BY <1>7, <2>2, AutoLoadCalm
  <2> QED  BY <2>1, <2>3, CalmDone
<1>14. CASE c.kind = "adopt"
  <2>1. c.title \in Titles /\ c.deck \in Decks
    BY <1>2, <1>14 DEF Calls
  <2>2. Done(Adopt(g, c))
    BY <1>1, <1>14 DEF g
  <2> DEFINE z == Reset(g)
             b == [z.auto EXCEPT !.busy = FALSE]
             v == [z EXCEPT !.auto = b]
             k == [g.deck[c.deck] EXCEPT !.title = c.title, !.entry = c.title, !.phase = "loaded",
                                         !.backend = "silent", !.gated = FALSE]
             x == [g EXCEPT !.deck[c.deck] = k]
             j == Job("commit", c.title, c.deck)
             h == Submit(x, j)
  <2>3. Adopt(g, c) = IF g.row[c.title].status # "preparing" \/ g.deck[c.deck].title # Nothing \/ g.deck[c.deck].backend = "playing"
                      THEN [z EXCEPT !.auto.busy = FALSE] ELSE h
    BY <1>3 DEF Adopt, Conditions
  <2>4. Good(z) /\ z \in Conditions /\ z.auto \in Autos /\ Ended(g, z) /\ z.late = g.late
    BY <1>2, <1>8, <1>14, ResetEnds, NothingLate, Parts DEF Good, NoTransition
  <2> HIDE DEF z
  <2>5. b \in Autos /\ b.run = z.auto.run /\ b.gate = z.auto.gate /\ b.busy = FALSE
    BY <2>4 DEF Autos
  <2>6. [z EXCEPT !.auto.busy = FALSE] = v
    BY <2>4 DEF Conditions
  <2> HIDE DEF b
  <2>7. /\ Aside(z, v) /\ Good(v) /\ v.deck = z.deck /\ v.row = z.row /\ v.auto = b
        /\ v.pool = z.pool /\ v.calls = z.calls /\ v.commits = z.commits
    BY <2>4, <2>5, AutoChanges
  <2> HIDE DEF v
  <2>8. Calm(v, heard)
    <3>1. /\ v.deck = g.deck /\ v.row = g.row /\ v.pool = g.pool /\ v.calls = g.calls /\ v.commits = g.commits
          /\ v.fader = g.fader /\ v.late = g.late /\ v.tr = g.tr /\ v.auto.run = g.auto.run /\ v.auto.busy = FALSE
      BY <1>8, <1>14, <2>4, <2>5, <2>7 DEF Ended, Elsewhere, Aside
    <3>2. Answers(v) = Answers(g) /\ Working(v) = Working(g) /\ Finishes(v) = Finishes(g)
          /\ Ending(v) = Ending(g) /\ Played(v) = Played(g)
      BY <3>1 DEF Answers, Working, Finishes, Ending, Played
    <3>3. OneLine(v)
      BY <1>8, <1>14, <3>2, NoLine
    <3> QED  BY <1>6, <1>7, <2>7, <3>1, <3>2, <3>3, CalmBeside
  <2>9. CASE g.row[c.title].status # "preparing" \/ g.deck[c.deck].title # Nothing \/ g.deck[c.deck].backend = "playing"
    <3>1. Done(v)
      BY <2>2, <2>3, <2>6, <2>9
    <3> QED  BY <2>8, <3>1, CalmDone
  <2>10. CASE ~(g.row[c.title].status # "preparing" \/ g.deck[c.deck].title # Nothing \/ g.deck[c.deck].backend = "playing")
    <3>1. g.deck[c.deck] \in DeckStates /\ c.title \in 1..Library /\ c.title \in {Nothing, c.title} /\ c.title \in Nothing..N
          /\ g.deck[c.deck].phase = "empty"
      BY <1>2, <2>1, <2>10, DeckValue, Constants DEF DeckStates
    <3>2. k \in DeckStates /\ k.gated = FALSE /\ k.muted = g.deck[c.deck].muted
      BY ONLY Zenon, <3>1, LoadedDeck
    <3>3. k.phase = "loaded" /\ k.backend = "silent"
      BY <3>1 DEF DeckStates
    <3> HIDE DEF k
    <3>4. Redecked(g, c.deck, k, x)
      BY <1>2, <2>1, <3>2, DeckChanges
    <3> HIDE DEF x
    <3>5. /\ Good(x) /\ x.fader = g.fader /\ x.tr = g.tr /\ x.late = g.late /\ x.auto = g.auto /\ x.pool = g.pool
          /\ x.calls = g.calls /\ x.row = g.row /\ x.commits = g.commits
          /\ \A d \in Decks : x.deck[d] = IF d = c.deck THEN k ELSE g.deck[d]
      BY <1>3, <2>1, <3>4 DEF Redecked, Aside
    <3>6. j \in Jobs /\ x \in Conditions /\ x.pool \in Seq(Jobs)
      BY <2>1, <3>5, Constants, Parts DEF Jobs, Job, SomeDeck, Good
    <3> HIDE DEF j
    <3>7. /\ Aside(x, h) /\ Good(h) /\ h.deck = x.deck /\ h.row = x.row /\ h.auto = x.auto /\ h.calls = x.calls
          /\ h.commits = x.commits
      BY <3>5, <3>6, SubmitAside, AsideGood
    <3>8. h.pool = x.pool \/ h.pool = Append(x.pool, j)
      BY <3>6 DEF Submit, Conditions
    <3> HIDE DEF h
    <3>9. /\ h.fader = g.fader /\ h.tr = g.tr /\ h.late = g.late /\ h.auto = g.auto
          /\ h.calls = g.calls /\ h.row = g.row /\ h.commits = g.commits
          /\ \A d \in Decks : h.deck[d] = IF d = c.deck THEN k ELSE g.deck[d]
      BY <3>5, <3>7 DEF Aside
    <3>10. Answers(h) = Answers(g) /\ Finishes(h) = Finishes(g) /\ Ending(h) = Ending(g) /\ Played(h) = Played(g)
      BY <3>9 DEF Answers, Finishes, Ending, Played
    <3>11. OneLine(h)
      <4>1. Working(x) = {}
        BY <1>8, <1>14, <3>5 DEF Working
      <4>2. \A p, q \in Working(h) : p = q
        <5>1. CASE h.pool = x.pool
          BY <4>1, <5>1 DEF Working
        <5>2. CASE h.pool = Append(x.pool, j)
          BY <3>6, <4>1, <5>2, AppendLine
        <5> QED  BY <3>8, <5>1, <5>2
      <4> QED  BY <1>8, <1>14, <3>9, <3>10, <4>2 DEF OneLine
    <3>12. h.tr.state = "idle" /\ h.tr.in = NoDeck
      BY <1>8, <1>14, <3>9 DEF NoTransition
    <3>13. Steady(h)
      BY <1>7, <3>3, <3>9, <3>12 DEF Calm, Steady
    <3>14. Accounted(h, heard)
      <4>1. Accounted(g, heard)
        BY <1>7 DEF Calm
      <4>2. \A e \in Finishes(g) : e.deck \in Decks /\ e.deck # c.deck
        BY <1>2, <3>1, <4>1, Parts DEF Accounted, Good, Finishes, Calls
      <4> QED  BY <3>3, <3>9, <3>10, <3>12, <4>1, <4>2 DEF Accounted
    <3>15. Calm(h, heard)
      BY <3>7, <3>11, <3>13, <3>14 DEF Calm
    <3>16. Done(h)
      BY <2>2, <2>3, <2>10
    <3> QED  BY <3>15, <3>16, CalmDone
  <2> QED  BY <2>9, <2>10
<1>15. CASE c.kind = "failed"
  <2>1. c.title \in Titles
    BY <1>2, <1>15 DEF Calls
  <2>2. Done(PreparationFailed(g, c))
    BY <1>1, <1>15 DEF g
  <2> DEFINE v == IF g.row[c.title].status \in {"waiting", "preparing"} THEN [status |-> "failed", deck |-> NoDeck]
                  ELSE g.row[c.title]
             r == [g.row EXCEPT ![c.title] = v]
             x == [g EXCEPT !.auto.busy = FALSE, !.row[c.title] = v]
  <2>3. PreparationFailed(g, c) = AutoLoad(x)
    BY <1>3 DEF PreparationFailed, Conditions
  <2>4. x = [idle EXCEPT !.row = r]
    BY <1>3 DEF Conditions, idle
  <2>5. r \in [Titles -> Assignments] /\ \A q \in Titles : r[q].status = "played" => g.row[q].status = "played"
    <3>1. [status |-> "failed", deck |-> NoDeck] \in Assignments
      BY DEF Assignments, Statuses, SomeDeck
    <3> QED  BY <1>3, <2>1, <3>1
  <2> HIDE DEF x, r, v
  <2>6. /\ Aside(idle, x) /\ Good(x) /\ x.deck = idle.deck /\ x.row = r /\ x.auto = idle.auto
        /\ x.pool = idle.pool /\ x.calls = idle.calls /\ x.commits = idle.commits
    BY <1>9, <2>4, <2>5, RowAside
  <2>7. Calm(idle, heard)
    BY <1>10, <1>15
  <2>8. Answers(x) = Answers(idle) /\ Finishes(x) = Finishes(idle) /\ Ending(x) = Ending(idle)
        /\ Played(x) \subseteq Played(idle)
    BY <1>9, <2>5, <2>6 DEF Answers, Finishes, Ending, Played
  <2>9. OneLine(x)
    BY <2>6, <2>7, <2>8, SameLine DEF Calm
  <2>10. Ending(x) \subseteq heard /\ Played(x) \subseteq heard /\ (idle.tr.state # "idle" => ~x.auto.busy)
    BY <2>6, <2>7, <2>8 DEF Calm, Accounted, Steady
  <2>11. x.fader = idle.fader /\ x.tr = idle.tr /\ x.late = idle.late
    BY <2>6 DEF Aside
  <2>12. Calm(x, heard)
    BY <2>6, <2>7, <2>8, <2>9, <2>10, <2>11, CalmBeside
  <2>13. Calm(AutoLoad(x), heard) /\ Done(AutoLoad(x))
    BY <2>2, <2>3, <2>12, AutoLoadCalm
  <2> QED  BY <2>13, CalmDone
<1>16. CASE c.kind = "missed"
  <2>1. Done(idle)
    BY <1>1, <1>16 DEF g, idle
  <2> QED  BY <1>10, <1>16, <2>1, CalmDone
<1>17. CASE c.kind = "followup"
  <2>1. Done(AutoLoad(Playback(idle, due)))
    BY <1>1, <1>17 DEF g, idle
  <2>2. Calm(AutoLoad(Playback(idle, due)), heard)
    BY <1>10, <1>17, PlaybackCalm, AutoLoadCalm
  <2> QED  BY <2>1, <2>2, CalmDone
<1>18. c.kind \in {"finish", "refill", "autoload", "adopt", "failed", "missed", "followup"}
  BY <1>2 DEF Calls
<1> QED  BY <1>11, <1>12, <1>13, <1>14, <1>15, <1>16, <1>17, <1>18

LEMMA BackendIs ==
  ASSUME Good(G), NEW d \in Decks, NEW from, NEW to \in Backends, Backend(d, from, to)
  PROVE  Switching(G, G', d, to)
<1> DEFINE k == [deck[d] EXCEPT !.backend = to]
<1>1. deck[d] \in DeckStates /\ deck \in [Decks -> DeckStates]
  BY GParts
<1>2. /\ k.gated = deck[d].gated /\ k.muted = deck[d].muted /\ k.title = deck[d].title /\ k.phase = deck[d].phase
      /\ k.backend = to
  BY <1>1, SilentDeck
<1>3. deck' = [deck EXCEPT ![d] = k]
  BY DEF Backend
<1> HIDE DEF k
<1>4. \A x \in Decks : deck'[x] = IF x = d THEN k ELSE deck[x]
  BY <1>1, <1>3
<1>5. Good(G')
  BY BackendGood
<1>6. UNCHANGED <<fader, tr, late, auto, row, pool, calls, commits>>
  BY DEF Backend
<1> QED  BY <1>2, <1>4, <1>5, <1>6, GIs, GIsNext DEF Switching

LEMMA SwitchingBeside ==
  ASSUME NEW g, NEW h, NEW d, NEW to, Good(g), OneLine(g), Switching(g, h, d, to)
  PROVE  /\ OneLine(h) /\ Answers(h) = Answers(g) /\ Finishes(h) = Finishes(g) /\ Ending(h) = Ending(g)
         /\ Played(h) = Played(g)
         /\ \A c \in Finishes(g) : c.deck \in Decks
<1>1. Answers(h) = Answers(g) /\ Finishes(h) = Finishes(g) /\ Ending(h) = Ending(g) /\ Played(h) = Played(g)
  BY DEF Switching, Answers, Finishes, Ending, Played
<1>2. OneLine(h)
  BY <1>1, SameLine DEF Switching
<1>3. \A c \in Finishes(g) : c.deck \in Decks
  BY Parts DEF Good, Finishes, Calls
<1> QED  BY <1>1, <1>2, <1>3

\* A deck that starts to sound is heard, unless it is the incoming one of a handover.
LEMMA StartsCalm ==
  ASSUME NEW g, NEW h, NEW H, NEW K, Calm(g, H), H \subseteq K, NEW d \in Decks, g.deck[d].backend = "starting",
         Switching(g, h, d, "playing"), Hears(h, K)
  PROVE  Calm(h, K)
<1>1. /\ Good(g) /\ OneLine(g) /\ Steady(g) /\ Accounted(g, H)
      /\ OneLine(h) /\ Answers(h) = Answers(g) /\ Finishes(h) = Finishes(g) /\ Ending(h) = Ending(g)
      /\ Played(h) = Played(g) /\ \A c \in Finishes(g) : c.deck \in Decks
  BY SwitchingBeside DEF Calm
<1>2. g.deck[d].phase = "playing" /\ g.auto.run = "running" /\ g.tr.state \in States
  BY <1>1, IdleOrNot DEF Accounted
<1>3. g.tr.state # "idle" => g.tr.in \in Decks /\ g.tr.out \in Decks /\ \A x \in Decks : x = g.tr.in \/ x = g.tr.out
  BY <1>1, IdleOrNot, Constants
<1>4. d # g.tr.in => ~g.deck[d].gated /\ g.fader = Side(d)
  <2>1. CASE g.tr.state = "idle"
    BY <1>1, <1>2, <2>1 DEF Steady
  <2>2. CASE g.tr.state = "wait"
    BY <1>1, <1>3, <2>2 DEF Steady
  <2>3. CASE g.tr.state \in {"crossfade", "verify"}
    BY <1>1, <1>3, <2>3 DEF Accounted
  <2> QED  BY <1>2, <2>1, <2>2, <2>3 DEF States
<1>5. d # g.tr.in /\ h.deck[d].title # Nothing => h.deck[d].title \in K
  <2>1. ~g.deck[d].muted
    BY <1>1, <1>2 DEF Good, Opened
  <2>2. Side(d) # Side(Other(d))
    BY DEF Side, Other, Decks
  <2>3. d # g.tr.in => Audible(h, d)
    BY <1>4, <2>1, <2>2 DEF Audible, Switching
  <2> QED  BY <2>3 DEF Hears
<1>6. Steady(h)
  <2>1. /\ h.fader = g.fader /\ h.tr = g.tr /\ h.late = g.late /\ h.auto = g.auto
        /\ \A x \in Decks : /\ h.deck[x].phase = g.deck[x].phase /\ h.deck[x].title = g.deck[x].title
                            /\ h.deck[x].gated = g.deck[x].gated
                            /\ h.deck[x].backend = IF x = d THEN "playing" ELSE g.deck[x].backend
    BY DEF Switching
  <2> QED  BY <1>1, <1>3, <2>1 DEF Steady
<1>7. Accounted(h, K)
  <2>1. /\ h.tr = g.tr /\ h.auto = g.auto
        /\ \A x \in Decks : /\ h.deck[x].phase = g.deck[x].phase /\ h.deck[x].title = g.deck[x].title
                            /\ h.deck[x].backend = IF x = d THEN "playing" ELSE g.deck[x].backend
    BY DEF Switching
  <2>2. \A x \in Decks :
          /\ h.deck[x].backend = "starting" => h.deck[x].phase = "playing" /\ h.auto.run = "running"
          /\ h.deck[x].title # Nothing /\ h.deck[x].backend \in {"playing", "ended"} /\ x # h.tr.in
               => h.deck[x].title \in K
          /\ h.deck[x].phase = "finished" => h.deck[x].title \in K
    BY <1>1, <1>5, <2>1 DEF Accounted
  <2>3. h.tr.state \in {"crossfade", "verify"} \/ (h.tr.state = "wait" /\ h.deck[h.tr.in].backend \in {"starting", "playing"})
          => h.deck[h.tr.out].backend # "starting" /\ h.tr.title \in K
    BY <1>1, <1>3, <2>1 DEF Accounted
  <2>4. \A c \in Finishes(h) : c.title = Nothing /\ h.deck[c.deck].phase = "finished"
    BY <1>1, <2>1 DEF Accounted
  <2>5. Ending(h) \subseteq K /\ Played(h) \subseteq K
    BY <1>1 DEF Accounted
  <2> QED  BY <2>2, <2>3, <2>4, <2>5 DEF Accounted
<1> QED  BY <1>1, <1>6, <1>7 DEF Calm, Switching

\* A deck that ends, is lost or never starts.
LEMMA StopsCalm ==
  ASSUME NEW g, NEW h, NEW H, Calm(g, H), NEW d \in Decks, NEW to \in {"ended", "dead", "silent"},
         to = "ended" => d # g.tr.in /\ g.deck[d].backend = "playing", Switching(g, h, d, to)
  PROVE  Calm(h, H)
<1>1. /\ Good(g) /\ OneLine(g) /\ Steady(g) /\ Accounted(g, H)
      /\ OneLine(h) /\ Answers(h) = Answers(g) /\ Finishes(h) = Finishes(g) /\ Ending(h) = Ending(g)
      /\ Played(h) = Played(g) /\ \A c \in Finishes(g) : c.deck \in Decks
  BY SwitchingBeside DEF Calm
<1>2. g.tr.state # "idle" => g.tr.in \in Decks /\ g.tr.out \in Decks
  BY <1>1, IdleOrNot
<1>3. /\ h.fader = g.fader /\ h.tr = g.tr /\ h.late = g.late /\ h.auto = g.auto
      /\ \A x \in Decks : /\ h.deck[x].phase = g.deck[x].phase /\ h.deck[x].title = g.deck[x].title
                          /\ h.deck[x].gated = g.deck[x].gated
                          /\ h.deck[x].backend = IF x = d THEN to ELSE g.deck[x].backend
  BY DEF Switching
<1>4. Steady(h)
  BY <1>1, <1>2, <1>3 DEF Steady
<1>5. Accounted(h, H)
  <2>1. g.tr.state \in States
    BY <1>1, IdleOrNot
  <2>2. \A x \in Decks :
          /\ h.deck[x].backend = "starting" => h.deck[x].phase = "playing" /\ h.auto.run = "running"
          /\ h.deck[x].title # Nothing /\ h.deck[x].backend \in {"playing", "ended"} /\ x # h.tr.in
               => h.deck[x].title \in H
          /\ h.deck[x].phase = "finished" => h.deck[x].title \in H
    BY <1>1, <1>3 DEF Accounted
  <2>3. h.tr.state \in {"crossfade", "verify"} \/ (h.tr.state = "wait" /\ h.deck[h.tr.in].backend \in {"starting", "playing"})
          => h.deck[h.tr.out].backend # "starting" /\ h.tr.title \in H
    BY <1>1, <1>2, <1>3, <2>1 DEF Accounted
  <2>4. \A c \in Finishes(h) : c.title = Nothing /\ h.deck[c.deck].phase = "finished"
    BY <1>1, <1>3 DEF Accounted
  <2>5. Ending(h) \subseteq H /\ Played(h) \subseteq H
    BY <1>1 DEF Accounted
  <2> QED  BY <2>2, <2>3, <2>4, <2>5 DEF Accounted
<1> QED  BY <1>1, <1>4, <1>5 DEF Calm, Switching

LEMMA BackendsCalm ==
  ASSUME Calm(G, heard), (\E d \in Decks : BackendStarts(d) \/ TitleEnds(d)) \/ BackendNeverStarts \/ BackendLost,
         heard \subseteq heard', Hears(G', heard')
  PROVE  Calm(G', heard')
<1>1. Good(G) /\ (tr.state # "idle" => tr.in \in Decks) /\ {"playing", "ended", "dead", "silent"} \subseteq Backends
  BY GParts DEF Calm, Handovers, NoTransition, Backends
<1>2. ASSUME NEW d \in Decks, BackendStarts(d)
      PROVE  Calm(G', heard')
  <2>1. Switching(G, G', d, "playing") /\ G.deck[d].backend = "starting"
    BY <1>1, <1>2, BackendIs, GIs DEF BackendStarts, Backend
  <2> QED  BY <2>1, StartsCalm
<1>3. ASSUME NEW d \in Decks, NEW to \in {"ended", "dead", "silent"}, Switching(G, G', d, to),
             to = "ended" => d # G.tr.in /\ G.deck[d].backend = "playing"
      PROVE  Calm(G', heard')
  <2>1. Calm(G', heard)
    BY <1>3, StopsCalm
  <2> QED  BY <2>1, CalmMore
<1>4. ASSUME NEW d \in Decks, TitleEnds(d)
      PROVE  Calm(G', heard')
  <2>1. Switching(G, G', d, "ended") /\ d # G.tr.in /\ G.deck[d].backend = "playing"
    BY <1>1, <1>4, BackendIs, GIs DEF TitleEnds, Backend
  <2> QED  BY <1>3, <2>1
<1>5. CASE BackendNeverStarts
  <2>1. Switching(G, G', tr.in, "dead") /\ tr.in \in Decks
    BY <1>1, <1>5, BackendIs DEF BackendNeverStarts
  <2> QED  BY <1>3, <2>1
<1>6. CASE BackendLost
  <2>1. Switching(G, G', tr.in, "silent") /\ tr.in \in Decks
    BY <1>1, <1>6, BackendIs DEF BackendLost
  <2> QED  BY <1>3, <2>1
<1> QED  BY <1>2, <1>4, <1>5, <1>6

LEMMA BudgetKept ==
  ASSUME Budget, Next
  PROVE  /\ Budget'
         /\ Operator => \E c \in AllCommands : todo'[c] # todo[c]
<1>1. ASSUME NEW what \in AllCommands \cup AllFaults, todo[what] > 0, todo' = [todo EXCEPT ![what] = @ - 1]
      PROVE  Budget' /\ todo'[what] # todo[what]
  BY <1>1 DEF Budget
<1>2. ASSUME NEW what \in AllCommands \cup AllFaults, Spend(what)
      PROVE  Budget' /\ todo'[what] # todo[what]
  BY <1>1, <1>2 DEF Spend
<1>3. {"dead", "lost", "cleanup", "commit"} \subseteq AllCommands \cup AllFaults
  BY DEF AllFaults
<1>4. UNCHANGED todo => Budget'
  BY DEF Budget
<1>5. ASSUME StatusTick \/ Poll \/ PollTimesOut \/ RenderTick \/ FinishTransition \/ Callback \/ RampArms
             \/ RampWrites \/ RampWritesLate \/ Prepare \/ CommitPreload
             \/ \E d \in Decks : BackendStarts(d) \/ TitleEnds(d)
      PROVE  Budget'
  <2>1. UNCHANGED todo
    BY Zenon, <1>5 DEF StatusTick, Poll, PollTimesOut, RenderTick, FinishTransition, Callback, RampArms, RampWrites,
                RampWritesLate, Prepare, CommitPreload, BackendStarts, TitleEnds
  <2> QED  BY <1>4, <2>1
<1>6. ASSUME Cleanup PROVE Budget'
  <2>1. UNCHANGED todo \/ (todo["cleanup"] > 0 /\ todo' = [todo EXCEPT !["cleanup"] = @ - 1])
    BY <1>6 DEF Cleanup
  <2> QED  BY <1>1, <1>3, <1>4, <2>1
<1>7. ASSUME Commit PROVE Budget'
  <2>1. UNCHANGED todo \/ (todo["commit"] > 0 /\ todo' = [todo EXCEPT !["commit"] = @ - 1])
    BY <1>7 DEF Commit
  <2> QED  BY <1>1, <1>3, <1>4, <2>1
<1>8. ASSUME BackendNeverStarts PROVE Budget'
  BY <1>2, <1>3, <1>8 DEF BackendNeverStarts
<1>9. ASSUME BackendLost PROVE Budget'
  BY <1>2, <1>3, <1>9 DEF BackendLost
<1>10. Operator => Budget' /\ \E c \in AllCommands : todo'[c] # todo[c]
  BY <1>2 DEF Operator, Command
<1> QED  BY <1>5, <1>6, <1>7, <1>8, <1>9, <1>10 DEF Next

LEMMA HeardGrows ==
  ASSUME Next
  PROVE  heard \subseteq heard' /\ Hears(G', heard')
<1> DEFINE a == {x \in Decks : Audible([deck |-> deck', fader |-> fader'], x)}
<1>1. heard' = heard \cup ({deck'[d].title : d \in a} \ {Nothing})
  BY DEF Next
<1>2. \A d \in Decks : Audible(G', d) => d \in a
  BY GIsNext DEF Audible
<1> HIDE DEF a
<1>3. \A d \in a : deck'[d].title # Nothing => deck'[d].title \in heard'
  BY <1>1
<1> QED  BY <1>1, <1>2, <1>3, GIsNext DEF Hears

LEMMA NextCalm ==
  ASSUME Calm(G, heard), Next, ~Operator
  PROVE  Calm(G', heard')
<1>1. heard \subseteq heard' /\ Hears(G', heard')
  BY HeardGrows
<1>2. CASE StatusTick
  BY <1>1, <1>2, StatusTickCalm
<1>3. CASE Poll \/ PollTimesOut \/ RenderTick \/ FinishTransition
  BY <1>1, <1>3, TransitionCallsCalm
<1>4. CASE Callback
  BY <1>1, <1>4, CallbackCalm
<1>5. CASE RampArms \/ RampWrites \/ RampWritesLate
  BY <1>1, <1>5, RampCalm
<1>6. CASE Prepare \/ CommitPreload \/ Cleanup \/ Commit
  BY <1>1, <1>6, PrepareCalm, CommitPreloadCalm, CleanupCalm, CommitCalm
<1>7. CASE (\E d \in Decks : BackendStarts(d) \/ TitleEnds(d)) \/ BackendNeverStarts \/ BackendLost
  BY <1>1, <1>7, BackendsCalm
<1> QED  BY <1>2, <1>3, <1>4, <1>5, <1>6, <1>7 DEF Next

LEMMA InitCalm ==
  ASSUME Init
  PROVE  Calm(G, heard) /\ Budget
<1>1. Good(G) /\ Budget
  BY InitGood, TransitionAssumption DEF Init, Budget
<1>2. /\ fader = 0 /\ tr = NoTransition /\ late = {} /\ pool = << >> /\ calls = {} /\ commits = << >>
      /\ auto = [run |-> "running", held |-> {}, suppressed |-> {}, busy |-> FALSE, gate |-> FALSE]
      /\ heard = {1}
  BY DEF Init
<1>3. /\ deck["A"].title = 1 /\ deck["A"].phase = "playing" /\ deck["A"].backend = "playing" /\ deck["A"].gated = FALSE
      /\ deck["B"].phase = "loaded" /\ deck["B"].backend = "silent"
  BY DEF Init, Decks
<1>4. Working(G) = {} /\ Answers(G) = {} /\ Finishes(G) = {} /\ Ending(G) = {}
  <2>1. G.pool = << >> /\ G.calls = {} /\ G.commits = << >>
    BY <1>2, GIs
  <2>2. DOMAIN G.pool = {} /\ DOMAIN G.commits = {}
    BY <2>1
  <2> QED  BY <2>1, <2>2 DEF Working, Answers, Finishes, Ending
<1>5. Played(G) = {}
  <2>1. ASSUME NEW t \in Titles PROVE row[t].status # "played"
    BY DEF Init
  <2> QED  BY <2>1, GIs DEF Played
<1>6. Steady(G)
  BY <1>2, <1>3, GIs DEF Steady, NoTransition, Side, Decks
<1>7. Accounted(G, heard)
  BY <1>2, <1>3, <1>4, <1>5, GIs DEF Accounted, NoTransition, Decks
<1> QED  BY <1>1, <1>4, <1>6, <1>7, NoLine DEF Calm
----------------------------------------------------------------------------
(* Whose title is where, whatever the operator does.                       *)

LEMMA KeptAgain ==
  ASSUME NEW g, NEW h, NEW k, Kept(g, h), Kept(h, k)
  PROVE  Kept(g, k)
<1>1. ASSUME NEW d \in Decks PROVE KeptDeck(g, k, d)
  BY DEF Kept, KeptDeck
<1>2. ASSUME NEW t \in Titles PROVE KeptRow(g, k, t)
  BY DEF Kept, KeptRow
<1> QED  BY <1>1, <1>2 DEF Kept

\* Jobs, callbacks and ends are what their kinds say.
LEMMA LedgerTypes ==
  ASSUME NEW g, Good(g)
  PROVE  /\ \A c \in Adoptions(g) : c.title \in Titles /\ c.deck \in Decks
         /\ \A j \in CommitJobs(g) : j.title \in Titles /\ j.deck \in Decks
         /\ \A j \in Cleanups(g) : j.title \in 1..Library /\ j.deck \in Decks
         /\ \A e \in MixedEnds(g) : e[1] \in Titles /\ e[2] \in Decks
         /\ Nothing \notin Titles /\ NoDeck \notin Decks
         /\ \A t \in Titles : t \in 1..Library /\ g.coord[t] \in Coords /\ g.row[t] \in Assignments
         /\ \A d \in Decks : g.deck[d] \in DeckStates /\ Other(d) \in Decks /\ Other(d) # d /\ Other(Other(d)) = d
<1>1. /\ g.calls \in SUBSET Calls /\ g.pool \in Seq(Jobs) /\ g.commits \in Seq(Ends) /\ g.coord \in [1..Library -> Coords]
      /\ g.deck \in [Decks -> DeckStates] /\ g.row \in [Titles -> Assignments]
  BY Parts DEF Good
<1>2. \A c \in Adoptions(g) : c.title \in Titles /\ c.deck \in Decks
  BY <1>1 DEF Adoptions, Calls
<1>3. \A i \in DOMAIN g.pool : g.pool[i] \in Jobs
  BY <1>1
<1>4. \A j \in CommitJobs(g) : j.title \in Titles /\ j.deck \in Decks
  BY <1>3 DEF CommitJobs, Jobs
<1>5. \A j \in Cleanups(g) : j.title \in 1..Library /\ j.deck \in Decks
  BY <1>3 DEF Cleanups, Jobs
<1>6. \A i \in DOMAIN g.commits : g.commits[i].title \in Titles /\ g.commits[i].deck \in Decks
  <2>1. \A i \in DOMAIN g.commits : g.commits[i] \in Ends
    BY <1>1
  <2> QED  BY <2>1 DEF Ends
<1>7. \A e \in MixedEnds(g) : e[1] \in Titles /\ e[2] \in Decks
  BY <1>6 DEF MixedEnds
<1> QED  BY <1>1, <1>2, <1>4, <1>5, <1>7, Constants

LEMMA KeptLedger ==
  ASSUME NEW g, NEW h, Good(g), Ledger(g), Kept(g, h)
  PROVE  Ledger(h)
<1>1. \A d \in Decks : KeptDeck(g, h, d)
  BY DEF Kept
<1>2. \A t \in Titles : /\ KeptRow(g, h, t)
                        /\ h.coord[t].cleanup = g.coord[t].cleanup /\ h.coord[t].commit = g.coord[t].commit
                        /\ h.coord[t].deck = g.coord[t].deck
  BY DEF Kept
<1>3. /\ CommitJobs(h) \subseteq CommitJobs(g) /\ Cleanups(h) \subseteq Cleanups(g)
      /\ Adoptions(h) \subseteq Adoptions(g) /\ MixedEnds(h) \subseteq MixedEnds(g)
  BY DEF Kept
<1>4. \A d \in Decks : h.deck[d].title \in {Nothing, g.deck[d].title}
  BY <1>1 DEF KeptDeck
<1>5. Loaded(h)
  <2> SUFFICES ASSUME NEW d \in Decks, NEW t \in Titles, h.deck[d].title = t
               PROVE  /\ h.deck[Other(d)].title # t /\ h.coord[t].cleanup = "none"
                      /\ h.row[t].status # "waiting" /\ h.row[t].deck \in {d, NoDeck}
                      /\ h.row[t].status = "ready" => h.row[t].deck = d
                      /\ h.deck[d].phase \in {"playing", "paused", "finished"} /\ ~h.deck[d].muted => h.row[t].status # "ready"
                      /\ h.deck[d].entry = Nothing => h.row[t].status \notin {"ready", "playing"}
    BY DEF Loaded
  <2>1. g.deck[d].title = t /\ t # Nothing /\ Other(d) \in Decks
    BY <1>4, LedgerTypes
  <2>2. /\ g.deck[Other(d)].title # t /\ g.coord[t].cleanup = "none"
        /\ g.row[t].status # "waiting" /\ g.row[t].deck \in {d, NoDeck}
        /\ g.row[t].status = "ready" => g.row[t].deck = d
        /\ g.deck[d].phase \in {"playing", "paused", "finished"} /\ ~g.deck[d].muted => g.row[t].status # "ready"
        /\ g.deck[d].entry = Nothing => g.row[t].status \notin {"ready", "playing"}
    BY <2>1 DEF Ledger, Loaded
  <2>3. /\ h.deck[d].entry = g.deck[d].entry /\ (g.deck[d].muted => h.deck[d].muted)
        /\ h.deck[d].phase \in {"playing", "paused", "finished"} => g.deck[d].phase \in {"playing", "paused", "finished"}
    BY <1>1, <2>1 DEF KeptDeck
  <2>4. h.deck[Other(d)].title # t
    BY <1>4, <2>1, <2>2
  <2>5. KeptRow(g, h, t) /\ h.coord[t].cleanup = "none"
    BY <1>2, <2>2
  <2>6. CASE h.row[t] = g.row[t]
    BY <2>2, <2>3, <2>4, <2>5, <2>6
  <2>7. CASE h.row[t].status \in {"skipped", "played", "failed"} /\ h.row[t].deck \in {NoDeck, g.row[t].deck}
    BY <2>2, <2>3, <2>4, <2>5, <2>7
  <2> QED  BY <2>5, <2>6, <2>7 DEF KeptRow
<1>6. Adopting(h)
  <2> SUFFICES ASSUME NEW c \in Adoptions(h)
               PROVE  /\ h.deck[c.deck].title = Nothing /\ h.coord[c.title].cleanup = "none"
                      /\ \A d \in Decks : h.deck[d].title # c.title
                      /\ h.row[c.title].status \notin {"waiting", "ready", "playing"}
                      /\ h.row[c.title].deck \in {c.deck, NoDeck}
                      /\ \A t \in Titles : h.row[t] # [status |-> "playing", deck |-> c.deck]
    BY DEF Adopting
  <2>1. c \in Adoptions(g) /\ c.title \in Titles /\ c.deck \in Decks /\ c.title # Nothing
    BY <1>3, LedgerTypes
  <2>2. /\ g.deck[c.deck].title = Nothing /\ g.coord[c.title].cleanup = "none"
        /\ \A d \in Decks : g.deck[d].title # c.title
        /\ g.row[c.title].status \notin {"waiting", "ready", "playing"} /\ g.row[c.title].deck \in {c.deck, NoDeck}
        /\ \A t \in Titles : g.row[t] # [status |-> "playing", deck |-> c.deck]
    BY <2>1 DEF Ledger, Adopting
  <2>3. \A t \in Titles : h.row[t] # [status |-> "playing", deck |-> c.deck]
    BY <1>2, <2>2 DEF KeptRow
  <2> QED  BY <1>2, <1>4, <2>1, <2>2, <2>3 DEF KeptRow
<1>7. Committing(h)
  <2> SUFFICES ASSUME NEW j \in CommitJobs(h)
               PROVE  /\ h.coord[j.title].cleanup = "none" /\ h.deck[Other(j.deck)].title # j.title
                      /\ h.deck[j.deck].title = j.title => h.deck[j.deck].entry = j.title /\ h.deck[j.deck].phase = "loaded"
                      /\ h.row[j.title].status \notin {"ready", "playing"}
    BY DEF Committing
  <2>1. j \in CommitJobs(g) /\ j.title \in Titles /\ j.deck \in Decks /\ Other(j.deck) \in Decks /\ j.title # Nothing
    BY <1>3, LedgerTypes
  <2>2. /\ g.coord[j.title].cleanup = "none" /\ g.deck[Other(j.deck)].title # j.title
        /\ g.deck[j.deck].title = j.title => g.deck[j.deck].entry = j.title /\ g.deck[j.deck].phase = "loaded"
        /\ g.row[j.title].status \notin {"ready", "playing"}
    BY <2>1 DEF Ledger, Committing
  <2>3. h.deck[j.deck].title = j.title => h.deck[j.deck].entry = j.title /\ h.deck[j.deck].phase = "loaded"
    BY <1>1, <2>1, <2>2 DEF KeptDeck
  <2> QED  BY <1>2, <1>4, <2>1, <2>2, <2>3 DEF KeptRow
<1>8. MixedOut(h)
  <2> SUFFICES ASSUME NEW t \in Titles, h.coord[t].cleanup # "none"
               PROVE  /\ h.row[t].status \notin {"waiting", "ready"}
                      /\ h.coord[t].commit = "ok" => h.row[t].status # "playing"
                      /\ h.row[t] = [status |-> "playing", deck |-> h.coord[t].deck] =>
                           /\ h.deck[h.coord[t].deck].title = Nothing
                           /\ h.coord[t].cleanup = "ok" => h.deck[h.coord[t].deck].backend = "silent"
    BY DEF MixedOut
  <2>1. /\ g.row[t].status \notin {"waiting", "ready"}
        /\ g.coord[t].commit = "ok" => g.row[t].status # "playing"
        /\ g.row[t] = [status |-> "playing", deck |-> g.coord[t].deck] =>
             /\ g.deck[g.coord[t].deck].title = Nothing
             /\ g.coord[t].cleanup = "ok" => g.deck[g.coord[t].deck].backend = "silent"
    BY <1>2 DEF Ledger, MixedOut
  <2>2. /\ h.row[t].status \notin {"waiting", "ready"}
        /\ h.coord[t].commit = "ok" => h.row[t].status # "playing"
    BY <1>2, <2>1 DEF KeptRow
  <2>3. ASSUME h.row[t] = [status |-> "playing", deck |-> h.coord[t].deck]
        PROVE  /\ h.deck[h.coord[t].deck].title = Nothing
               /\ h.coord[t].cleanup = "ok" => h.deck[h.coord[t].deck].backend = "silent"
    <3>1. g.row[t] = [status |-> "playing", deck |-> g.coord[t].deck] /\ h.coord[t].deck = g.coord[t].deck
      BY <1>2, <2>3 DEF KeptRow
    <3>2. g.coord[t].deck \in Decks
      <4>1. g.coord[t] \in Coords /\ g.coord[t].cleanup # "none"
        BY <1>2, LedgerTypes
      <4> QED  BY <4>1 DEF Coords
    <3>3. KeptDeck(g, h, g.coord[t].deck)
      BY <1>1, <3>2
    <3> QED  BY <1>2, <2>1, <3>1, <3>2, <3>3 DEF KeptDeck
  <2> QED  BY <2>2, <2>3
<1>9. Awaited(h)
  <2>1. \A j \in Cleanups(h) : j.title \in Titles => h.coord[j.title].cleanup # "none" /\ h.coord[j.title].deck = j.deck
    BY <1>2, <1>3 DEF Ledger, Awaited
  <2>2. \A e \in MixedEnds(h) : h.coord[e[1]].cleanup # "none" /\ h.coord[e[1]].deck = e[2]
    BY <1>2, <1>3, LedgerTypes DEF Ledger, Awaited
  <2> QED  BY <2>1, <2>2 DEF Awaited
<1> QED  BY <1>5, <1>6, <1>7, <1>8, <1>9 DEF Ledger

LEMMA KeptBeside ==
  ASSUME NEW g, NEW h, h.deck = g.deck, h.row = g.row, h.coord = g.coord, h.commits = g.commits,
         CommitJobs(h) \subseteq CommitJobs(g), Cleanups(h) \subseteq Cleanups(g), Adoptions(h) \subseteq Adoptions(g)
  PROVE  Kept(g, h)
<1>1. \A d \in Decks : KeptDeck(g, h, d)
  BY DEF KeptDeck
<1>2. \A t \in Titles : KeptRow(g, h, t)
  BY DEF KeptRow
<1>3. MixedEnds(h) = MixedEnds(g)
  BY DEF MixedEnds
<1> QED  BY <1>1, <1>2, <1>3 DEF Kept

LEMMA KeptSame ==
  ASSUME NEW g, NEW h, h.deck = g.deck, h.row = g.row, h.coord = g.coord, h.commits = g.commits, h.pool = g.pool,
         h.calls = g.calls
  PROVE  Kept(g, h) /\ Answers(h) = Answers(g) /\ Working(h) = Working(g) /\ CommitJobs(h) = CommitJobs(g)
<1>1. CommitJobs(h) = CommitJobs(g) /\ Cleanups(h) = Cleanups(g) /\ Adoptions(h) = Adoptions(g)
  BY DEF CommitJobs, Cleanups, Adoptions
<1>2. Answers(h) = Answers(g) /\ Working(h) = Working(g)
  BY DEF Answers, Working
<1> QED  BY <1>1, <1>2, KeptBeside

LEMMA MixesBeside ==
  ASSUME NEW g, NEW h, Good(g), MixesOut(g), h.tr = g.tr,
         \A d \in Decks : h.deck[d].title = g.deck[d].title /\ h.deck[d].entry = g.deck[d].entry
                          /\ h.deck[d].phase = g.deck[d].phase
  PROVE  MixesOut(h)
<1>1. g.tr.state # "idle" => g.tr.out \in Decks
  BY IdleOrNot
<1> QED  BY <1>1 DEF MixesOut

LEMMA IdleMixes ==
  ASSUME NEW h, h.tr = NoTransition
  PROVE  MixesOut(h)
BY DEF MixesOut, NoTransition

LEMMA SettledKept ==
  ASSUME NEW g, NEW h, Good(g), Settled(g), Kept(g, h), OneLine(h), MixesOut(h)
  PROVE  Settled(h)
BY KeptLedger DEF Settled

\* Decks and rows, executors and callbacks are as they were.
LEMMA SettledBeside ==
  ASSUME NEW g, NEW h, Good(g), Settled(g), h.deck = g.deck, h.row = g.row, h.coord = g.coord, h.commits = g.commits,
         h.pool = g.pool, h.calls = g.calls, h.auto.busy = g.auto.busy, h.tr = g.tr \/ h.tr = NoTransition
  PROVE  Settled(h)
<1>1. Kept(g, h) /\ Answers(h) = Answers(g)
  BY KeptSame
<1>2. OneLine(h)
  BY <1>1, SameLine DEF Settled
<1>3. MixesOut(h)
  BY MixesBeside, IdleMixes DEF Settled
<1> QED  BY <1>1, <1>2, <1>3, SettledKept

LEMMA OutdateKept ==
  ASSUME NEW g, Good(g)
  PROVE  /\ Kept(g, OutdatePreload(g)) /\ CommitJobs(OutdatePreload(g)) = {} /\ Adoptions(OutdatePreload(g)) = {}
<1> DEFINE o == OutdatePreload(g)
           p == [i \in DOMAIN g.pool |-> IF g.pool[i].kind = "cleanup" THEN g.pool[i]
                                         ELSE [g.pool[i] EXCEPT !.live = FALSE]]
<1>1. g \in Conditions /\ g.pool \in Seq(Jobs)
  BY Parts DEF Good
<1>2. o.pool = p
  BY <1>1 DEF OutdatePreload, Conditions
<1>3. /\ Working(o) = {} /\ Answers(o) = {} /\ o.deck = g.deck /\ o.row = g.row /\ o.commits = g.commits
      /\ o.coord = g.coord
  BY OutdateStops, OutdateAside
<1>4. DOMAIN p = DOMAIN g.pool
  OBVIOUS
<1>5. ASSUME NEW i \in DOMAIN p, p[i].kind = "cleanup"
      PROVE  p[i] = g.pool[i]
  <2>1. g.pool[i] \in Jobs
    BY <1>1
  <2>2. [g.pool[i] EXCEPT !.live = FALSE].kind = g.pool[i].kind
    BY <2>1 DEF Jobs
  <2> QED  BY <1>5, <2>2
<1> HIDE DEF o, p
<1>6. Cleanups(o) \subseteq Cleanups(g)
  BY <1>2, <1>4, <1>5 DEF Cleanups
<1>7. CommitJobs(o) = {}
  BY <1>3 DEF CommitJobs, Working
<1>8. Adoptions(o) = {}
  BY <1>3 DEF Adoptions, Answers
<1>9. Kept(g, o)
  BY <1>3, <1>6, <1>7, <1>8, KeptBeside
<1> QED  BY <1>7, <1>8, <1>9 DEF o

LEMMA OutdateSettled ==
  ASSUME NEW g, Good(g), Settled(g)
  PROVE  Settled(OutdatePreload(g))
<1>1. OutdatePreload(g).deck = g.deck /\ OutdatePreload(g).tr = g.tr
  BY OutdateAside DEF Aside
<1>2. MixesOut(OutdatePreload(g))
  BY <1>1, MixesBeside DEF Settled
<1> QED  BY <1>2, OutdateKept, OutdateLine, SettledKept

\* One job more.
LEMMA AppendJobs ==
  ASSUME NEW g, NEW h, g.pool \in Seq(Jobs), NEW j \in Jobs, h.pool = Append(g.pool, j)
  PROVE  /\ CommitJobs(h) \subseteq CommitJobs(g) \cup (IF j.kind = "commit" THEN {j} ELSE {})
         /\ Cleanups(h) \subseteq Cleanups(g) \cup (IF j.kind = "cleanup" THEN {j} ELSE {})
<1>1. \A i \in DOMAIN h.pool : (i \in DOMAIN g.pool /\ h.pool[i] = g.pool[i]) \/ h.pool[i] = j
  OBVIOUS
<1>2. CommitJobs(h) \subseteq CommitJobs(g) \cup (IF j.kind = "commit" THEN {j} ELSE {})
  BY <1>1 DEF CommitJobs
<1>3. Cleanups(h) \subseteq Cleanups(g) \cup (IF j.kind = "cleanup" THEN {j} ELSE {})
  BY <1>1 DEF Cleanups
<1> QED  BY <1>2, <1>3

LEMMA SubmitPool ==
  ASSUME NEW g, Good(g), NEW j \in Jobs
  PROVE  Submit(g, j).pool = Append(g.pool, j) \/ Submit(g, j) = g
BY DEF Submit, Good, Conditions

LEMMA AutoLoadKept ==
  ASSUME NEW g, Good(g)
  PROVE  Kept(g, AutoLoad(g))
<1> DEFINE j == Job("prepare", Nothing, NoDeck)
           o == OutdatePreload(g)
           s == Submit(o, j)
           h == [s EXCEPT !.auto.busy = TRUE]
<1>1. Kept(g, o) /\ Good(o)
  BY OutdateKept, OutdateAside, AsideGood
<1>2. j \in Jobs /\ j.kind = "prepare"
  BY PrepareJob DEF Job
<1> HIDE DEF j
<1>3. AutoLoad(g) \in {g, o, h}
  BY DEF AutoLoad, j
<1> HIDE DEF o
<1>4. Good(s) /\ s.deck = o.deck /\ s.row = o.row /\ s.calls = o.calls /\ s.commits = o.commits /\ s.coord = o.coord
  BY <1>1, <1>2, SubmitAside, AsideGood
<1>5. CommitJobs(s) \subseteq CommitJobs(o) /\ Cleanups(s) \subseteq Cleanups(o)
  <2>1. o.pool \in Seq(Jobs)
    BY <1>1, Parts DEF Good
  <2> QED  BY <1>1, <1>2, <2>1, SubmitPool, AppendJobs
<1>6. Kept(o, s)
  <2>1. Adoptions(s) = Adoptions(o)
    BY <1>4 DEF Adoptions
  <2> QED  BY <1>4, <1>5, <2>1, KeptBeside
<1> HIDE DEF s
<1>7. h.deck = s.deck /\ h.row = s.row /\ h.coord = s.coord /\ h.commits = s.commits /\ h.pool = s.pool /\ h.calls = s.calls
  BY <1>4 DEF Good, Conditions
<1> HIDE DEF h
<1>8. Kept(s, h)
  BY <1>7, KeptSame
<1>9. Kept(g, g)
  BY KeptSame
<1> QED  BY <1>1, <1>3, <1>6, <1>8, <1>9, KeptAgain

LEMMA AutoLoadSettled ==
  ASSUME NEW g, Good(g), Settled(g)
  PROVE  Settled(AutoLoad(g)) /\ Good(AutoLoad(g))
<1>1. AutoLoad(g).deck = g.deck /\ AutoLoad(g).tr = g.tr /\ Good(AutoLoad(g))
  BY AutoLoadAside, AsideGood DEF Aside
<1>2. MixesOut(AutoLoad(g))
  BY <1>1, MixesBeside DEF Settled
<1>3. OneLine(AutoLoad(g))
  BY AutoLoadLine DEF Settled
<1> QED  BY <1>1, <1>2, <1>3, AutoLoadKept, SettledKept
----------------------------------------------------------------------------
(* Decks that start, and handovers that begin.                             *)

LEMMA NewPlaybackKept ==
  ASSUME NEW g, Good(g), NEW t \in Nothing..Library
  PROVE  Kept(g, NewPlayback(g, t))
<1> DEFINE h == NewPlayback(g, t)
           m == [i \in DOMAIN g.commits |-> [g.commits[i] EXCEPT !.live = @ /\ g.commits[i].title # t]]
           c == [g.coord EXCEPT ![t].live = FALSE]
<1>1. g \in Conditions /\ g.commits \in Seq(Ends) /\ g.coord \in [1..Library -> Coords]
  BY Parts DEF Good
<1>2. /\ h.deck = g.deck /\ h.row = g.row /\ h.pool = g.pool /\ h.calls = g.calls
  BY NewPlaybackAside
<1>3. h = g \/ (h.commits = m /\ h.coord = c)
  BY <1>1 DEF NewPlayback, Conditions
<1>4. \A x \in 1..Library : c[x].cleanup = g.coord[x].cleanup /\ c[x].commit = g.coord[x].commit /\ c[x].deck = g.coord[x].deck
  BY <1>1 DEF Coords
<1>5. \A i \in DOMAIN g.commits : m[i].title = g.commits[i].title /\ m[i].deck = g.commits[i].deck /\ m[i].coord = g.commits[i].coord
  <2>1. \A i \in DOMAIN g.commits : g.commits[i] \in Ends
    BY <1>1
  <2>2. \A e \in Ends : LET x == [e EXCEPT !.live = @ /\ e.title # t] IN x.title = e.title /\ x.deck = e.deck /\ x.coord = e.coord
    BY DEF Ends
  <2> QED  BY <2>1, <2>2
<1>6. DOMAIN m = DOMAIN g.commits
  OBVIOUS
<1> HIDE DEF h, m, c
<1>7. MixedEnds(h) \subseteq MixedEnds(g)
  BY <1>3, <1>5, <1>6 DEF MixedEnds
<1>8. CommitJobs(h) = CommitJobs(g) /\ Cleanups(h) = Cleanups(g) /\ Adoptions(h) = Adoptions(g)
  BY <1>2 DEF CommitJobs, Cleanups, Adoptions
<1>9. \A d \in Decks : KeptDeck(g, h, d)
  BY <1>2 DEF KeptDeck
<1>10. \A x \in Titles : KeptRow(g, h, x)
  BY <1>2 DEF KeptRow
<1>11. \A x \in Titles : x \in 1..Library
  BY Constants
<1>12. Kept(g, h)
  BY <1>3, <1>4, <1>7, <1>8, <1>9, <1>10, <1>11 DEF Kept
<1> QED  BY <1>12 DEF h

LEMMA StartDeckDoes ==
  ASSUME NEW g, Good(g), NEW d \in Decks
  PROVE  StartDoes(g, d, NewPlayback(g, g.deck[d].entry), StartDeck(g, d))
<1> DEFINE t == g.deck[d].entry
           startable == t # Nothing /\ g.row[t].status \in {"ready", "playing", "played"}
           e == IF startable THEN t ELSE Nothing
           k == [g.deck[d] EXCEPT !.phase = "playing", !.backend = "starting", !.entry = e]
           n == NewPlayback(g, t)
           h == [n EXCEPT !.deck[d] = k]
           r == [g.row EXCEPT ![t].status = "playing"]
<1>1. g \in Conditions /\ g.deck \in [Decks -> DeckStates] /\ g.row \in [Titles -> Assignments]
  BY Parts DEF Good
<1>2. t \in Nothing..Library
  BY <1>1, Constants DEF DeckStates
<1>3. /\ Good(n) /\ n.deck = g.deck /\ n.row = g.row /\ n.auto = g.auto
      /\ n.pool = g.pool /\ n.calls = g.calls /\ n.tr = g.tr
  BY <1>2, NewPlaybackAside, AsideGood DEF Aside
<1>4. n \in Conditions
  BY <1>3 DEF Good
<1>5. [n EXCEPT !.deck[d].phase = "playing", !.deck[d].backend = "starting", !.deck[d].entry = e] = h
  BY Zenon, <1>1, <1>3, <1>4 DEF Conditions
<1>6. /\ h.deck = [g.deck EXCEPT ![d] = k] /\ h.row = g.row /\ h.auto = g.auto /\ h.pool = g.pool
      /\ h.calls = g.calls /\ h.commits = n.commits /\ h.coord = n.coord /\ h.tr = g.tr
  BY <1>3, <1>4 DEF Conditions
<1>7. StartDeck(g, d) = IF startable THEN [h EXCEPT !.row[t].status = "playing"] ELSE h
  BY Zenon, <1>5 DEF StartDeck
<1>8. [h EXCEPT !.row[t].status = "playing"] = [h EXCEPT !.row = [h.row EXCEPT ![t].status = "playing"]]
  BY <1>4 DEF Conditions
<1>9. LET z == [h EXCEPT !.row = [h.row EXCEPT ![t].status = "playing"]]
      IN  /\ z.deck = h.deck /\ z.row = r /\ z.auto = h.auto /\ z.pool = h.pool
          /\ z.calls = h.calls /\ z.commits = h.commits /\ z.coord = h.coord /\ z.tr = h.tr
  BY Zenon, <1>4, <1>6 DEF Conditions
<1> HIDE DEF h, n, k, r
<1> QED  BY <1>6, <1>7, <1>8, <1>9 DEF StartDoes, k, n, r

\* A title that starts on its deck, with no preload of it to be committed.
LEMMA StartLedger ==
  ASSUME NEW g, NEW h, NEW n, Good(g), Ledger(g), Kept(g, n), NEW d \in Decks, StartDoes(g, d, n, h),
         g.deck[d].title # Nothing, \A j \in CommitJobs(g) : j.title # g.deck[d].title
  PROVE  Ledger(h)
<1> DEFINE t == g.deck[d].entry
           startable == t # Nothing /\ g.row[t].status \in {"ready", "playing", "played"}
<1>1. g.deck \in [Decks -> DeckStates] /\ g.row \in [Titles -> Assignments] /\ g.deck[d] \in DeckStates
  BY Parts DEF Good
<1>2. t \in {Nothing, g.deck[d].title} /\ (t # Nothing => t \in Titles)
  BY <1>1, Constants DEF DeckStates
<1>3. /\ \A x \in Decks : x # d => h.deck[x] = g.deck[x]
      /\ h.deck[d].title = g.deck[d].title /\ h.deck[d].muted = g.deck[d].muted
      /\ h.deck[d].entry = IF startable THEN t ELSE Nothing
  <2> DEFINE e == IF startable THEN t ELSE Nothing
             k == [g.deck[d] EXCEPT !.phase = "playing", !.backend = "starting", !.entry = e]
  <2>1. h.deck = [g.deck EXCEPT ![d] = k]
    BY DEF StartDoes
  <2> HIDE DEF e
  <2>2. k.title = g.deck[d].title /\ k.muted = g.deck[d].muted /\ k.entry = e
    BY <1>1 DEF DeckStates
  <2> HIDE DEF k
  <2>3. (\A x \in Decks : x # d => h.deck[x] = g.deck[x]) /\ h.deck[d] = k
    BY <1>1, <2>1
  <2> QED  BY <2>2, <2>3 DEF e
<1>4. \A x \in Decks : h.deck[x].title = g.deck[x].title
  BY <1>3
<1>5. /\ \A x \in Titles : h.row[x] = g.row[x] \/ (x = t /\ startable)
      /\ startable => /\ t \in Titles /\ h.row[t].status = "playing" /\ h.row[t].deck = g.row[t].deck
                      /\ h.row[t] = [status |-> "playing", deck |-> g.row[t].deck]
  <2>1. ASSUME startable PROVE /\ h.row = [g.row EXCEPT ![t].status = "playing"] /\ g.row[t] \in Assignments /\ t \in Titles
    BY <1>1, <1>2, <2>1 DEF StartDoes
  <2>2. ~startable => h.row = g.row
    BY DEF StartDoes
  <2>3. startable => /\ h.row[t] = [status |-> "playing", deck |-> g.row[t].deck]
                     /\ \A x \in Titles : x # t => h.row[x] = g.row[x]
    BY <1>1, <2>1 DEF Assignments
  <2> QED  BY <2>1, <2>2, <2>3
<1>6. /\ \A x \in Titles : h.coord[x].cleanup = g.coord[x].cleanup /\ h.coord[x].commit = g.coord[x].commit
                           /\ h.coord[x].deck = g.coord[x].deck
      /\ MixedEnds(h) \subseteq MixedEnds(g)
  <2>1. h.coord = n.coord /\ h.commits = n.commits
    BY DEF StartDoes
  <2>2. MixedEnds(h) = MixedEnds(n)
    BY <2>1 DEF MixedEnds
  <2> QED  BY <2>1, <2>2 DEF Kept
<1>7. CommitJobs(h) = CommitJobs(g) /\ Cleanups(h) = Cleanups(g) /\ Adoptions(h) = Adoptions(g)
  BY DEF StartDoes, CommitJobs, Cleanups, Adoptions
<1>8. /\ Loaded(g) /\ Adopting(g) /\ Committing(g) /\ MixedOut(g) /\ Awaited(g)
  BY DEF Ledger
<1> HIDE DEF startable
<1>9. Loaded(h)
  <2> SUFFICES ASSUME NEW x \in Decks, NEW u \in Titles, h.deck[x].title = u
               PROVE  /\ h.deck[Other(x)].title # u /\ h.coord[u].cleanup = "none"
                      /\ h.row[u].status # "waiting" /\ h.row[u].deck \in {x, NoDeck}
                      /\ h.row[u].status = "ready" => h.row[u].deck = x
                      /\ h.deck[x].phase \in {"playing", "paused", "finished"} /\ ~h.deck[x].muted => h.row[u].status # "ready"
                      /\ h.deck[x].entry = Nothing => h.row[u].status \notin {"ready", "playing"}
    BY DEF Loaded
  <2>1. /\ g.deck[x].title = u /\ u # Nothing /\ Other(x) \in Decks
        /\ g.deck[Other(x)].title # u /\ g.coord[u].cleanup = "none"
        /\ g.row[u].status # "waiting" /\ g.row[u].deck \in {x, NoDeck}
        /\ g.row[u].status = "ready" => g.row[u].deck = x
        /\ g.deck[x].phase \in {"playing", "paused", "finished"} /\ ~g.deck[x].muted => g.row[u].status # "ready"
        /\ g.deck[x].entry = Nothing => g.row[u].status \notin {"ready", "playing"}
    BY <1>4, <1>8, LedgerTypes DEF Loaded
  <2>2. h.deck[Other(x)].title # u /\ h.coord[u].cleanup = "none"
    BY <1>4, <1>6, <2>1
  <2>3. CASE x # d
    <3>1. u # t
      <4>1. Other(x) = d \/ x = d
        BY Constants DEF Other, Decks
      <4> QED  BY <1>2, <2>1, <2>3, <4>1
    <3>2. h.row[u] = g.row[u] /\ h.deck[x] = g.deck[x]
      BY <1>3, <1>5, <2>3, <3>1
    <3> QED  BY <2>1, <2>2, <3>2
  <2>4. CASE x = d /\ startable
    <3>1. u = t
      BY <1>2, <2>1, <2>4 DEF startable
    <3>2. h.deck[d].entry = t /\ t # Nothing /\ h.row[u].status = "playing" /\ h.row[u].deck = g.row[u].deck
      BY <1>3, <1>5, <2>4, <3>1 DEF startable
    <3> QED  BY <2>1, <2>2, <2>4, <3>2
  <2>5. CASE x = d /\ ~startable
    <3>1. h.row[u] = g.row[u] /\ h.deck[d].entry = Nothing
      BY <1>3, <1>5, <2>5
    <3>2. g.row[u].status \notin {"ready", "playing"}
      <4>1. CASE t = Nothing
        BY <2>1, <2>5, <4>1
      <4>2. CASE t # Nothing
        BY <1>2, <2>1, <2>5, <4>2 DEF startable
      <4> QED  BY <4>1, <4>2
    <3> QED  BY <2>1, <2>2, <3>1, <3>2
  <2> QED  BY <2>3, <2>4, <2>5
<1>10. Adopting(h)
  <2> SUFFICES ASSUME NEW c \in Adoptions(h)
               PROVE  /\ h.deck[c.deck].title = Nothing /\ h.coord[c.title].cleanup = "none"
                      /\ \A x \in Decks : h.deck[x].title # c.title
                      /\ h.row[c.title].status \notin {"waiting", "ready", "playing"}
                      /\ h.row[c.title].deck \in {c.deck, NoDeck}
                      /\ \A u \in Titles : h.row[u] # [status |-> "playing", deck |-> c.deck]
    BY DEF Adopting
  <2>1. /\ c \in Adoptions(g) /\ c.title \in Titles /\ c.deck \in Decks
        /\ g.deck[c.deck].title = Nothing /\ g.coord[c.title].cleanup = "none"
        /\ \A x \in Decks : g.deck[x].title # c.title
        /\ g.row[c.title].status \notin {"waiting", "ready", "playing"} /\ g.row[c.title].deck \in {c.deck, NoDeck}
        /\ \A u \in Titles : g.row[u] # [status |-> "playing", deck |-> c.deck]
    BY <1>7, <1>8, LedgerTypes DEF Adopting
  <2>2. c.deck # d /\ (startable => c.title # t)
    BY <1>2, <2>1 DEF startable
  <2>3. h.row[c.title] = g.row[c.title]
    BY <1>5, <2>1, <2>2
  <2>4. ASSUME NEW u \in Titles, h.row[u] = [status |-> "playing", deck |-> c.deck] PROVE FALSE
    <3>1. u = t /\ startable /\ g.row[t].deck = c.deck
      BY <1>5, <2>1, <2>4
    <3>2. g.deck[d].title = t /\ t \in Titles
      BY <1>2, <3>1 DEF startable
    <3>3. g.row[t].deck \in {d, NoDeck}
      BY <1>8, <3>2 DEF Loaded
    <3> QED  BY <2>1, <2>2, <3>1, <3>3, LedgerTypes
  <2> QED  BY <1>4, <1>6, <2>1, <2>3, <2>4
<1>11. Committing(h)
  <2> SUFFICES ASSUME NEW j \in CommitJobs(h)
               PROVE  /\ h.coord[j.title].cleanup = "none" /\ h.deck[Other(j.deck)].title # j.title
                      /\ h.deck[j.deck].title = j.title => h.deck[j.deck].entry = j.title /\ h.deck[j.deck].phase = "loaded"
                      /\ h.row[j.title].status \notin {"ready", "playing"}
    BY DEF Committing
  <2>1. /\ j \in CommitJobs(g) /\ j.title \in Titles /\ j.deck \in Decks /\ Other(j.deck) \in Decks /\ j.title # Nothing
        /\ g.coord[j.title].cleanup = "none" /\ g.deck[Other(j.deck)].title # j.title
        /\ g.deck[j.deck].title = j.title => g.deck[j.deck].entry = j.title /\ g.deck[j.deck].phase = "loaded"
        /\ g.row[j.title].status \notin {"ready", "playing"}
        /\ j.title # g.deck[d].title
    BY <1>7, <1>8, LedgerTypes DEF Committing
  <2>2. h.row[j.title] = g.row[j.title]
    BY <1>2, <1>5, <2>1
  <2>3. h.deck[j.deck].title = j.title => h.deck[j.deck].entry = j.title /\ h.deck[j.deck].phase = "loaded"
    BY <1>3, <2>1
  <2> QED  BY <1>4, <1>6, <2>1, <2>2, <2>3
<1>12. MixedOut(h)
  <2> SUFFICES ASSUME NEW u \in Titles, h.coord[u].cleanup # "none"
               PROVE  /\ h.row[u].status \notin {"waiting", "ready"}
                      /\ h.coord[u].commit = "ok" => h.row[u].status # "playing"
                      /\ h.row[u] = [status |-> "playing", deck |-> h.coord[u].deck] =>
                           /\ h.deck[h.coord[u].deck].title = Nothing
                           /\ h.coord[u].cleanup = "ok" => h.deck[h.coord[u].deck].backend = "silent"
    BY DEF MixedOut
  <2>1. /\ g.coord[u].cleanup # "none" /\ g.row[u].status \notin {"waiting", "ready"}
        /\ g.coord[u].commit = "ok" => g.row[u].status # "playing"
        /\ g.row[u] = [status |-> "playing", deck |-> g.coord[u].deck] =>
             /\ g.deck[g.coord[u].deck].title = Nothing
             /\ g.coord[u].cleanup = "ok" => g.deck[g.coord[u].deck].backend = "silent"
    BY <1>6, <1>8 DEF MixedOut
  <2>2. startable => u # t
    <3>1. g.deck[d].title # u
      BY <1>8, <2>1 DEF Loaded
    <3> QED  BY <1>2, <3>1 DEF startable
  <2>3. h.row[u] = g.row[u]
    BY <1>5, <2>2
  <2>4. g.coord[u].deck \in Decks
    <3>1. g.coord[u] \in Coords
      BY LedgerTypes
    <3> QED  BY <2>1, <3>1 DEF Coords
  <2>5. g.deck[g.coord[u].deck].title = Nothing => h.deck[g.coord[u].deck] = g.deck[g.coord[u].deck]
    BY <1>3, <2>4
  <2> QED  BY <1>6, <2>1, <2>3, <2>5
<1>13. Awaited(h)
  BY <1>6, <1>7, <1>8, LedgerTypes DEF Awaited
<1> QED  BY <1>9, <1>10, <1>11, <1>12, <1>13 DEF Ledger

LEMMA StartDeckSettled ==
  ASSUME NEW g, Good(g), Settled(g), g.tr = NoTransition, NEW d \in Decks, g.deck[d].title # Nothing,
         \A j \in CommitJobs(g) : j.title # g.deck[d].title
  PROVE  Settled(StartDeck(g, d)) /\ Good(StartDeck(g, d)) /\ StartDeck(g, d).tr = NoTransition
<1> DEFINE n == NewPlayback(g, g.deck[d].entry)
           h == StartDeck(g, d)
<1>1. g.deck[d] \in DeckStates
  BY Parts DEF Good
<1>2. g.deck[d].entry \in Nothing..Library /\ g.deck[d].phase # "empty"
  BY <1>1, Constants DEF DeckStates
<1>3. Kept(g, n)
  BY <1>2, NewPlaybackKept
<1>4. StartDoes(g, d, n, h)
  BY StartDeckDoes
<1>5. Good(h)
  BY Zenon, <1>2, StartDeckAside, AsideGood
<1> HIDE DEF n, h
<1>6. Ledger(h)
  BY <1>3, <1>4, StartLedger DEF Settled
<1>7. h.pool = g.pool /\ h.calls = g.calls /\ h.auto = g.auto /\ h.tr = g.tr
  BY <1>4 DEF StartDoes
<1>8. OneLine(h)
  BY <1>7, SameLine DEF Settled, Answers
<1>9. Settled(h)
  BY <1>6, <1>7, <1>8, IdleMixes DEF Settled
<1> QED  BY <1>5, <1>7, <1>9 DEF h

\* A deck that is ready has no preload to be committed.
LEMMA ReadyIsCommitted ==
  ASSUME NEW g, Good(g), Settled(g), NEW d \in Decks, DeckIsReady(g, d)
  PROVE  g.deck[d].title # Nothing /\ \A j \in CommitJobs(g) : j.title # g.deck[d].title
<1>1. g.deck[d] \in DeckStates /\ g.deck[d].phase # "empty"
  BY Parts DEF Good, DeckIsReady
<1>2. g.deck[d].title # Nothing
  BY <1>1 DEF DeckStates
<1>3. ASSUME NEW j \in CommitJobs(g), j.title = g.deck[d].title PROVE FALSE
  <2>1. /\ j.title \in Titles /\ j.deck \in Decks /\ j.title # Nothing
        /\ g.deck[Other(j.deck)].title # j.title
        /\ g.deck[j.deck].title = j.title => g.deck[j.deck].entry = j.title
        /\ g.row[j.title].status \notin {"ready", "playing"}
    BY LedgerTypes DEF Settled, Ledger, Committing
  <2>2. j.deck = d
    <3>1. Other(j.deck) = d \/ j.deck = d
      BY <2>1, Constants DEF Other, Decks
    <3> QED  BY <1>3, <2>1, <3>1
  <2>3. g.deck[d].entry = j.title
    BY <1>3, <2>1, <2>2
  <2> QED  BY <2>1, <2>3 DEF DeckIsReady
<1> QED  BY <1>2, <1>3

\* Callbacks other than those of the preload do not count.
LEMMA SameAnswers ==
  ASSUME NEW g, NEW h, Answers(h) = Answers(g)
  PROVE  Adoptions(h) = Adoptions(g)
<1>1. \A x : Adoptions(x) = {c \in Answers(x) : c.kind = "adopt"}
  BY DEF Adoptions, Answers
<1> QED  BY <1>1

LEMMA CallsSettled ==
  ASSUME NEW g, NEW h, Good(g), Settled(g), h.deck = g.deck, h.row = g.row, h.coord = g.coord, h.commits = g.commits,
         h.pool = g.pool, Answers(h) = Answers(g), h.auto.busy = g.auto.busy, h.tr = g.tr \/ h.tr = NoTransition
  PROVE  Settled(h)
<1>1. CommitJobs(h) = CommitJobs(g) /\ Cleanups(h) = Cleanups(g)
  BY DEF CommitJobs, Cleanups
<1>2. Kept(g, h)
  BY <1>1, SameAnswers, KeptBeside
<1>3. OneLine(h)
  BY SameLine DEF Settled
<1>4. MixesOut(h)
  BY MixesBeside, IdleMixes DEF Settled
<1> QED  BY <1>2, <1>3, <1>4, SettledKept

\* The deck d is k.
LEMMA DeckSettled ==
  ASSUME NEW g, NEW h, Good(g), Settled(g), NEW d \in Decks, NEW k, h.deck = [g.deck EXCEPT ![d] = k],
         h.row = g.row, h.coord = g.coord, h.commits = g.commits, h.pool = g.pool, Answers(h) = Answers(g),
         h.auto.busy = g.auto.busy, k.title \in {Nothing, g.deck[d].title},
         k.title # Nothing =>
           /\ k.entry = g.deck[d].entry /\ (g.deck[d].muted => k.muted)
           /\ k.phase \in {"playing", "paused", "finished"} => g.deck[d].phase \in {"playing", "paused", "finished"}
           /\ g.deck[d].phase = "loaded" => k.phase = "loaded" \/ CommitJobs(g) = {},
         g.deck[d].title = Nothing /\ g.deck[d].backend = "silent" => k.backend = "silent",
         MixesOut(h)
  PROVE  Settled(h)
<1>1. CommitJobs(h) = CommitJobs(g) /\ Cleanups(h) = Cleanups(g) /\ MixedEnds(h) = MixedEnds(g)
  BY DEF CommitJobs, Cleanups, MixedEnds
<1>2. g.deck \in [Decks -> DeckStates]
  BY Parts DEF Good
<1>3. h.deck[d] = k /\ \A x \in Decks : x # d => h.deck[x] = g.deck[x]
  BY <1>2
<1>4. KeptDeck(g, h, d)
  BY <1>1, <1>3 DEF KeptDeck
<1>5. \A x \in Decks : KeptDeck(g, h, x)
  BY <1>3, <1>4 DEF KeptDeck
<1>6. \A t \in Titles : KeptRow(g, h, t)
  BY DEF KeptRow
<1>7. Kept(g, h)
  BY <1>1, <1>5, <1>6, SameAnswers DEF Kept
<1>8. OneLine(h)
  BY SameLine DEF Settled
<1> QED  BY <1>7, <1>8, SettledKept

LEMMA ElsewhereSettled ==
  ASSUME NEW g, NEW h, Good(g), Settled(g), Elsewhere(g, h), h.tr = g.tr \/ h.tr = NoTransition
  PROVE  Settled(h)
BY SettledBeside DEF Elsewhere

LEMMA ResetSettled ==
  ASSUME NEW g, Good(g), Settled(g)
  PROVE  /\ Settled(Reset(g)) /\ Settled(Abort(g)) /\ Good(Reset(g)) /\ Good(Abort(g))
         /\ Reset(g).tr = NoTransition /\ Abort(g).tr = NoTransition
         /\ Elsewhere(g, Reset(g)) /\ Elsewhere(g, Abort(g))
<1>1. Elsewhere(g, Reset(g)) /\ Reset(g).tr = NoTransition /\ Good(Reset(g))
  BY ResetEnds DEF Ended
<1>2. Elsewhere(g, Abort(g)) /\ Abort(g).tr = NoTransition /\ Good(Abort(g))
  BY AbortEnds
<1> QED  BY <1>1, <1>2, ElsewhereSettled

LEMMA StartCrossfadeSettled ==
  ASSUME NEW g, Good(g), Settled(g), g.tr.state = "wait"
  PROVE  Settled(StartCrossfade(g))
<1> DEFINE h == StartCrossfade(g)
           k == [g.deck[g.tr.in] EXCEPT !.gated = FALSE]
<1>1. g \in Conditions /\ g.tr \in Handovers /\ g.deck \in [Decks -> DeckStates]
  BY Parts DEF Good, NoTransition
<1>2. g.tr.in \in Decks /\ g.deck[g.tr.in] \in DeckStates
  BY <1>1 DEF Handovers
<1>3. /\ h.deck = [g.deck EXCEPT ![g.tr.in] = k] /\ h.auto = g.auto /\ h.row = g.row
      /\ h.tr = [g.tr EXCEPT !.state = "crossfade", !.step = "render"]
  BY StartCrossfadeGood
<1>4. h.pool = g.pool /\ h.calls = g.calls /\ h.commits = g.commits /\ h.coord = g.coord
  BY <1>1 DEF StartCrossfade, Conditions
<1>5. h.tr.out = g.tr.out /\ h.tr.title = g.tr.title /\ h.tr.entry = g.tr.entry /\ g.tr.out \in Decks
  BY <1>1, <1>3 DEF Handovers
<1>6. /\ k.title = g.deck[g.tr.in].title /\ k.entry = g.deck[g.tr.in].entry /\ k.phase = g.deck[g.tr.in].phase
      /\ k.muted = g.deck[g.tr.in].muted /\ k.backend = g.deck[g.tr.in].backend
  BY <1>2 DEF DeckStates
<1> HIDE DEF h, k
<1>7. \A d \in Decks : h.deck[d].title = g.deck[d].title /\ h.deck[d].entry = g.deck[d].entry /\ h.deck[d].phase = g.deck[d].phase
  BY <1>1, <1>2, <1>3, <1>6
<1>8. MixesOut(h)
  BY <1>5, <1>7 DEF MixesOut, Settled
<1>9. Answers(h) = Answers(g)
  BY <1>4 DEF Answers
<1>10. Settled(h)
  BY <1>2, <1>3, <1>4, <1>6, <1>8, <1>9, DeckSettled
<1> QED  BY <1>10 DEF h

LEMMA PolledSettled ==
  ASSUME NEW g, Good(g), Settled(g), g.tr.state = "wait"
  PROVE  Settled(Polled(g))
<1>1. CASE Polled(g) = StartCrossfade(g)
  BY <1>1, StartCrossfadeSettled
<1>2. CASE Polled(g) = Abort(g)
  BY <1>2, ResetSettled
<1>3. CASE Polled(g) = [g EXCEPT !.tr.step = "poll"]
  <2> DEFINE h == [g EXCEPT !.tr.step = "poll"]
  <2>1. g \in Conditions /\ g.tr \in Handovers
    BY Parts DEF Good, NoTransition
  <2>2. Elsewhere(g, h) /\ h.tr = [g.tr EXCEPT !.step = "poll"]
    BY <2>1 DEF Elsewhere, Conditions
  <2>3. h.tr.out = g.tr.out /\ h.tr.title = g.tr.title /\ h.tr.entry = g.tr.entry
    BY <2>1, <2>2 DEF Handovers
  <2> HIDE DEF h
  <2>4. MixesOut(h)
    BY <2>2, <2>3 DEF MixesOut, Settled, Elsewhere
  <2>5. Kept(g, h) /\ Answers(h) = Answers(g)
    BY <2>2, KeptSame DEF Elsewhere
  <2>6. OneLine(h)
    BY <2>2, <2>5, SameLine DEF Settled, Elsewhere
  <2> QED  BY <1>3, <2>4, <2>5, <2>6, SettledKept DEF h
<1> QED  BY <1>1, <1>2, <1>3 DEF Polled

LEMMA BeginSettled ==
  ASSUME NEW g, Good(g), Settled(g), g.tr = NoTransition, NEW out \in Decks, g.deck[out].phase = "playing",
         g.auto.run = "running"
  PROVE  Settled(Begin(g, out))
<1> DEFINE n == NewGeneration(g)
           m == [state |-> "wait", out |-> out, in |-> Other(out), title |-> g.deck[out].title,
                 entry |-> g.deck[out].entry, step |-> "none"]
           h == [n EXCEPT !.tr = m]
<1>1. /\ n \in Conditions /\ n.ramp = NoRamp /\ n.fader = g.fader /\ Elsewhere(g, n)
  BY NewGenerationIs DEF Good
<1>2. m \in Handovers
  <2>1. g.deck[out] \in DeckStates
    BY Parts DEF Good
  <2> QED  BY <2>1, Constants DEF DeckStates, Handovers
<1>3. Begin(g, out) = Polled(h)
  BY DEF Begin, IsTransitioning, NoTransition
<1>4. m.state = "wait" /\ m.out = out /\ m.title = g.deck[out].title /\ m.entry = g.deck[out].entry
  OBVIOUS
<1> HIDE DEF n, m
<1>5. /\ h \in Conditions /\ h.tr = m /\ h.ramp = NoRamp /\ h.fader = g.fader /\ Elsewhere(g, h)
  BY <1>1, <1>2 DEF Conditions, Elsewhere
<1> HIDE DEF h
<1>6. Faded(h) /\ Opened(h)
  BY <1>4, <1>5 DEF Good, Faded, Opened, Elsewhere, NoRamp
<1>7. Good(h)
  BY <1>5, <1>6 DEF Good, Elsewhere
<1>8. Kept(g, h) /\ Answers(h) = Answers(g)
  BY <1>5, KeptSame DEF Elsewhere
<1>9. OneLine(h)
  BY <1>5, <1>8, SameLine DEF Settled, Elsewhere
<1>10. MixesOut(h)
  BY <1>4, <1>5 DEF MixesOut, Elsewhere
<1>11. Settled(h)
  BY <1>8, <1>9, <1>10, SettledKept
<1> QED  BY <1>3, <1>4, <1>5, <1>7, <1>11, PolledSettled

LEMMA StoppedSettled ==
  ASSUME NEW g, Good(g), Settled(g)
  PROVE  Settled(Stopped(g))
<1> DEFINE r == Reset(g)
           a == [r.auto EXCEPT !.run = "stopped", !.held = {}]
           h == [r EXCEPT !.auto = a]
<1>1. Good(r) /\ Settled(r) /\ r \in Conditions /\ r.auto \in Autos
  BY ResetSettled, Parts DEF Good
<1>2. Stopped(g) = h
  BY <1>1 DEF Stopped, Conditions
<1> HIDE DEF r
<1>3. a.busy = r.auto.busy
  BY <1>1 DEF Autos
<1> HIDE DEF a
<1>4. h.deck = r.deck /\ h.tr = r.tr /\ h.row = r.row /\ h.coord = r.coord /\ h.commits = r.commits /\ h.pool = r.pool
      /\ h.calls = r.calls /\ h.auto = a
  BY <1>1 DEF Conditions
<1> HIDE DEF h
<1>5. Settled(h)
  BY <1>1, <1>3, <1>4, SettledBeside
<1> QED  BY <1>2, <1>5

LEMMA PlacedSettled ==
  ASSUME NEW g, Good(g), Settled(g), NEW d \in Decks, NEW b \in BOOLEAN, NEW x, NEW h, Placing(g, d, b, x, h)
  PROVE  /\ Settled(h) /\ Good(h) /\ h.tr = NoTransition /\ CommitJobs(h) = CommitJobs(g)
         /\ h.deck[d].title = g.deck[d].title /\ h.deck[d].phase = g.deck[d].phase
         /\ \A y \in Decks : y # d => h.deck[y] = g.deck[y]
<1> DEFINE k == [g.deck[d] EXCEPT !.gated = b]
<1>1. g.deck \in [Decks -> DeckStates] /\ g.deck[d] \in DeckStates
  BY Parts DEF Good
<1>2. /\ k.title = g.deck[d].title /\ k.entry = g.deck[d].entry /\ k.phase = g.deck[d].phase
      /\ k.muted = g.deck[d].muted /\ k.backend = g.deck[d].backend
  BY <1>1 DEF DeckStates
<1>3. /\ Good(h) /\ h.tr = NoTransition /\ h.deck = [g.deck EXCEPT ![d] = k] /\ h.auto = g.auto /\ h.row = g.row
      /\ h.pool = g.pool /\ h.calls = g.calls /\ h.commits = g.commits /\ h.coord = g.coord
  BY DEF Placing
<1> HIDE DEF k
<1>4. Answers(h) = Answers(g) /\ CommitJobs(h) = CommitJobs(g)
  BY <1>3 DEF Answers, CommitJobs
<1>5. Settled(h)
  BY <1>2, <1>3, <1>4, IdleMixes, DeckSettled
<1> QED  BY <1>1, <1>2, <1>3, <1>4, <1>5

LEMMA StartNextSettled ==
  ASSUME NEW g, Good(g), Settled(g), g.tr = NoTransition
  PROVE  Settled(StartNext(g))
<1> DEFINE ready == {x \in Decks : DeckIsReady(g, x)}
           d == FirstOf(ready)
           p == Placed(g, d, FALSE, Side(d))
<1>1. CASE ready # {}
  <2>1. d \in Decks /\ DeckIsReady(g, d)
    BY <1>1, FirstIs
  <2> HIDE DEF d
  <2>2. g \in Conditions /\ g.deck \in [Decks -> DeckStates] /\ Side(d) \in 0..3
    BY <2>1, Parts, Constants DEF Good
  <2>3. [g EXCEPT !.deck[d].gated = FALSE, !.fader = Side(d)] = p
    BY <2>2 DEF Placed, Conditions
  <2>4. Placing(g, d, FALSE, Side(d), p)
    BY <2>1, <2>2, PlacedGood, Zenon
  <2> HIDE DEF p
  <2>5. /\ Settled(p) /\ Good(p) /\ p.tr = NoTransition /\ CommitJobs(p) = CommitJobs(g)
        /\ p.deck[d].title = g.deck[d].title
    <3> DEFINE b == FALSE
    <3>1. b \in BOOLEAN /\ Placing(g, d, b, Side(d), p)
      BY <2>4
    <3> HIDE DEF b
    <3> QED  BY <2>1, <3>1, PlacedSettled
  <2>6. p.deck[d].title # Nothing /\ \A j \in CommitJobs(p) : j.title # p.deck[d].title
    BY <2>1, <2>5, ReadyIsCommitted
  <2>7. Settled(StartDeck(p, d))
    BY <2>1, <2>5, <2>6, StartDeckSettled
  <2> QED  BY <1>1, <2>3, <2>7 DEF StartNext, d
<1>2. CASE ready = {}
  BY <1>2, StoppedSettled DEF StartNext
<1> QED  BY <1>1, <1>2

LEMMA StartHandoverSettled ==
  ASSUME NEW g, Good(g), Settled(g), g.tr = NoTransition, NEW out \in Decks, g.deck[out].phase = "playing",
         DeckIsReady(g, Other(out)), g.auto.run = "running"
  PROVE  Settled(StartHandover(g, out))
<1> DEFINE in == Other(out)
           p == Placed(g, in, TRUE, Side(out))
           s == StartDeck(p, in)
<1>1. g \in Conditions /\ g.deck \in [Decks -> DeckStates] /\ in \in Decks /\ in # out /\ Side(out) \in 0..3
  BY Parts, Constants DEF Good
<1>2. [g EXCEPT !.fader = Side(out), !.deck[in].gated = TRUE] = p
  BY <1>1 DEF Placed, Conditions
<1>3. StartHandover(g, out) = Begin(s, out)
  BY <1>2 DEF StartHandover
<1> HIDE DEF in
<1>4. Placing(g, in, TRUE, Side(out), p)
  BY <1>1, PlacedGood, Zenon
<1>5. /\ Settled(p) /\ Good(p) /\ p.tr = NoTransition /\ CommitJobs(p) = CommitJobs(g)
      /\ p.deck[in].title = g.deck[in].title /\ p.deck[out] = g.deck[out] /\ p.auto = g.auto
  <2>1. p.auto = g.auto
    BY <1>4 DEF Placing
  <2> DEFINE b == TRUE
  <2>2. b \in BOOLEAN /\ Placing(g, in, b, Side(out), p)
    BY <1>4
  <2> HIDE DEF p, b
  <2> QED  BY <1>1, <2>1, <2>2, PlacedSettled
<1> HIDE DEF p
<1>6. p.deck[in].title # Nothing /\ \A j \in CommitJobs(p) : j.title # p.deck[in].title
  BY <1>1, <1>5, ReadyIsCommitted DEF in
<1>7. Settled(s) /\ Good(s) /\ s.tr = NoTransition
  BY <1>1, <1>5, <1>6, StartDeckSettled
<1>8. StartDoes(p, in, NewPlayback(p, p.deck[in].entry), s)
  BY <1>1, <1>5, StartDeckDoes
<1>9. s.deck[out] = g.deck[out] /\ s.auto = g.auto
  <2>1. p.deck \in [Decks -> DeckStates]
    BY <1>5, Parts DEF Good
  <2> HIDE DEF s
  <2> QED  BY <1>1, <1>5, <1>8, <2>1 DEF StartDoes
<1> HIDE DEF s
<1> QED  BY <1>3, <1>7, <1>9, BeginSettled

LEMMA PlaybackSettled ==
  ASSUME NEW g, Good(g), Settled(g), NEW due
  PROVE  Settled(Playback(g, due))
<1> DEFINE playing == Playing(g)
           out == FirstOf(playing)
<1>1. CASE g.auto.run # "running" \/ IsTransitioning(g) \/ g.auto.busy
  BY <1>1 DEF Playback
<1>2. CASE g.auto.run = "running" /\ ~IsTransitioning(g) /\ ~g.auto.busy
  <2>1. g.tr = NoTransition /\ playing \in SUBSET Decks
    BY <1>2, Parts DEF Good, IsTransitioning, Handovers, NoTransition, Playing
  <2>2. CASE playing = {}
    BY <1>2, <2>1, <2>2, StartNextSettled DEF Playback
  <2>3. CASE playing = Decks
    <3> DEFINE d == IF g.fader <= 1 THEN "A" ELSE "B"
    <3>1. d \in Decks /\ g.deck[d].phase = "playing" /\ Decks # {}
      BY <2>3, Constants DEF Playing
    <3>2. Playback(g, due) = Begin(g, d)
      BY <1>2, <2>3, <3>1 DEF Playback
    <3> HIDE DEF d
    <3> QED  BY <1>2, <2>1, <3>1, <3>2, BeginSettled
  <2>4. CASE playing # {} /\ playing # Decks
    <3>1. out \in Decks /\ g.deck[out].phase = "playing"
      BY <2>1, <2>4, FirstIs DEF Playing
    <3>2. Playback(g, due) = IF due /\ g.deck[out].backend \in {"playing", "ended"} /\ DeckIsReady(g, Other(out))
                             THEN StartHandover(g, out) ELSE g
      BY <1>2, <2>4 DEF Playback
    <3> HIDE DEF out
    <3> QED  BY <1>2, <2>1, <3>1, <3>2, StartHandoverSettled
  <2> QED  BY <2>2, <2>3, <2>4
<1> QED  BY <1>1, <1>2
----------------------------------------------------------------------------
(* Ends that are seen and handed over to the persistence executor.         *)

LEMMA MixesDeck ==
  ASSUME NEW g, NEW h, Good(g), MixesOut(g), h.tr = g.tr, NEW d \in Decks, NEW k, h.deck = [g.deck EXCEPT ![d] = k],
         k.title = g.deck[d].title, k.entry = g.deck[d].entry,
         g.deck[d].phase \in {"playing", "paused", "finished"} => k.phase \in {"playing", "paused", "finished"}
  PROVE  MixesOut(h)
<1>1. g.tr.state # "idle" => g.tr.out \in Decks
  BY IdleOrNot
<1>2. g.deck \in [Decks -> DeckStates]
  BY Parts DEF Good
<1>3. h.deck[d] = k /\ \A x \in Decks : x # d => h.deck[x] = g.deck[x]
  BY <1>2
<1> QED  BY <1>1, <1>3 DEF MixesOut

LEMMA RedeckedSettled ==
  ASSUME NEW g, NEW h, Good(g), Settled(g), NEW d \in Decks, NEW k, Redecked(g, d, k, h),
         k.title \in {Nothing, g.deck[d].title},
         k.title # Nothing =>
           /\ k.entry = g.deck[d].entry /\ (g.deck[d].muted => k.muted)
           /\ k.phase \in {"playing", "paused", "finished"} => g.deck[d].phase \in {"playing", "paused", "finished"}
           /\ g.deck[d].phase = "loaded" => k.phase = "loaded" \/ CommitJobs(g) = {},
         g.deck[d].title = Nothing /\ g.deck[d].backend = "silent" => k.backend = "silent",
         MixesOut(h)
  PROVE  Settled(h) /\ Good(h)
<1>1. /\ h.deck = [g.deck EXCEPT ![d] = k] /\ h.row = g.row /\ h.coord = g.coord /\ h.commits = g.commits
      /\ h.pool = g.pool /\ h.auto.busy = g.auto.busy /\ Answers(h) = Answers(g) /\ Good(h)
  BY DEF Redecked, Answers
<1> QED  BY <1>1, DeckSettled

\* A deck is emptied while nothing is handed over.
LEMMA EjectSettled ==
  ASSUME NEW g, Good(g), Settled(g), g.tr = NoTransition, NEW d \in Decks
  PROVE  /\ Settled(Eject(g, d)) /\ Good(Eject(g, d)) /\ Eject(g, d).tr = NoTransition
         /\ Eject(g, d).row = g.row /\ Eject(g, d).auto = g.auto /\ Eject(g, d).deck[d].title = Nothing
         /\ Eject(g, d).pool = g.pool /\ Eject(g, d).calls = g.calls
<1> DEFINE k == [EmptyDeck(g.deck[d]) EXCEPT !.backend = "silent"]
           h == Eject(g, d)
<1>1. Redecked(g, d, k, h)
  BY DetachIs
<1>2. g.deck \in [Decks -> DeckStates] /\ g.deck[d] \in DeckStates
  BY DeckValue
<1>3. k.title = Nothing /\ k.backend = "silent"
  BY <1>2, Emptied
<1> HIDE DEF k, h
<1>4. h.tr = NoTransition /\ h.row = g.row /\ h.auto = g.auto /\ h.pool = g.pool /\ h.calls = g.calls
  BY <1>1 DEF Redecked, Aside
<1>5. h.deck[d].title = Nothing
  BY <1>1, <1>2, <1>3 DEF Redecked
<1>6. Settled(h) /\ Good(h)
  BY <1>1, <1>3, <1>4, IdleMixes, RedeckedSettled
<1> QED  BY <1>4, <1>5, <1>6 DEF h

LEMMA ObserveSettled ==
  ASSUME NEW g, Good(g), Settled(g), NEW d \in Decks
  PROVE  Settled(Observe(g, d)) /\ Good(Observe(g, d))
<1> DEFINE k == [g.deck[d] EXCEPT !.phase = "finished"]
           h == Observe(g, d)
<1>1. Good(h)
  BY ObserveAside
<1>2. CASE g.deck[d].phase # "playing" \/ g.deck[d].backend # "ended"
  BY <1>2 DEF Observe
<1>3. CASE g.deck[d].phase = "playing" /\ g.deck[d].backend = "ended"
  <2>1. g \in Conditions /\ g.deck[d] \in DeckStates
    BY DeckValue
  <2>2. /\ h.deck = [g.deck EXCEPT ![d] = k] /\ h.calls = g.calls \cup {Call("finish", Nothing, d)} /\ h.row = g.row
        /\ h.auto = g.auto /\ h.pool = g.pool /\ h.commits = g.commits /\ h.coord = g.coord /\ h.tr = g.tr
    BY <1>3, <2>1 DEF Observe, Conditions
  <2>3. /\ k.title = g.deck[d].title /\ k.entry = g.deck[d].entry /\ k.muted = g.deck[d].muted
        /\ k.backend = g.deck[d].backend /\ k.phase = "finished"
    BY <2>1 DEF DeckStates
  <2> HIDE DEF h, k
  <2>4. Answers(h) = Answers(g)
    BY <2>2 DEF Answers, Call
  <2>5. MixesOut(h)
    BY <2>2, <2>3, MixesDeck DEF Settled
  <2>6. Settled(h)
    BY <1>3, <2>2, <2>3, <2>4, <2>5, DeckSettled
  <2> QED  BY <1>1, <2>6 DEF h
<1> QED  BY <1>1, <1>2, <1>3

\* The end of a title that nothing mixed out is of no concern.
LEMMA PersistSettled ==
  ASSUME NEW g, Good(g), Settled(g), NEW t \in Nothing..N, NEW d \in Decks
  PROVE  /\ Settled(Persist(g, t, d, FALSE)) /\ Good(Persist(g, t, d, FALSE))
         /\ Persist(g, t, d, FALSE).tr = g.tr /\ Persist(g, t, d, FALSE).auto = g.auto
<1> DEFINE b == FALSE
           e == [title |-> t, deck |-> d, live |-> TRUE, coord |-> b]
           h == Persist(g, t, d, b)
<1>1. ~b /\ b \in BOOLEAN /\ ~e.coord
  OBVIOUS
<1> HIDE DEF b
<1>2. /\ Good(h) /\ h.deck = g.deck /\ h.tr = g.tr /\ h.auto = g.auto /\ h.pool = g.pool /\ h.calls = g.calls /\ h.row = g.row
      /\ h.coord = g.coord
  BY <1>1, PersistAside DEF Aside
<1>3. MixedEnds(h) \subseteq MixedEnds(g)
  <2>1. CASE t = Nothing
    BY <2>1 DEF Persist
  <2>2. CASE t # Nothing
    <3>1. g \in Conditions /\ g.commits \in Seq(Ends)
      BY Parts DEF Good
    <3>2. h.commits = Append(g.commits, e)
      BY <2>2, <3>1 DEF Persist, Conditions
    <3> HIDE DEF h, e
    <3>3. \A i \in DOMAIN h.commits : h.commits[i] = e \/ (i \in DOMAIN g.commits /\ h.commits[i] = g.commits[i])
      BY <3>1, <3>2
    <3> QED  BY <1>1, <3>3 DEF MixedEnds, e
  <2> QED  BY <2>1, <2>2
<1>4. h = Persist(g, t, d, FALSE)
  BY DEF b
<1> HIDE DEF h
<1>5. CommitJobs(h) = CommitJobs(g) /\ Cleanups(h) = Cleanups(g) /\ Adoptions(h) = Adoptions(g) /\ Answers(h) = Answers(g)
  BY <1>2 DEF CommitJobs, Cleanups, Adoptions, Answers
<1>6. \A x \in Decks : KeptDeck(g, h, x)
  BY <1>2 DEF KeptDeck
<1>7. \A x \in Titles : KeptRow(g, h, x)
  BY <1>2 DEF KeptRow
<1>8. Kept(g, h)
  BY <1>2, <1>3, <1>5, <1>6, <1>7 DEF Kept
<1>9. OneLine(h) /\ MixesOut(h)
  BY <1>2, <1>5, SameLine, MixesBeside DEF Settled
<1>10. Settled(h)
  BY <1>8, <1>9, SettledKept
<1> QED  BY <1>2, <1>4, <1>10

LEMMA FinishDeckSettled ==
  ASSUME NEW g, Good(g), Settled(g), NEW d \in Decks
  PROVE  Settled(FinishDeck(g, d)) /\ Good(FinishDeck(g, d))
<1> DEFINE p == Persist(g, g.deck[d].entry, d, FALSE)
           e == Eject(p, d)
           h == [e EXCEPT !.calls = @ \cup {Call("refill", Nothing, d)}]
<1>1. g.deck[d].entry \in Nothing..N
  BY Parts DEF Good, DeckStates
<1>2. Settled(p) /\ Good(p) /\ p.tr = g.tr
  BY <1>1, PersistSettled
<1>3. FinishDeck(g, d) = IF g.auto.run = "running" /\ ~IsTransitioning(g) THEN h ELSE p
  BY DEF FinishDeck
<1> HIDE DEF p
<1>4. ASSUME ~IsTransitioning(g) PROVE Settled(h)
  <2>1. g.tr = NoTransition
    BY <1>4, IdleOrNot DEF IsTransitioning
  <2>2. Settled(e) /\ Good(e) /\ e.tr = NoTransition /\ e \in Conditions
    BY <1>2, <2>1, EjectSettled DEF Good
  <2> HIDE DEF e
  <2>3. /\ h.deck = e.deck /\ h.row = e.row /\ h.coord = e.coord /\ h.commits = e.commits /\ h.pool = e.pool
        /\ h.auto = e.auto /\ h.tr = e.tr /\ h.calls = e.calls \cup {Call("refill", Nothing, d)}
    BY <2>2 DEF Conditions
  <2> HIDE DEF h
  <2>4. Answers(h) = Answers(e)
    BY <2>3 DEF Answers, Call
  <2> QED  BY <2>2, <2>3, <2>4, CallsSettled
<1>5. Good(FinishDeck(g, d))
  BY FinishDeckAside
<1> HIDE DEF h
<1> QED  BY <1>2, <1>3, <1>4, <1>5

LEMMA SettledDone ==
  ASSUME NEW h, Done(h), Settled(h), Good(h)
  PROVE  Settled(G')
BY DoneIs DEF Good

LEMMA StatusTickSettled ==
  ASSUME Good(G), Settled(G), StatusTick
  PROVE  Settled(G')
<1> DEFINE s == Observe(Observe(G, "A"), "B")
<1>1. PICK due \in BOOLEAN : Done(Playback(AutoLoad(s), due))
  BY DEF StatusTick
<1>2. Settled(s) /\ Good(s)
  BY ObserveSettled, Constants
<1> HIDE DEF s
<1>3. Settled(AutoLoad(s)) /\ Good(AutoLoad(s))
  BY <1>2, AutoLoadSettled
<1>4. Settled(Playback(AutoLoad(s), due)) /\ Good(Playback(AutoLoad(s), due))
  BY <1>3, PlaybackSettled, PlaybackGood
<1> QED  BY <1>1, <1>4, SettledDone
----------------------------------------------------------------------------
(* Pauses and interventions of the operator.                               *)

LEMMA PauseKept ==
  ASSUME NEW g, Good(g), NEW audio \in BOOLEAN
  PROVE  /\ Kept(g, Pause(g, audio)) /\ CommitJobs(Pause(g, audio)) = {} /\ Adoptions(Pause(g, audio)) = {}
         /\ \A d \in Decks : Pause(g, audio).deck[d] \in {g.deck[d], Paused(g.deck[d])}
<1> DEFINE o == OutdatePreload(g)
           a == [o.auto EXCEPT !.run = "paused"]
           x == [o EXCEPT !.auto = a]
           y == Abort(x)
           held == IF audio THEN Playing(g) ELSE {}
           b == [y.auto EXCEPT !.held = IF audio THEN held ELSE y.auto.held]
           e == [d \in Decks |-> IF d \in held THEN Paused(y.deck[d]) ELSE y.deck[d]]
           h == [[y EXCEPT !.auto = b] EXCEPT !.deck = e]
<1>1. /\ Kept(g, o) /\ CommitJobs(o) = {} /\ Adoptions(o) = {}
  BY OutdateKept
<1>2. Good(o) /\ o \in Conditions /\ o.auto \in Autos /\ o.deck = g.deck
  <2>1. Good(o) /\ o \in Conditions /\ o.deck = g.deck
    BY OutdateAside, AsideGood DEF Aside
  <2> QED  BY <2>1, Parts
<1> HIDE DEF o
<1>3. a \in Autos
  BY <1>2 DEF Autos
<1>4. [o EXCEPT !.auto.run = "paused"] = x
  BY <1>2 DEF Conditions
<1> HIDE DEF a
<1>5. /\ x \in Conditions /\ x.deck = o.deck /\ x.row = o.row /\ x.fader = o.fader /\ x.commits = o.commits
      /\ x.coord = o.coord /\ x.tr = o.tr /\ x.ramp = o.ramp /\ x.late = o.late /\ x.pool = o.pool
      /\ x.calls = o.calls
  BY <1>2, <1>3 DEF Conditions
<1> HIDE DEF x
<1>6. Faded(x)
  BY <1>2, <1>5 DEF Good, Faded
<1>7. y \in Conditions /\ Elsewhere(x, y)
  BY <1>5, <1>6, AbortIs
<1>11. Pause(g, audio) = h
  BY <1>4, <1>7 DEF Pause, Conditions, o, y, Paused
<1> HIDE DEF y
<1>8. y.deck = g.deck
  BY <1>2, <1>5, <1>7 DEF Elsewhere
<1>9. held \in SUBSET Decks /\ \A d \in held : g.deck[d].phase = "playing"
  BY DEF Playing
<1> HIDE DEF held, b
<1>10. \A d \in Decks : e[d] = g.deck[d] \/ (g.deck[d].phase = "playing" /\ e[d] = Paused(g.deck[d]))
  BY <1>8, <1>9
<1> HIDE DEF e
<1>12. h.deck = e /\ h.row = o.row /\ h.commits = o.commits /\ h.coord = o.coord /\ h.pool = o.pool /\ h.calls = o.calls
  BY <1>5, <1>7 DEF Elsewhere, Conditions
<1> HIDE DEF h
<1>13. CommitJobs(h) = CommitJobs(o) /\ Cleanups(h) = Cleanups(o) /\ Adoptions(h) = Adoptions(o) /\ MixedEnds(h) = MixedEnds(o)
  BY <1>12 DEF CommitJobs, Cleanups, Adoptions, MixedEnds
<1>14. ASSUME NEW d \in Decks PROVE KeptDeck(o, h, d)
  <2>1. g.deck[d] \in DeckStates
    BY DeckValue
  <2>2. CASE e[d] = g.deck[d]
    BY <1>2, <1>12, <2>2 DEF KeptDeck
  <2>3. CASE g.deck[d].phase = "playing" /\ e[d] = Paused(g.deck[d])
    <3>1. /\ Paused(g.deck[d]).title = g.deck[d].title /\ Paused(g.deck[d]).entry = g.deck[d].entry
          /\ Paused(g.deck[d]).muted = g.deck[d].muted /\ Paused(g.deck[d]).phase = "paused"
      BY <2>1 DEF Paused, DeckStates
    <3>2. g.deck[d].title # Nothing
      BY <2>1, <2>3 DEF DeckStates
    <3> QED  BY <1>2, <1>12, <2>3, <3>1, <3>2 DEF KeptDeck
  <2> QED  BY <1>10, <2>2, <2>3
<1>15. \A t \in Titles : KeptRow(o, h, t)
  BY <1>12 DEF KeptRow
<1>16. Kept(o, h)
  BY <1>12, <1>13, <1>14, <1>15 DEF Kept
<1>17. Kept(g, h)
  BY <1>1, <1>16, KeptAgain
<1>18. \A d \in Decks : h.deck[d] \in {g.deck[d], Paused(g.deck[d])}
  BY <1>10, <1>12
<1> QED  BY <1>1, <1>11, <1>13, <1>17, <1>18

LEMMA PauseSettled ==
  ASSUME NEW g, Good(g), NEW audio \in BOOLEAN, Ledger(g)
  PROVE  Settled(Pause(g, audio)) /\ Good(Pause(g, audio)) /\ Pause(g, audio).tr = NoTransition
<1>1. Pausing(g, audio, Pause(g, audio))
  BY PauseIs
<1>2. OneLine(Pause(g, audio)) /\ Good(Pause(g, audio)) /\ Pause(g, audio).tr = NoTransition
  BY <1>1, NoLine DEF Pausing
<1> QED  BY <1>2, PauseKept, KeptLedger, IdleMixes DEF Settled

LEMMA OverrideSettled ==
  ASSUME NEW g, Good(g), Settled(g)
  PROVE  /\ Settled(Override(g)) /\ Good(Override(g)) /\ Override(g).tr = NoTransition
         /\ Override(g).deck = g.deck /\ Override(g).row = g.row
         /\ CommitJobs(Override(g)) = {} /\ Adoptions(Override(g)) = {}
<1> DEFINE o == OutdatePreload(g)
           b == Abort(o)
           a == [b.auto EXCEPT !.run = "stopped"]
           h == [b EXCEPT !.auto = a]
<1>1. Settled(o) /\ Good(o) /\ CommitJobs(o) = {} /\ Adoptions(o) = {}
  BY OutdateSettled, OutdateKept, OutdateAside, AsideGood
<1>2. Override(g) = IF g.auto.run = "running" \/ IsTransitioning(g) THEN [b EXCEPT !.auto.run = "stopped"] ELSE o
  BY DEF Override
<1> HIDE DEF o
<1>3. Settled(b) /\ Good(b) /\ b.tr = NoTransition /\ Elsewhere(o, b) /\ b \in Conditions /\ b.auto \in Autos
  BY <1>1, ResetSettled, Parts DEF Good
<1>4. [b EXCEPT !.auto.run = "stopped"] = h
  BY <1>3 DEF Conditions
<1>5. CommitJobs(b) = {} /\ Adoptions(b) = {}
  BY <1>1, <1>3 DEF Elsewhere, CommitJobs, Adoptions
<1> HIDE DEF b
<1>6. a.busy = b.auto.busy
  BY <1>3 DEF Autos
<1> HIDE DEF a
<1>7. h.deck = b.deck /\ h.tr = b.tr /\ h.row = b.row /\ h.coord = b.coord /\ h.commits = b.commits /\ h.pool = b.pool
      /\ h.calls = b.calls /\ h.auto = a
  BY <1>3 DEF Conditions
<1> HIDE DEF h
<1>8. Settled(h) /\ CommitJobs(h) = {} /\ Adoptions(h) = {}
  <2>1. CommitJobs(h) = CommitJobs(b) /\ Adoptions(h) = Adoptions(b)
    BY <1>7 DEF CommitJobs, Adoptions
  <2> QED  BY <1>3, <1>5, <1>6, <1>7, <2>1, SettledBeside
<1> QED  BY <1>1, <1>2, <1>4, <1>8, OverrideGood

\* A row that ends.
LEMMA RowSettled ==
  ASSUME NEW g, NEW h, Good(g), Settled(g), h.deck = g.deck, h.coord = g.coord, h.commits = g.commits, h.pool = g.pool,
         h.calls = g.calls, h.auto.busy = g.auto.busy, h.tr = g.tr, \A t \in Titles : KeptRow(g, h, t)
  PROVE  Settled(h)
<1>1. CommitJobs(h) = CommitJobs(g) /\ Cleanups(h) = Cleanups(g) /\ Adoptions(h) = Adoptions(g) /\ MixedEnds(h) = MixedEnds(g)
      /\ Answers(h) = Answers(g)
  BY DEF CommitJobs, Cleanups, Adoptions, MixedEnds, Answers
<1>2. \A d \in Decks : KeptDeck(g, h, d)
  BY DEF KeptDeck
<1>3. Kept(g, h)
  BY <1>1, <1>2 DEF Kept
<1>4. OneLine(h) /\ MixesOut(h)
  BY <1>1, SameLine, MixesBeside DEF Settled
<1> QED  BY <1>3, <1>4, SettledKept

\* A deck is put to another phase that is not a preload's, while nothing is handed over.
LEMMA PhaseSettled ==
  ASSUME NEW g, Good(g), Settled(g), g.tr = NoTransition, NEW d \in Decks, g.deck[d].phase # "empty",
         NEW p \in Phases \ {"empty"}, NEW b \in Backends, CommitJobs(g) = {} \/ g.deck[d].phase # "loaded",
         p \in {"playing", "paused", "finished"} => g.deck[d].phase \in {"playing", "paused", "finished"}
  PROVE  LET h == [g EXCEPT !.deck[d].phase = p, !.deck[d].backend = b]
         IN  Settled(h) /\ Good(h) /\ h.tr = NoTransition /\ h.row = g.row
<1> DEFINE k == [g.deck[d] EXCEPT !.phase = p, !.backend = b]
           h == [g EXCEPT !.deck[d].phase = p, !.deck[d].backend = b]
<1>1. Redecked(g, d, k, h)
  BY Zenon, PhaseGood
<1>2. g.deck[d] \in DeckStates
  BY DeckValue
<1>3. /\ k.title = g.deck[d].title /\ k.entry = g.deck[d].entry /\ k.muted = g.deck[d].muted
      /\ k.phase = p /\ k.backend = b /\ k.title # Nothing
  BY <1>2 DEF DeckStates
<1> HIDE DEF k, h
<1>4. h.tr = NoTransition /\ h.row = g.row
  BY <1>1 DEF Redecked, Aside
<1>5. Settled(h) /\ Good(h)
  BY <1>1, <1>3, <1>4, IdleMixes, RedeckedSettled
<1> QED  BY <1>4, <1>5 DEF h

LEMMA UngatedSettled ==
  ASSUME NEW g, Good(g), Settled(g), g.tr = NoTransition, NEW d \in Decks
  PROVE  LET h == [g EXCEPT !.deck[d].gated = FALSE]
         IN  /\ Settled(h) /\ Good(h) /\ h.tr = NoTransition /\ h.row = g.row /\ CommitJobs(h) = CommitJobs(g)
             /\ h.deck[d].title = g.deck[d].title /\ h.deck[d].phase = g.deck[d].phase /\ h.auto = g.auto
<1> DEFINE k == [g.deck[d] EXCEPT !.gated = FALSE]
           h == [g EXCEPT !.deck[d].gated = FALSE]
<1>1. Redecked(g, d, k, h)
  BY UngateGood
<1>2. g.deck[d] \in DeckStates /\ g.deck \in [Decks -> DeckStates]
  BY DeckValue
<1>3. /\ k.title = g.deck[d].title /\ k.entry = g.deck[d].entry /\ k.muted = g.deck[d].muted
      /\ k.phase = g.deck[d].phase /\ k.backend = g.deck[d].backend
  BY <1>2 DEF DeckStates
<1> HIDE DEF k, h
<1>4. h.tr = NoTransition /\ h.row = g.row /\ h.auto = g.auto /\ CommitJobs(h) = CommitJobs(g)
  BY <1>1 DEF Redecked, Aside, CommitJobs
<1>5. h.deck[d] = k
  BY <1>1, <1>2 DEF Redecked
<1>6. Settled(h) /\ Good(h)
  BY <1>1, <1>3, <1>4, IdleMixes, RedeckedSettled
<1> QED  BY <1>3, <1>4, <1>5, <1>6 DEF h
----------------------------------------------------------------------------
(* The operator's commands.                                                *)

LEMMA StartAutomaticSettled ==
  ASSUME NEW g, Good(g), Settled(g), g.tr = NoTransition, NEW due
  PROVE  Settled(StartAutomatic(g, due))
<1> DEFINE resumed == IF g.auto.run = "paused" THEN {d \in g.auto.held : g.deck[d].phase = "paused"} ELSE {}
           e == [d \in Decks |-> IF d \in resumed
                                 THEN [g.deck[d] EXCEPT !.phase = "playing", !.backend = "starting"] ELSE g.deck[d]]
           a == [g.auto EXCEPT !.held = IF g.auto.run = "paused" THEN {} ELSE g.auto.held,
                               !.run = "running", !.suppressed = {}]
           x == [[g EXCEPT !.deck = e] EXCEPT !.auto = a]
<1>1. g \in Conditions /\ g.deck \in [Decks -> DeckStates] /\ g.auto \in Autos
  BY Parts DEF Good
<1>2. ASSUME NEW d \in Decks
      PROVE  /\ e[d] \in DeckStates /\ e[d].muted = g.deck[d].muted /\ e[d].title = g.deck[d].title
             /\ e[d].entry = g.deck[d].entry
             /\ e[d] = g.deck[d] \/ (g.deck[d].phase = "paused" /\ g.deck[d].title # Nothing)
  <2>1. g.deck[d] \in DeckStates
    BY <1>1
  <2>2. CASE d \in resumed
    <3> DEFINE p == [g.deck[d] EXCEPT !.phase = "playing", !.backend = "starting"]
    <3>1. p \in DeckStates /\ p.muted = g.deck[d].muted
      BY <2>1, <2>2, PlayingDeck
    <3>2. p.title = g.deck[d].title /\ p.entry = g.deck[d].entry /\ g.deck[d].title # Nothing
      BY <2>1, <2>2 DEF DeckStates
    <3>3. e[d] = p /\ g.deck[d].phase = "paused"
      BY <2>2
    <3> QED  BY <3>1, <3>2, <3>3
  <2>3. CASE d \notin resumed
    BY <2>1, <2>3
  <2> QED  BY <2>2, <2>3
<1>3. a \in Autos /\ a.gate = g.auto.gate /\ a.busy = g.auto.busy
  BY <1>1 DEF Autos
<1>4. StartAutomatic(g, due) \in {g, Playback(AutoLoad(x), due)}
  BY <1>1 DEF StartAutomatic, Conditions
<1>5. g.auto.gate => StartAutomatic(g, due) = g
  BY DEF StartAutomatic
<1>6. e \in [Decks -> DeckStates]
  BY Zenon, <1>2
<1> HIDE DEF e, a
<1>7. /\ x \in Conditions /\ x.tr = NoTransition /\ x.ramp = g.ramp /\ x.pool = g.pool /\ x.deck = e /\ x.auto = a
      /\ x.row = g.row /\ x.coord = g.coord /\ x.commits = g.commits /\ x.calls = g.calls
  BY <1>1, <1>3, <1>6 DEF Conditions
<1> HIDE DEF x
<1>8. ~g.auto.gate => Good(x)
  BY <1>2, <1>7, IdleGood DEF Good, Faded, Opened, NoTransition
<1>9. /\ CommitJobs(x) = CommitJobs(g) /\ Cleanups(x) = Cleanups(g) /\ Adoptions(x) = Adoptions(g)
      /\ MixedEnds(x) = MixedEnds(g) /\ Answers(x) = Answers(g)
  BY <1>7 DEF CommitJobs, Cleanups, Adoptions, MixedEnds, Answers
<1>10. \A d \in Decks : KeptDeck(g, x, d)
  BY <1>2, <1>7 DEF KeptDeck
<1>11. \A t \in Titles : KeptRow(g, x, t)
  BY <1>7 DEF KeptRow
<1>12. Kept(g, x)
  BY <1>7, <1>9, <1>10, <1>11 DEF Kept
<1>13. OneLine(x)
  BY <1>3, <1>7, <1>9, SameLine DEF Settled
<1>14. Settled(x)
  BY <1>7, <1>12, <1>13, IdleMixes, SettledKept
<1>15. ~g.auto.gate => Settled(Playback(AutoLoad(x), due))
  BY <1>8, <1>14, AutoLoadSettled, PlaybackSettled
<1> QED  BY <1>4, <1>5, <1>15

LEMMA FinishedSettled ==
  ASSUME NEW g, Good(g), Settled(g), NEW t \in Nothing..N, NEW status \in {"played", "skipped"}
  PROVE  Settled(Finished(g, t, status)) /\ Good(Finished(g, t, status))
<1> DEFINE s == [status |-> status, deck |-> IF status = "skipped" THEN NoDeck ELSE g.row[t].deck]
           r == [g.row EXCEPT ![t] = s]
           h == [g EXCEPT !.row = r]
<1>1. g \in Conditions /\ g.row \in [Titles -> Assignments]
  BY Parts DEF Good
<1>2. Finished(g, t, status) = IF t = Nothing \/ g.row[t].status # "playing" THEN g ELSE h
  BY <1>1 DEF Finished, Conditions
<1>3. s.status \in {"skipped", "played", "failed"} /\ s.deck \in {NoDeck, g.row[t].deck}
  OBVIOUS
<1> HIDE DEF s
<1>4. \A x \in Titles : r[x] = g.row[x] \/ (x = t /\ r[x] = s)
  BY <1>1
<1> HIDE DEF r
<1>5. /\ h.deck = g.deck /\ h.row = r /\ h.coord = g.coord /\ h.commits = g.commits /\ h.pool = g.pool /\ h.calls = g.calls
      /\ h.auto = g.auto /\ h.tr = g.tr
  BY <1>1 DEF Conditions
<1> HIDE DEF h
<1>6. \A x \in Titles : KeptRow(g, h, x)
  BY <1>3, <1>4, <1>5 DEF KeptRow
<1>7. Settled(h)
  BY <1>5, <1>6, RowSettled
<1> QED  BY <1>2, <1>7, FinishedGood

LEMMA ManualStopSettled ==
  ASSUME NEW g, Good(g), Settled(g), NEW d \in Decks, g.deck[d].title # Nothing
  PROVE  Settled(ManualStop(g, d))
<1> DEFINE o == Override(g)
           x == [o EXCEPT !.deck[d].phase = "stopped", !.deck[d].backend = "silent"]
           p == "stopped"
           b == "silent"
<1>1. g.deck[d] \in DeckStates
  BY DeckValue
<1>2. g.deck[d].phase # "empty" /\ g.deck[d].entry \in Nothing..N
  BY <1>1 DEF DeckStates
<1>3. Settled(o) /\ Good(o) /\ o.deck = g.deck /\ o.tr = NoTransition /\ CommitJobs(o) = {}
  BY OverrideSettled
<1>4. p \in Phases \ {"empty"} /\ b \in Backends /\ p \notin {"playing", "paused", "finished"}
      /\ x = [o EXCEPT !.deck[d].phase = p, !.deck[d].backend = b]
  BY DEF Phases, Backends
<1>5. ManualStop(g, d) \in {x, Finished(x, g.deck[d].entry, "played")}
  BY DEF ManualStop
<1> HIDE DEF o, p, b, x
<1>6. Settled(x) /\ Good(x)
  BY <1>2, <1>3, <1>4, PhaseSettled
<1>7. Settled(Finished(x, g.deck[d].entry, "played"))
  BY <1>2, <1>6, FinishedSettled
<1> QED  BY <1>5, <1>6, <1>7

LEMMA ManualEjectSettled ==
  ASSUME NEW g, Good(g), Settled(g), NEW d \in Decks
  PROVE  Settled(ManualEject(g, d))
<1> DEFINE o == Override(g)
           e == Eject(o, d)
           a == [e.auto EXCEPT !.suppressed = @ \cup {d}]
           x == [e EXCEPT !.auto = a]
<1>1. g.deck[d].entry \in Nothing..N
  BY DeckValue DEF DeckStates
<1>2. Settled(e) /\ Good(e)
  BY OverrideSettled, EjectSettled
<1>3. ManualEject(g, d) = Finished([e EXCEPT !.auto.suppressed = @ \cup {d}], g.deck[d].entry, "skipped")
  BY DEF ManualEject
<1> HIDE DEF e
<1>4. e \in Conditions /\ e.auto \in Autos
  BY <1>2, Parts DEF Good
<1>5. a \in Autos /\ a.run = e.auto.run /\ a.gate = e.auto.gate /\ a.busy = e.auto.busy
  BY <1>4 DEF Autos
<1>6. x = [e EXCEPT !.auto.suppressed = @ \cup {d}]
  BY <1>4 DEF Conditions
<1>7. x.deck = e.deck /\ x.row = e.row /\ x.coord = e.coord /\ x.commits = e.commits /\ x.pool = e.pool /\ x.calls = e.calls
      /\ x.tr = e.tr /\ x.auto = a
  BY <1>4 DEF Conditions
<1>8. Good(x)
  BY <1>2, <1>5, AutoChanges
<1> HIDE DEF a, x
<1>9. Settled(x)
  BY <1>2, <1>5, <1>7, SettledBeside
<1> QED  BY <1>1, <1>3, <1>6, <1>8, <1>9, FinishedSettled

\* A title of the library is no title of the queue: what counts is what its deck had.
LEMMA ManualLoadSettled ==
  ASSUME NEW g, Good(g), Settled(g), NEW d \in Decks
  PROVE  Settled(ManualLoad(g, d))
<1> DEFINE o == Override(g)
           k == [o.deck[d] EXCEPT !.title = Library, !.entry = Nothing, !.phase = "loaded",
                                  !.backend = "silent", !.gated = FALSE]
           r == [t \in Titles |-> IF g.row[t].deck = d /\ g.row[t].status \in {"ready", "playing"}
                                  THEN [status |-> "skipped", deck |-> NoDeck] ELSE o.row[t]]
           x == [o EXCEPT !.deck[d] = k]
           h == [x EXCEPT !.row = r]
<1>1. /\ Settled(o) /\ Good(o) /\ o.tr = NoTransition /\ o.row = g.row /\ CommitJobs(o) = {} /\ Adoptions(o) = {}
      /\ o \in Conditions /\ o.deck[d] \in DeckStates /\ o.deck \in [Decks -> DeckStates]
  BY OverrideSettled, DeckValue
<1>2. ManualLoad(g, d) = h
  BY <1>1 DEF ManualLoad, Conditions
<1> HIDE DEF o
<1>3. k.title = Library
  BY <1>1 DEF DeckStates
<1>4. \A t \in Titles : \/ r[t] = o.row[t] /\ ~(o.row[t].deck = d /\ o.row[t].status \in {"ready", "playing"})
                        \/ r[t] = [status |-> "skipped", deck |-> NoDeck]
  BY <1>1
<1> HIDE DEF k, r
<1>5. /\ h.deck = [o.deck EXCEPT ![d] = k] /\ h.row = r /\ h.coord = o.coord /\ h.commits = o.commits /\ h.pool = o.pool
      /\ h.calls = o.calls /\ h.auto = o.auto /\ h.tr = NoTransition
  BY <1>1 DEF Conditions
<1> HIDE DEF h
<1>6. /\ CommitJobs(h) = {} /\ Adoptions(h) = {} /\ Cleanups(h) = Cleanups(o) /\ MixedEnds(h) = MixedEnds(o)
      /\ Answers(h) = Answers(o)
  <2>1. /\ CommitJobs(h) = CommitJobs(o) /\ Adoptions(h) = Adoptions(o) /\ Cleanups(h) = Cleanups(o)
        /\ MixedEnds(h) = MixedEnds(o) /\ Answers(h) = Answers(o)
    BY <1>5 DEF CommitJobs, Adoptions, Cleanups, MixedEnds, Answers
  <2> QED  BY <1>1, <2>1
<1>7. h.deck[d].title = Library /\ Library \notin Titles /\ \A y \in Decks : y # d => h.deck[y] = o.deck[y]
  BY <1>1, <1>3, <1>5, Constants
<1>8. Loaded(o) /\ MixedOut(o) /\ Awaited(o)
  BY <1>1 DEF Settled, Ledger
<1>9. Loaded(h)
  <2> SUFFICES ASSUME NEW y \in Decks, NEW t \in Titles, h.deck[y].title = t
               PROVE  /\ h.deck[Other(y)].title # t /\ h.coord[t].cleanup = "none"
                      /\ h.row[t].status # "waiting" /\ h.row[t].deck \in {y, NoDeck}
                      /\ h.row[t].status = "ready" => h.row[t].deck = y
                      /\ h.deck[y].phase \in {"playing", "paused", "finished"} /\ ~h.deck[y].muted => h.row[t].status # "ready"
                      /\ h.deck[y].entry = Nothing => h.row[t].status \notin {"ready", "playing"}
    BY DEF Loaded
  <2>1. y # d /\ h.deck[y] = o.deck[y] /\ Other(y) = d
    <3>1. y # d
      BY <1>7
    <3> QED  BY <1>7, <3>1, Constants DEF Other, Decks
  <2>2. /\ o.deck[y].title = t /\ o.coord[t].cleanup = "none"
        /\ o.row[t].status # "waiting" /\ o.row[t].deck \in {y, NoDeck}
        /\ o.row[t].status = "ready" => o.row[t].deck = y
        /\ o.deck[y].phase \in {"playing", "paused", "finished"} /\ ~o.deck[y].muted => o.row[t].status # "ready"
        /\ o.deck[y].entry = Nothing => o.row[t].status \notin {"ready", "playing"}
    BY <1>8, <2>1 DEF Loaded
  <2>3. CASE h.row[t] = o.row[t]
    BY <1>5, <1>7, <2>1, <2>2, <2>3
  <2>4. CASE h.row[t] = [status |-> "skipped", deck |-> NoDeck]
    BY <1>5, <1>7, <2>1, <2>2, <2>4
  <2> QED  BY <1>4, <1>5, <2>3, <2>4
<1>10. Adopting(h) /\ Committing(h)
  BY <1>6 DEF Adopting, Committing
<1>11. MixedOut(h)
  <2> SUFFICES ASSUME NEW t \in Titles, h.coord[t].cleanup # "none"
               PROVE  /\ h.row[t].status \notin {"waiting", "ready"}
                      /\ h.coord[t].commit = "ok" => h.row[t].status # "playing"
                      /\ h.row[t] = [status |-> "playing", deck |-> h.coord[t].deck] =>
                           /\ h.deck[h.coord[t].deck].title = Nothing
                           /\ h.coord[t].cleanup = "ok" => h.deck[h.coord[t].deck].backend = "silent"
    BY DEF MixedOut
  <2>1. /\ o.row[t].status \notin {"waiting", "ready"}
        /\ o.coord[t].commit = "ok" => o.row[t].status # "playing"
        /\ o.row[t] = [status |-> "playing", deck |-> o.coord[t].deck] =>
             /\ o.deck[o.coord[t].deck].title = Nothing
             /\ o.coord[t].cleanup = "ok" => o.deck[o.coord[t].deck].backend = "silent"
    BY <1>5, <1>8 DEF MixedOut
  <2>2. h.coord[t].deck \in Decks /\ h.coord = o.coord
    <3>1. o.coord[t] \in Coords
      BY <1>1, LedgerTypes
    <3> QED  BY <1>5, <3>1 DEF Coords
  <2>3. CASE h.row[t] = o.row[t] /\ ~(o.row[t].deck = d /\ o.row[t].status \in {"ready", "playing"})
    <3>1. o.row[t] = [status |-> "playing", deck |-> o.coord[t].deck] => o.coord[t].deck # d
      BY <2>3
    <3> QED  BY <1>7, <2>1, <2>2, <2>3, <3>1
  <2>4. CASE h.row[t] = [status |-> "skipped", deck |-> NoDeck]
    BY <2>4
  <2> QED  BY <1>4, <1>5, <2>3, <2>4
<1>12. Awaited(h)
  BY <1>5, <1>6, <1>8 DEF Awaited
<1>13. OneLine(h)
  BY <1>1, <1>5, <1>6, SameLine DEF Settled
<1> QED  BY <1>2, <1>5, <1>9, <1>10, <1>11, <1>12, <1>13, IdleMixes DEF Settled, Ledger

LEMMA ManualPlaySettled ==
  ASSUME NEW g, Good(g), Settled(g), NEW d \in Decks, g.deck[d].phase # "empty"
  PROVE  Settled(ManualPlay(g, d))
<1> DEFINE o == Override(g)
           u == [o EXCEPT !.deck[d].gated = FALSE]
<1>1. Settled(o) /\ Good(o) /\ o.tr = NoTransition /\ o.deck = g.deck /\ CommitJobs(o) = {}
  BY OverrideSettled
<1>2. ManualPlay(g, d) = StartDeck(u, d)
  BY DEF ManualPlay
<1> HIDE DEF o
<1>3. Settled(u) /\ Good(u) /\ u.tr = NoTransition /\ CommitJobs(u) = {} /\ u.deck[d].title = g.deck[d].title
  BY <1>1, UngatedSettled
<1>4. g.deck[d].title # Nothing
  BY DeckValue DEF DeckStates
<1> HIDE DEF u
<1> QED  BY <1>2, <1>3, <1>4, StartDeckSettled

LEMMA ManualPauseSettled ==
  ASSUME NEW g, Good(g), Settled(g), NEW d \in Decks, g.deck[d].phase = "playing"
  PROVE  Settled(ManualPause(g, d))
<1> DEFINE o == IF g.auto.run = "running" THEN Pause(g, FALSE) ELSE Override(g)
           p == "paused"
           b == "held"
<1>1. Settled(o) /\ Good(o) /\ o.tr = NoTransition /\ o.deck = g.deck
  <2>1. Pausing(g, FALSE, Pause(g, FALSE))
    BY PauseIs
  <2> QED  BY <2>1, PauseSettled, OverrideSettled DEF Pausing, Settled
<1>2. p \in Phases \ {"empty"} /\ b \in Backends
      /\ ManualPause(g, d) = [o EXCEPT !.deck[d].phase = p, !.deck[d].backend = b]
  BY DEF ManualPause, Phases, Backends
<1> HIDE DEF o, p, b
<1>3. /\ o.deck[d].phase # "empty" /\ o.deck[d].phase # "loaded"
      /\ o.deck[d].phase \in {"playing", "paused", "finished"} /\ p \in Phases \ {"empty"} /\ b \in Backends
  BY <1>1, <1>2
<1>4. Settled([o EXCEPT !.deck[d].phase = p, !.deck[d].backend = b])
  BY <1>1, <1>3, PhaseSettled
<1> QED  BY <1>2, <1>4

\* A paused deck has no preload to be committed.
LEMMA ManualResumeSettled ==
  ASSUME NEW g, Good(g), Settled(g), NEW d \in Decks, g.deck[d].phase = "paused", NEW due
  PROVE  Settled(ManualResume(g, d, due))
<1> DEFINE paused == g.auto.run = "paused"
           o == IF paused THEN g ELSE Override(g)
           u == [o EXCEPT !.deck[d].gated = FALSE]
           s == StartDeck(u, d)
<1>1. Settled(o) /\ Good(o) /\ o.tr = NoTransition /\ o.deck = g.deck
  <2>1. paused => g.tr = NoTransition
    BY Parts DEF Good, Opened, Handovers, NoTransition
  <2> QED  BY <2>1, OverrideSettled
<1>2. ManualResume(g, d, due) = IF paused THEN StartAutomatic(s, due) ELSE s
  BY DEF ManualResume
<1> HIDE DEF o
<1>3. Settled(u) /\ Good(u) /\ u.tr = NoTransition /\ u.deck[d].title = g.deck[d].title /\ u.deck[d].phase = "paused"
  BY <1>1, UngatedSettled
<1>4. g.deck[d].title # Nothing
  BY DeckValue DEF DeckStates
<1> HIDE DEF u
<1>5. ASSUME NEW j \in CommitJobs(u), j.title = u.deck[d].title PROVE FALSE
  <2>1. /\ j.title \in Titles /\ j.deck \in Decks
        /\ u.deck[Other(j.deck)].title # j.title
        /\ u.deck[j.deck].title = j.title => u.deck[j.deck].phase = "loaded"
    BY <1>3, LedgerTypes DEF Settled, Ledger, Committing
  <2>2. j.deck = d
    <3>1. Other(j.deck) = d \/ j.deck = d
      BY <2>1, Constants DEF Other, Decks
    <3> QED  BY <1>5, <2>1, <3>1
  <2> QED  BY <1>3, <1>5, <2>1, <2>2
<1>6. Settled(s) /\ Good(s) /\ s.tr = NoTransition
  BY <1>3, <1>4, <1>5, StartDeckSettled
<1> HIDE DEF s
<1> QED  BY <1>2, <1>6, StartAutomaticSettled

LEMMA ManualFaderSettled ==
  ASSUME NEW g, Good(g), Settled(g), NEW x \in {0, 3}
  PROVE  Settled(ManualFader(g, x))
<1> DEFINE p == Pause(g, FALSE)
           h == [p EXCEPT !.fader = x]
<1>1. CASE x = g.fader
  <2>1. [g EXCEPT !.fader = x] = g
    BY <1>1 DEF Good, Conditions
  <2> QED  BY <1>1, <2>1 DEF ManualFader
<1>2. CASE x # g.fader
  <2>1. Settled(p) /\ Good(p) /\ p \in Conditions
    BY PauseSettled DEF Settled, Good
  <2>2. ManualFader(g, x) = h
    BY <1>2 DEF ManualFader
  <2> HIDE DEF p
  <2>3. h.deck = p.deck /\ h.tr = p.tr /\ h.row = p.row /\ h.coord = p.coord /\ h.commits = p.commits /\ h.pool = p.pool
        /\ h.calls = p.calls /\ h.auto = p.auto
    BY <2>1 DEF Conditions
  <2> HIDE DEF h
  <2> QED  BY <2>1, <2>2, <2>3, SettledBeside
<1> QED  BY <1>1, <1>2

LEMMA CommandSettled ==
  ASSUME Good(G), Settled(G), NEW what, Command(what)
  PROVE  Settled(G')
<1>1. PICK d \in Decks, due \in BOOLEAN :
       \/ what = "pause" /\ Done(Pause(G, TRUE))
       \/ what = "resume" /\ auto.run # "running" /\ Done(StartAutomatic(G, due))
       \/ what = "play" /\ deck[d].phase \in {"loaded", "stopped", "finished"} /\ Done(ManualPlay(G, d))
       \/ what = "deckpause" /\ deck[d].phase = "playing" /\ Done(ManualPause(G, d))
       \/ what = "deckresume" /\ deck[d].phase = "paused" /\ Done(ManualResume(G, d, due))
       \/ what = "stop" /\ deck[d].title # Nothing /\ Done(ManualStop(G, d))
       \/ what = "eject" /\ deck[d].title # Nothing /\ Done(ManualEject(G, d))
       \/ what = "seek" /\ IsTransitioning(G) /\ Done(Abort(G))
       \/ what = "fader" /\ \E x \in {0, 3} : Done(ManualFader(G, x))
       \/ what = "load" /\ Done(ManualLoad(G, d))
  BY DEF Command
<1>2. CASE what = "pause"
  <2>1. Settled(Pause(G, TRUE)) /\ Good(Pause(G, TRUE))
    BY PauseSettled DEF Settled
  <2> QED  BY <1>1, <1>2, <2>1, SettledDone
<1>3. CASE what = "resume"
  <2>1. auto.run # "running" => G.tr = NoTransition
    BY GIs, GParts DEF Good, Opened, Handovers, NoTransition
  <2> QED  BY <1>1, <1>3, <2>1, StartAutomaticSettled, StartAutomaticGood, SettledDone
<1>4. CASE what = "play"
  <2>1. ManualPlay(G, d) = StartDeck([Override(G) EXCEPT !.deck[d].gated = FALSE], d)
    BY DEF ManualPlay
  <2>2. Good(Override(G)) /\ Override(G).deck[d].phase # "empty" /\ G.deck[d].phase # "empty"
    BY <1>1, <1>4, OverrideGood, GIs
  <2>3. Good(ManualPlay(G, d))
    BY <2>1, <2>2, StartUngated
  <2> QED  BY <1>1, <1>4, <2>2, <2>3, ManualPlaySettled, SettledDone
<1>5. CASE what = "deckpause"
  BY <1>1, <1>5, ManualPauseSettled, ManualPauseGood, SettledDone, GIs
<1>6. CASE what = "deckresume"
  BY <1>1, <1>6, ManualResumeSettled, ManualResumeGood, SettledDone, GIs
<1>7. CASE what = "stop"
  BY <1>1, <1>7, ManualStopSettled, ManualStopGood, SettledDone, GIs
<1>8. CASE what = "eject"
  BY <1>1, <1>8, ManualEjectSettled, ManualEjectGood, SettledDone
<1>9. CASE what = "seek"
  BY <1>1, <1>9, ResetSettled, SettledDone
<1>10. CASE what = "fader"
  BY <1>1, <1>10, ManualFaderSettled, ManualFaderGood, SettledDone
<1>11. CASE what = "load"
  BY <1>1, <1>11, ManualLoadSettled, ManualLoadGood, SettledDone
<1> QED  BY <1>1, <1>2, <1>3, <1>4, <1>5, <1>6, <1>7, <1>8, <1>9, <1>10, <1>11
----------------------------------------------------------------------------
(* Handovers that fail.                                                    *)

LEMMA DeckKept ==
  ASSUME NEW g, NEW h, Good(g), NEW d \in Decks, NEW k, h.deck = [g.deck EXCEPT ![d] = k], h.row = g.row,
         h.coord = g.coord, h.commits = g.commits, h.pool = g.pool, h.calls = g.calls,
         k.title \in {Nothing, g.deck[d].title},
         k.title # Nothing => k.entry = g.deck[d].entry /\ (g.deck[d].muted => k.muted) /\ k.phase = g.deck[d].phase,
         k.backend \in {g.deck[d].backend, "silent"}
  PROVE  Kept(g, h) /\ h.deck[d] = k /\ \A x \in Decks : x # d => h.deck[x] = g.deck[x]
<1>1. /\ CommitJobs(h) = CommitJobs(g) /\ Cleanups(h) = Cleanups(g) /\ Adoptions(h) = Adoptions(g)
      /\ MixedEnds(h) = MixedEnds(g)
  BY DEF CommitJobs, Cleanups, Adoptions, MixedEnds
<1>2. g.deck \in [Decks -> DeckStates]
  BY Parts DEF Good
<1>3. h.deck[d] = k /\ \A x \in Decks : x # d => h.deck[x] = g.deck[x]
  BY <1>2
<1>4. \A x \in Decks : KeptDeck(g, h, x)
  BY <1>3 DEF KeptDeck
<1>5. \A t \in Titles : KeptRow(g, h, t)
  BY DEF KeptRow
<1> QED  BY <1>1, <1>3, <1>4, <1>5 DEF Kept

LEMMA RowKept ==
  ASSUME NEW g, NEW h, h.deck = g.deck, h.coord = g.coord, h.commits = g.commits, h.pool = g.pool,
         h.calls = g.calls, \A t \in Titles : KeptRow(g, h, t)
  PROVE  Kept(g, h)
<1>1. CommitJobs(h) = CommitJobs(g) /\ Cleanups(h) = Cleanups(g) /\ Adoptions(h) = Adoptions(g) /\ MixedEnds(h) = MixedEnds(g)
  BY DEF CommitJobs, Cleanups, Adoptions, MixedEnds
<1>2. \A d \in Decks : KeptDeck(g, h, d)
  BY DEF KeptDeck
<1> QED  BY <1>1, <1>2 DEF Kept

LEMMA SkipIncomingSettled ==
  ASSUME NEW g, Good(g), Settled(g), g.tr.state = "wait"
  PROVE  Settled(SkipIncoming(g, g.tr.out))
<1> DEFINE out == g.tr.out
           in == Other(out)
           t == g.deck[in].entry
           o == OutdatePreload(g)
           g1 == OutgoingRestored(o, out)
           playing == t # Nothing /\ g1.row[t].status = "playing"
           n == NewPlayback(g1, t)
           e == Eject(n, in)
           f == [status |-> "skipped", deck |-> NoDeck]
           r == [e.row EXCEPT ![t] = f]
           y == [e EXCEPT !.row = r]
           g2 == IF playing THEN y ELSE g1
           k == Reopened(g2.deck[in])
           a == [g2.auto EXCEPT !.suppressed = @ \ {in}]
           x == [g2 EXCEPT !.deck[in] = k]
           g3 == [x EXCEPT !.auto = a]
           z == Reset(g3)
<1>1. g \in Conditions /\ g.tr \in Handovers /\ g.deck \in [Decks -> DeckStates] /\ g.tr.out \in Decks
      /\ g.auto.run = "running" /\ \A d \in Decks : ~g.deck[d].muted
  <2>1. g.tr.out \in Decks /\ g.auto.run = "running" /\ g \in Conditions /\ g.tr \in Handovers
    BY IdleOrNot
  <2> QED  BY <2>1, Parts DEF Good, Opened
<1>2. /\ out \in Decks /\ in \in Decks /\ t \in Nothing..N /\ t \in Nothing..Library /\ in # out /\ g.deck[in] \in DeckStates
  <2>1. out \in Decks /\ in \in Decks /\ in # out
    BY <1>1, Constants
  <2>2. g.deck[in] \in DeckStates
    BY <1>1, <2>1
  <2> QED  BY <2>1, <2>2, Constants DEF DeckStates
<1>3. /\ Good(o) /\ o.tr = g.tr /\ o.deck = g.deck /\ o.row = g.row /\ Kept(g, o) /\ o.auto = [g.auto EXCEPT !.busy = FALSE]
      /\ Working(o) = {} /\ Answers(o) = {}
  BY OutdateAside, OutdateStops, OutdateKept, AsideGood DEF Aside
<1>32. o.auto.run = "running"
  BY <1>1, <1>3, Parts DEF Autos
<1>4. e \in Conditions => y = [e EXCEPT !.row[t] = [status |-> "skipped", deck |-> NoDeck]]
  BY Zenon DEF Conditions
<1>42. SkipIncoming(g, out) =
         LET q == IF playing THEN [e EXCEPT !.row[t] = [status |-> "skipped", deck |-> NoDeck]] ELSE g1
             q3 == [q EXCEPT !.deck[in].gated = FALSE, !.deck[in].muted = FALSE, !.auto.suppressed = @ \ {in}]
         IN  AutoLoad([Reset(q3) EXCEPT !.auto.run = "running"])
  BY DEF SkipIncoming
<1>43. out = g.tr.out
  OBVIOUS
<1> HIDE DEF o, out, in, t
<1>5. /\ Good(g1) /\ Kept(o, g1) /\ g1.row = g.row /\ g1.tr = g.tr /\ g1.pool = o.pool /\ g1.calls = o.calls /\ g1.auto = o.auto
      /\ ~g1.deck[in].muted /\ g1.deck \in [Decks -> DeckStates]
  <2>1. Restoring(o, out, g1)
    BY <1>2, <1>3, <1>43, OutgoingRestoredIs
  <2> DEFINE m == Reopened(o.deck[out])
  <2>2. m.title = o.deck[out].title /\ m.entry = o.deck[out].entry /\ m.phase = o.deck[out].phase /\ m.backend = o.deck[out].backend
    BY <1>1, <1>2, <1>3, ReopenedDeck
  <2>3. ~o.deck[out].muted
    BY <1>1, <1>2, <1>3
  <2>4. /\ g1.deck = [o.deck EXCEPT ![out] = m] /\ g1.row = o.row /\ g1.coord = o.coord /\ g1.commits = o.commits
        /\ g1.pool = o.pool /\ g1.calls = o.calls /\ Good(g1) /\ g1.tr = o.tr /\ g1.auto = o.auto
    BY <2>1 DEF Restoring
  <2> HIDE DEF m, g1
  <2>5. Kept(o, g1) /\ \A d \in Decks : d # out => g1.deck[d] = o.deck[d]
    BY <1>2, <1>3, <2>2, <2>3, <2>4, DeckKept
  <2> QED  BY <1>1, <1>2, <1>3, <2>4, <2>5, Parts DEF Good
<1> HIDE DEF g1
<1>6. /\ Good(g2) /\ Kept(g1, g2) /\ g2.tr = g.tr /\ g2.pool = o.pool /\ g2.calls = o.calls /\ g2.auto = o.auto
      /\ ~g2.deck[in].muted /\ g2 = IF playing THEN [e EXCEPT !.row[t] = [status |-> "skipped", deck |-> NoDeck]] ELSE g1
  <2>1. CASE playing
    <3> DEFINE s == [EmptyDeck(n.deck[in]) EXCEPT !.backend = "silent"]
    <3>1. /\ Kept(g1, n) /\ Good(n) /\ n.tr = g1.tr /\ n.deck = g1.deck /\ n.row = g1.row /\ n.auto = g1.auto
          /\ n.pool = g1.pool /\ n.calls = g1.calls
      BY <1>2, <1>5, NewPlaybackKept, NewPlaybackAside, AsideGood DEF Aside
    <3> HIDE DEF n
    <3>2. Redecked(n, in, s, e)
      BY <1>2, <3>1, DetachIs
    <3>3. s.title = Nothing /\ s.backend = "silent" /\ s.muted = n.deck[in].muted
      BY <1>2, <1>5, <3>1, Emptied
    <3> HIDE DEF s, e
    <3>4. /\ e.deck = [n.deck EXCEPT ![in] = s] /\ e.row = n.row /\ e.coord = n.coord /\ e.commits = n.commits
          /\ e.pool = n.pool /\ e.calls = n.calls /\ Good(e) /\ e.tr = n.tr /\ e.auto = n.auto /\ e \in Conditions
      BY <3>2 DEF Redecked, Aside
    <3>5. Kept(n, e) /\ e.deck[in] = s
      BY <1>2, <3>1, <3>3, <3>4, DeckKept
    <3>6. t \in Titles /\ e.row \in [Titles -> Assignments]
      BY <1>2, <2>1, <3>4, Constants, Parts
    <3>7. r \in [Titles -> Assignments] /\ r[t] = f /\ \A q \in Titles : q # t => r[q] = e.row[q]
      BY <3>6, Skipped
    <3>72. f.status = "skipped" /\ f.deck = NoDeck
      OBVIOUS
    <3> HIDE DEF f, r
    <3>8. /\ Aside(e, y) /\ Good(y) /\ y.deck = e.deck /\ y.row = r /\ y.auto = e.auto
          /\ y.pool = e.pool /\ y.calls = e.calls /\ y.commits = e.commits /\ y.coord = e.coord
      BY <3>4, <3>7, RowAside
    <3>9. \A q \in Titles : KeptRow(e, y, q)
      BY <3>7, <3>72, <3>8 DEF KeptRow
    <3>92. y = [e EXCEPT !.row[t] = [status |-> "skipped", deck |-> NoDeck]]
      BY <1>4, <3>4
    <3> HIDE DEF y
    <3>10. Kept(e, y)
      BY <3>8, <3>9, RowKept
    <3>11. Kept(g1, y)
      BY <3>1, <3>5, <3>10, KeptAgain
    <3>12. y.tr = g.tr
      BY <1>5, <3>1, <3>4, <3>8 DEF Aside
    <3>13. g2 = y
      BY <2>1
    <3> QED  BY <1>5, <2>1, <3>1, <3>3, <3>4, <3>5, <3>8, <3>11, <3>12, <3>13, <3>92
  <2>2. CASE ~playing
    <3>1. Kept(g1, g1)
      BY KeptSame
    <3> QED  BY <1>5, <2>2, <3>1
  <2> QED  BY <2>1, <2>2
<1>62. SkipIncoming(g, out) =
         AutoLoad([Reset([g2 EXCEPT !.deck[in].gated = FALSE, !.deck[in].muted = FALSE, !.auto.suppressed = @ \ {in}])
                     EXCEPT !.auto.run = "running"])
  BY Zenon, <1>42, <1>6
<1> HIDE DEF g2
<1>7. g2.deck[in] \in DeckStates /\ g2.auto \in Autos /\ g2.auto.run = "running" /\ g2.auto.busy = FALSE
      /\ g2.deck \in [Decks -> DeckStates] /\ g2 \in Conditions
  <2>1. g.auto \in Autos
    BY <1>1, Parts
  <2> QED  BY <1>1, <1>2, <1>3, <1>32, <1>6, <2>1, Parts DEF Good, Autos
<1>8. /\ k \in DeckStates /\ ~k.gated /\ ~k.muted /\ k.title = g2.deck[in].title /\ k.entry = g2.deck[in].entry
      /\ k.phase = g2.deck[in].phase /\ k.backend = g2.deck[in].backend
  BY <1>7, ReopenedDeck
<1>9. a \in Autos /\ a.run = "running" /\ a.gate = g2.auto.gate /\ a.busy = FALSE
  BY <1>7 DEF Autos
<1>10. g3 = [g2 EXCEPT !.deck[in].gated = FALSE, !.deck[in].muted = FALSE, !.auto.suppressed = @ \ {in}]
  <2>1. g2 \in Conditions /\ in \in Decks
    BY <1>2, <1>7
  <2> QED  BY <1>7, <2>1 DEF Conditions, Reopened
<1> HIDE DEF k, a
<1>11. Redecked(g2, in, k, x)
  BY <1>2, <1>6, <1>8, DeckChanges
<1> HIDE DEF x
<1>12. /\ Good(x) /\ Kept(g2, x) /\ x.tr = g.tr /\ x.auto = g2.auto /\ x.pool = o.pool /\ x.calls = o.calls
  <2>1. /\ x.deck = [g2.deck EXCEPT ![in] = k] /\ x.row = g2.row /\ x.coord = g2.coord /\ x.commits = g2.commits
        /\ x.pool = g2.pool /\ x.calls = g2.calls /\ Good(x) /\ x.tr = g2.tr /\ x.auto = g2.auto
    BY <1>11 DEF Redecked, Aside
  <2>2. Good(g2) /\ in \in Decks /\ ~g2.deck[in].muted
    BY <1>2, <1>6
  <2> HIDE DEF g3, z
  <2>3. Kept(g2, x)
    BY <1>8, <2>1, <2>2, DeckKept
  <2> QED  BY <1>6, <2>1, <2>3
<1>13. /\ Good(g3) /\ g3.deck = x.deck /\ g3.row = x.row /\ g3.auto = a
       /\ g3.pool = x.pool /\ g3.calls = x.calls /\ g3.commits = x.commits /\ g3.coord = x.coord
  BY <1>7, <1>9, <1>12, AutoChanges
<1> HIDE DEF g3
<1>14. Ended(g3, z) /\ Good(z)
  BY <1>13, ResetEnds
<1>15. z.auto = a /\ z \in Conditions /\ z.tr = NoTransition /\ z.pool = o.pool /\ z.calls = o.calls
  BY <1>12, <1>13, <1>14 DEF Ended, Elsewhere
<1>16. Kept(x, z)
  <2>1. /\ z.deck = x.deck /\ z.row = x.row /\ z.coord = x.coord /\ z.commits = x.commits /\ z.pool = x.pool
        /\ z.calls = x.calls
    BY <1>13, <1>14 DEF Ended, Elsewhere
  <2> QED  BY <2>1, KeptSame
<1>17. SkipIncoming(g, out) = AutoLoad([z EXCEPT !.auto.run = "running"])
  BY <1>10, <1>62
<1> HIDE DEF z
<1>18. [z EXCEPT !.auto.run = "running"] = z
  BY <1>9, <1>15 DEF Conditions, Autos
<1>19. Kept(g, z)
  <2>1. Kept(g, g1)
    BY <1>3, <1>5, KeptAgain
  <2>2. Kept(g, g2)
    BY <1>6, <2>1, KeptAgain
  <2>3. Kept(g, x)
    BY <1>12, <2>2, KeptAgain
  <2> QED  BY <1>16, <2>3, KeptAgain
<1>20. OneLine(z)
  <2>1. Working(z) = Working(o) /\ Answers(z) = Answers(o)
    BY <1>15 DEF Working, Answers
  <2> QED  BY <1>3, <2>1, NoLine
<1>21. Settled(z)
  BY <1>15, <1>19, <1>20, IdleMixes, SettledKept
<1> QED  BY <1>14, <1>17, <1>18, <1>21, <1>43, AutoLoadSettled

\* A title whose deck was lost waits there, prepared and muted.
LEMMA ReadyLedger ==
  ASSUME NEW g, NEW h, Good(g), Ledger(g), CommitJobs(g) = {}, Adoptions(g) = {}, NEW d \in Decks, NEW t \in Titles,
         g.deck[d].title = t, g.deck[d].entry = t, g.deck[d].muted, h.deck = g.deck, h.coord = g.coord,
         h.commits = g.commits, h.pool = g.pool, h.calls = g.calls,
         h.row = [g.row EXCEPT ![t] = [status |-> "ready", deck |-> d]]
  PROVE  Ledger(h)
<1>1. /\ CommitJobs(h) = {} /\ Adoptions(h) = {} /\ Cleanups(h) = Cleanups(g) /\ MixedEnds(h) = MixedEnds(g)
  <2>1. /\ CommitJobs(h) = CommitJobs(g) /\ Adoptions(h) = Adoptions(g) /\ Cleanups(h) = Cleanups(g)
        /\ MixedEnds(h) = MixedEnds(g)
    BY DEF CommitJobs, Adoptions, Cleanups, MixedEnds
  <2> QED  BY <2>1
<1>2. /\ h.row[t] = [status |-> "ready", deck |-> d] /\ \A x \in Titles : x # t => h.row[x] = g.row[x]
  <2>1. g.row \in [Titles -> Assignments]
    BY Parts DEF Good
  <2> QED  BY <2>1
<1>3. Loaded(g) /\ MixedOut(g) /\ Awaited(g) /\ t # Nothing
  BY Constants DEF Ledger
<1>4. Loaded(h)
  <2> SUFFICES ASSUME NEW y \in Decks, NEW x \in Titles, h.deck[y].title = x
               PROVE  /\ h.deck[Other(y)].title # x /\ h.coord[x].cleanup = "none"
                      /\ h.row[x].status # "waiting" /\ h.row[x].deck \in {y, NoDeck}
                      /\ h.row[x].status = "ready" => h.row[x].deck = y
                      /\ h.deck[y].phase \in {"playing", "paused", "finished"} /\ ~h.deck[y].muted => h.row[x].status # "ready"
                      /\ h.deck[y].entry = Nothing => h.row[x].status \notin {"ready", "playing"}
    BY DEF Loaded
  <2>1. /\ g.deck[Other(y)].title # x /\ g.coord[x].cleanup = "none"
        /\ g.row[x].status # "waiting" /\ g.row[x].deck \in {y, NoDeck}
        /\ g.row[x].status = "ready" => g.row[x].deck = y
        /\ g.deck[y].phase \in {"playing", "paused", "finished"} /\ ~g.deck[y].muted => g.row[x].status # "ready"
        /\ g.deck[y].entry = Nothing => g.row[x].status \notin {"ready", "playing"}
    BY <1>3 DEF Loaded
  <2>2. CASE x # t
    BY <1>2, <2>1, <2>2
  <2>3. CASE x = t
    <3>1. y = d
      <4>1. Other(y) = d \/ y = d
        BY Constants DEF Other, Decks
      <4> QED  BY <2>1, <2>3, <4>1
    <3> QED  BY <1>2, <1>3, <2>1, <2>3, <3>1
  <2> QED  BY <2>2, <2>3
<1>5. Adopting(h) /\ Committing(h)
  BY <1>1 DEF Adopting, Committing
<1>6. MixedOut(h)
  <2>1. g.coord[t].cleanup = "none"
    BY <1>3 DEF Loaded
  <2> QED  BY <1>2, <1>3, <2>1 DEF MixedOut
<1>7. Awaited(h)
  BY <1>1, <1>3 DEF Awaited
<1> QED  BY <1>4, <1>5, <1>6, <1>7 DEF Ledger

LEMMA LoseIncomingSettled ==
  ASSUME NEW g, Good(g), Settled(g), g.tr.state = "crossfade", ~g.ramp.on
  PROVE  Settled(LoseIncoming(g, g.tr.out))
<1> DEFINE out == g.tr.out
           in == Other(out)
           t == g.deck[in].entry
           x == [g EXCEPT !.tr = NoTransition]
           p == Pause(x, FALSE)
           g1 == OutgoingRestored(p, out)
           k == [g1.deck[in] EXCEPT !.muted = TRUE]
           a == [g1.auto EXCEPT !.gate = TRUE]
           g2 == [g1 EXCEPT !.deck[in].muted = TRUE, !.auto.gate = TRUE]
           y == [[g1 EXCEPT !.deck = [g1.deck EXCEPT ![in] = k]] EXCEPT !.auto = a]
           n == NewPlayback(g2, t)
           h == [n EXCEPT !.row[t] = [status |-> "ready", deck |-> in]]
           hh == [n EXCEPT !.row = [n.row EXCEPT ![t] = [status |-> "ready", deck |-> in]]]
<1>1. g \in Conditions /\ g.tr.out \in Decks /\ g.deck \in [Decks -> DeckStates] /\ \A d \in Decks : ~g.deck[d].muted
  BY IdleOrNot, Parts DEF Good, Opened
<1>2. /\ out \in Decks /\ in \in Decks /\ t \in Nothing..N /\ t \in Nothing..Library /\ in # out /\ g.deck[in] \in DeckStates
      /\ t \in {Nothing, g.deck[in].title}
  <2>1. out \in Decks /\ in \in Decks /\ in # out
    BY <1>1, Constants
  <2>2. g.deck[in] \in DeckStates
    BY <1>1, <2>1
  <2> QED  BY <2>1, <2>2, Constants DEF DeckStates
<1>22. out = g.tr.out /\ t = g.deck[in].entry
  OBVIOUS
<1>3. LoseIncoming(g, out) = IF t # Nothing /\ g2.row[t].status = "playing" THEN h ELSE g2
  BY DEF LoseIncoming
<1> HIDE DEF out, in, t
<1>4. /\ x \in Conditions /\ Len(x.pool) <= 2 /\ x.tr = NoTransition /\ x.ramp = g.ramp /\ x.deck = g.deck
      /\ x.auto = g.auto /\ x.calls = g.calls /\ x.commits = g.commits /\ x.row = g.row /\ x.pool = g.pool
      /\ x.coord = g.coord
  BY <1>1 DEF Good, Conditions
<1> HIDE DEF x
<1>5. Good(x) /\ Kept(g, x)
  BY <1>4, IdleGood, KeptSame DEF Good, Faded, Opened
<1>6. Pausing(x, FALSE, p)
  BY <1>5, PauseIs
<1>62. Kept(x, p) /\ CommitJobs(p) = {} /\ Adoptions(p) = {}
  BY <1>5, PauseKept
<1> HIDE DEF p
<1>63. p.tr = NoTransition /\ p.deck = g.deck /\ Good(p)
  BY <1>4, <1>6 DEF Pausing
<1>7. Restoring(p, out, g1)
  BY <1>2, <1>63, OutgoingRestoredIs DEF NoTransition
<1> HIDE DEF g1
<1>8. /\ Good(g1) /\ g1.tr = NoTransition /\ g1.auto \in Autos /\ g1 \in Conditions
      /\ g1.deck \in [Decks -> DeckStates] /\ g1.deck[in] \in DeckStates
  BY <1>2, <1>63, <1>7, Parts DEF Restoring, Good
<1>82. Kept(p, g1) /\ g1.deck[in] = g.deck[in] /\ CommitJobs(g1) = {} /\ Adoptions(g1) = {}
  <2> DEFINE m == Reopened(p.deck[out])
  <2>1. m.title = p.deck[out].title /\ m.entry = p.deck[out].entry /\ m.phase = p.deck[out].phase /\ m.backend = p.deck[out].backend
    BY <1>1, <1>2, <1>63, ReopenedDeck
  <2>2. ~p.deck[out].muted
    BY <1>1, <1>2, <1>63
  <2>3. /\ g1.deck = [p.deck EXCEPT ![out] = m] /\ g1.row = p.row /\ g1.coord = p.coord /\ g1.commits = p.commits
        /\ g1.pool = p.pool /\ g1.calls = p.calls
    BY <1>7 DEF Restoring
  <2> HIDE DEF m
  <2>4. Kept(p, g1) /\ \A d \in Decks : d # out => g1.deck[d] = p.deck[d]
    BY <1>2, <1>63, <2>1, <2>2, <2>3, DeckKept
  <2>5. CommitJobs(g1) = CommitJobs(p) /\ Adoptions(g1) = Adoptions(p)
    BY <2>3 DEF CommitJobs, Adoptions
  <2> QED  BY <1>2, <1>62, <1>63, <2>4, <2>5
<1>9. /\ k \in DeckStates /\ a \in Autos /\ a.run = g1.auto.run /\ k.title = g1.deck[in].title /\ k.entry = g1.deck[in].entry
      /\ k.phase = g1.deck[in].phase /\ k.backend = g1.deck[in].backend /\ k.muted /\ a.gate
  BY <1>8 DEF DeckStates, Autos
<1>10. g2 = y
  BY <1>2, <1>8 DEF Conditions
<1> HIDE DEF k, a, g2
<1>11. /\ y \in Conditions /\ y.tr = NoTransition /\ y.ramp = g1.ramp /\ y.pool = g1.pool /\ y.auto = a
       /\ y.calls = g1.calls /\ y.row = g1.row /\ y.commits = g1.commits /\ y.coord = g1.coord
       /\ y.deck = [g1.deck EXCEPT ![in] = k]
  BY <1>2, <1>8, <1>9 DEF Conditions
<1> HIDE DEF y
<1>12. Good(g2) /\ g2 \in Conditions /\ Kept(g1, g2) /\ g2.deck[in] = k /\ CommitJobs(g2) = {} /\ Adoptions(g2) = {}
  <2>1. ~g1.ramp.on /\ ~g1.ramp.armed /\ Len(g1.pool) <= 2
    BY <1>8 DEF Good, Faded, NoTransition
  <2>2. a.run # "running"
    BY <1>6, <1>7, <1>9 DEF Pausing, Restoring
  <2>3. Good(y)
    BY <1>9, <1>11, <2>1, <2>2, IdleGood
  <2>4. Kept(g1, y) /\ y.deck[in] = k
    BY <1>2, <1>8, <1>9, <1>11, DeckKept
  <2>5. CommitJobs(y) = CommitJobs(g1) /\ Adoptions(y) = Adoptions(g1)
    BY <1>11 DEF CommitJobs, Adoptions
  <2> QED  BY <1>10, <1>11, <1>82, <2>3, <2>4, <2>5
<1>13. Kept(g, g2)
  <2>1. Kept(g, p)
    BY <1>5, <1>62, KeptAgain
  <2>2. Kept(g, g1)
    BY <1>82, <2>1, KeptAgain
  <2> QED  BY <1>12, <2>2, KeptAgain
<1>14. Ledger(g2)
  BY <1>13, KeptLedger DEF Settled
<1>15. t # Nothing => Ledger(h)
  <2> SUFFICES ASSUME t # Nothing PROVE Ledger(h)
    OBVIOUS
  <2>1. /\ Good(n) /\ Kept(g2, n) /\ n.deck = g2.deck /\ n.pool = g2.pool /\ n.calls = g2.calls /\ n \in Conditions
    BY <1>2, <1>12, NewPlaybackAside, NewPlaybackKept, AsideGood DEF Aside
  <2>2. h = hh
    BY <2>1 DEF Conditions
  <2> HIDE DEF n, h
  <2>3. CommitJobs(n) = {} /\ Adoptions(n) = {}
    <3>1. CommitJobs(n) = CommitJobs(g2) /\ Adoptions(n) = Adoptions(g2)
      BY <2>1 DEF CommitJobs, Adoptions
    <3> QED  BY <1>12, <3>1
  <2>4. Ledger(n)
    BY <1>12, <1>14, <2>1, KeptLedger
  <2>5. t \in Titles /\ n.deck[in].title = t /\ n.deck[in].entry = t /\ n.deck[in].muted
    BY <1>2, <1>22, <1>82, <1>9, <1>12, <2>1, Constants
  <2>6. /\ hh.deck = n.deck /\ hh.coord = n.coord /\ hh.commits = n.commits /\ hh.pool = n.pool /\ hh.calls = n.calls
        /\ hh.row = [n.row EXCEPT ![t] = [status |-> "ready", deck |-> in]]
    BY <2>1 DEF Conditions
  <2> HIDE DEF hh
  <2> QED  BY <1>2, <2>1, <2>2, <2>3, <2>4, <2>5, <2>6, ReadyLedger
<1> HIDE DEF h
<1>16. Ledger(LoseIncoming(g, out))
  BY <1>3, <1>14, <1>15
<1>17. Losing(g, LoseIncoming(g, out))
  BY <1>22, LoseIncomingIs
<1> QED  BY <1>16, <1>17, <1>22, NoLine, IdleMixes DEF Losing, Settled
----------------------------------------------------------------------------
(* The end of a handover.                                                  *)

LEMMA CompleteIs ==
  ASSUME NEW g, Good(g), MixesOut(g), g.tr.step = "finish"
  PROVE  Completing(g, Complete(g))
<1> DEFINE d == g.tr.out
           t == g.tr.title
           coo == [cleanup |-> "open", commit |-> IF g.tr.entry = Nothing THEN "ok" ELSE "open",
                   published |-> FALSE, live |-> TRUE, deck |-> d]
           kk == [g.coord EXCEPT ![t] = coo]
           c == {x \in g.calls : x.kind # "finish" \/ x.deck # d}
           g1 == [[g EXCEPT !.calls = c] EXCEPT !.coord = kk]
           e == Detach(g1, d)
           k == EmptyDeck(g1.deck[d])
           j == Job("cleanup", t, d)
           g2 == Submit(e, j)
           p == Persist(g2, g.tr.entry, d, TRUE)
           h == [p EXCEPT !.tr = NoTransition, !.ramp = NoRamp]
<1>1. /\ g \in Conditions /\ g.tr \in Handovers /\ g.tr.state # "idle" /\ d \in Decks
      /\ g.deck \in [Decks -> DeckStates]
  <2>1. g.tr.state # "idle"
    BY Parts DEF Good, NoTransition, Handovers
  <2> QED  BY <2>1, IdleOrNot, Parts
<1>2. t \in 1..Library /\ g.tr.entry \in Nothing..N /\ g.deck[d].title = t /\ g.coord \in [1..Library -> Coords]
  BY <1>1, Parts DEF Handovers, MixesOut
<1>3. kk \in [1..Library -> Coords] /\ c \in SUBSET Calls
  <2>1. coo \in Coords
    BY <1>1 DEF Coords, Results, SomeDeck
  <2> QED  BY <1>1, <1>2, <2>1, Parts
<1>4. Complete(g) = h
  <2>1. [g EXCEPT !.calls = {x \in @ : x.kind # "finish" \/ x.deck # d}, !.coord[t] = coo] = g1
    BY <1>1 DEF Conditions
  <2> QED  BY <1>2, <2>1 DEF Complete
<1>42. Good(Complete(g))
  BY CompleteGood
<1>43. Answers(g) = {x \in c : x.kind \in {"adopt", "failed", "missed", "followup"}}
  BY DEF Answers
<1> HIDE DEF kk, c
<1>5. /\ Aside(g, g1) /\ g1.deck = g.deck /\ g1.auto = g.auto /\ g1.pool = g.pool /\ g1.calls = c /\ g1.row = g.row
      /\ g1.commits = g.commits /\ g1.coord = kk
  BY <1>1, <1>3 DEF Good, Aside, Conditions
<1> HIDE DEF g1
<1>6. Good(g1) /\ k = EmptyDeck(g.deck[d])
  BY <1>1, <1>5, AsideGood
<1>7. Redecked(g1, d, k, e)
  BY <1>1, <1>6, DetachIs
<1> HIDE DEF e, k
<1>8. j \in Jobs
  BY <1>1, <1>2, Constants DEF Jobs, Job, SomeDeck
<1>82. j = Job("cleanup", t, d)
  OBVIOUS
<1> HIDE DEF j
<1>9. Good(e)
  BY <1>7 DEF Redecked
<1>10. /\ Good(g2) /\ g2.deck = e.deck /\ g2.row = e.row /\ g2.auto = e.auto /\ g2.calls = e.calls
       /\ g2.commits = e.commits /\ g2.coord = e.coord /\ (g2.pool = e.pool \/ g2.pool = Append(e.pool, j))
  BY <1>8, <1>9, SubmitAside, SubmitPool, AsideGood
<1> HIDE DEF g2
<1>11. /\ Good(p) /\ p.deck = g2.deck /\ p.auto = g2.auto /\ p.pool = g2.pool /\ p.calls = g2.calls /\ p.row = g2.row
       /\ p.coord = g2.coord
  BY <1>1, <1>2, <1>10, PersistAside
<1>12. p.commits = IF g.tr.entry = Nothing THEN g2.commits
                   ELSE Append(g2.commits, [title |-> g.tr.entry, deck |-> d, live |-> TRUE, coord |-> TRUE])
  BY <1>10 DEF Persist, Good, Conditions
<1> HIDE DEF p
<1>13. /\ h.deck = p.deck /\ h.auto = p.auto /\ h.tr = NoTransition /\ h.pool = p.pool /\ h.calls = p.calls
       /\ h.row = p.row /\ h.commits = p.commits /\ h.coord = p.coord
  BY <1>11 DEF Good, Conditions
<1> HIDE DEF h
<1>14. /\ e.deck = [g1.deck EXCEPT ![d] = k] /\ e.row = g1.row /\ e.auto = g1.auto /\ e.calls = g1.calls
       /\ e.pool = g1.pool /\ e.commits = g1.commits /\ e.coord = g1.coord
  BY <1>7 DEF Redecked
<1>15. /\ h.deck = [g.deck EXCEPT ![d] = k] /\ h.row = g.row /\ h.auto = g.auto /\ h.calls = c /\ h.coord = kk
       /\ (h.pool = g.pool \/ h.pool = Append(g.pool, j))
       /\ h.commits = IF g.tr.entry = Nothing THEN g.commits
                      ELSE Append(g.commits, [title |-> g.tr.entry, deck |-> d, live |-> TRUE, coord |-> TRUE])
  BY <1>5, <1>10, <1>11, <1>12, <1>13, <1>14
<1>16. Answers(h) = Answers(g)
  BY <1>15, <1>43 DEF Answers
<1> QED  BY <1>4, <1>42, <1>6, <1>82, <1>13, <1>15, <1>16 DEF Completing, kk
----------------------------------------------------------------------------
\* One end more.
LEMMA AppendEnds ==
  ASSUME NEW g, NEW h, g.commits \in Seq(Ends), NEW e \in Ends, e.coord, h.commits = Append(g.commits, e)
  PROVE  MixedEnds(h) \subseteq MixedEnds(g) \cup {<<e.title, e.deck>>}
<1>1. \A i \in DOMAIN h.commits : (i \in DOMAIN g.commits /\ h.commits[i] = g.commits[i]) \/ h.commits[i] = e
  OBVIOUS
<1> QED  BY <1>1 DEF MixedEnds

LEMMA CompletingLedger ==
  ASSUME NEW g, NEW h, Good(g), Settled(g), g.tr.step = "finish", Completing(g, h)
  PROVE  Ledger(h) /\ OneLine(h)
<1> DEFINE d == g.tr.out
           t == g.tr.title
           n == g.tr.entry
           j == Job("cleanup", t, d)
           PPF == {"playing", "paused", "finished"}
<1>1. /\ g \in Conditions /\ d \in Decks /\ t \in 1..Library /\ n \in Nothing..N /\ g.tr.state # "idle"
      /\ g.auto.run = "running" /\ g.deck \in [Decks -> DeckStates] /\ g.pool \in Seq(Jobs) /\ g.commits \in Seq(Ends)
      /\ g.coord \in [1..Library -> Coords]
  <2>1. g.tr.state # "idle"
    BY Parts DEF Good, NoTransition, Handovers
  <2>2. g \in Conditions /\ g.tr \in Handovers /\ g.auto.run = "running"
    BY <2>1, IdleOrNot
  <2> QED  BY <2>1, <2>2, Parts DEF Handovers
<1>2. /\ g.deck[d].title = t /\ g.deck[d].entry = n /\ g.deck[d].phase \in PPF /\ ~g.deck[d].muted /\ n \in {Nothing, t}
      /\ Nothing \notin Titles
  <2>1. g.deck[d].title = t /\ g.deck[d].entry = n /\ g.deck[d].phase \in PPF
    BY <1>1 DEF Settled, MixesOut
  <2>2. ~g.deck[d].muted
    BY <1>1 DEF Good, Opened
  <2>3. n \in {Nothing, t}
    BY <1>1, <2>1 DEF DeckStates
  <2> QED  BY <2>1, <2>2, <2>3, Constants
<1>3. /\ \A x \in Decks : x # d => h.deck[x] = g.deck[x]
      /\ h.deck[d].title = Nothing /\ h.deck[d].backend = g.deck[d].backend
  <2>1. h.deck = [g.deck EXCEPT ![d] = EmptyDeck(g.deck[d])]
    BY DEF Completing
  <2>2. EmptyDeck(g.deck[d]).title = Nothing /\ EmptyDeck(g.deck[d]).backend = g.deck[d].backend
    BY <1>1, Emptied
  <2> QED  BY <1>1, <2>1, <2>2
<1>4. /\ \A u \in Titles : u # t => h.coord[u] = g.coord[u]
      /\ h.coord[t].cleanup = "open" /\ h.coord[t].commit = (IF n = Nothing THEN "ok" ELSE "open") /\ h.coord[t].deck = d
  BY <1>1, Constants DEF Completing
<1>5. j \in Jobs /\ j.kind = "cleanup" /\ j.title = t /\ j.deck = d
  BY <1>1, Constants DEF Jobs, Job, SomeDeck
<1>6. /\ CommitJobs(h) \subseteq CommitJobs(g) /\ Cleanups(h) \subseteq Cleanups(g) \cup {j}
      /\ Working(h) = Working(g)
  <2>1. CASE h.pool = g.pool
    BY <2>1 DEF CommitJobs, Cleanups, Working
  <2>2. CASE h.pool = Append(g.pool, j)
    BY <1>1, <1>5, <2>2, AppendJobs, AppendLine
  <2> QED  BY <2>1, <2>2 DEF Completing
<1>7. Adoptions(h) = Adoptions(g)
  BY SameAnswers DEF Completing
<1>8. MixedEnds(h) \subseteq MixedEnds(g) \cup {<<t, d>>} /\ (t \notin Titles => MixedEnds(h) \subseteq MixedEnds(g))
  <2>1. CASE n = Nothing
    BY <2>1 DEF Completing, MixedEnds
  <2>2. CASE n # Nothing
    <3> DEFINE e == [title |-> n, deck |-> d, live |-> TRUE, coord |-> TRUE]
    <3>1. n = t /\ n \in Titles /\ e \in Ends /\ e.coord /\ e.title = n /\ e.deck = d
      BY <1>1, <1>2, <2>2, Constants DEF Ends
    <3>2. h.commits = Append(g.commits, e)
      BY <2>2 DEF Completing
    <3> HIDE DEF e
    <3> QED  BY <1>1, <3>1, <3>2, AppendEnds
  <2> QED  BY <2>1, <2>2
<1>9. h.row = g.row /\ h.auto = g.auto /\ Answers(h) = Answers(g)
  BY DEF Completing
<1>10. /\ Loaded(g) /\ Adopting(g) /\ Committing(g) /\ MixedOut(g) /\ Awaited(g) /\ OneLine(g)
  BY DEF Settled, Ledger
<1>11. t \in Titles => /\ g.deck[Other(d)].title # t /\ g.coord[t].cleanup = "none" /\ g.row[t].status \notin {"waiting", "ready"}
                       /\ (n = Nothing => g.row[t].status # "playing")
  BY <1>1, <1>2, <1>10 DEF Loaded
<1>12. /\ \A c \in Adoptions(g) : c.title \in Titles /\ c.deck \in Decks
       /\ \A x \in CommitJobs(g) : x.title \in Titles /\ x.deck \in Decks
       /\ \A e \in MixedEnds(g) : e[1] \in Titles /\ e[2] \in Decks
       /\ \A x \in Decks : Other(x) \in Decks /\ Other(x) # x /\ Other(Other(x)) = x
       /\ \A u \in Titles : g.coord[u] \in Coords
  BY LedgerTypes
<1> HIDE DEF j, PPF
<1>13. Loaded(h)
  <2> SUFFICES ASSUME NEW y \in Decks, NEW x \in Titles, h.deck[y].title = x
               PROVE  /\ h.deck[Other(y)].title # x /\ h.coord[x].cleanup = "none"
                      /\ h.row[x].status # "waiting" /\ h.row[x].deck \in {y, NoDeck}
                      /\ h.row[x].status = "ready" => h.row[x].deck = y
                      /\ h.deck[y].phase \in {"playing", "paused", "finished"} /\ ~h.deck[y].muted => h.row[x].status # "ready"
                      /\ h.deck[y].entry = Nothing => h.row[x].status \notin {"ready", "playing"}
    BY DEF Loaded
  <2>1. y # d /\ h.deck[y] = g.deck[y] /\ Other(y) = d
    <3>1. y # d
      BY <1>2, <1>3
    <3> QED  BY <1>1, <1>3, <3>1, Constants DEF Other, Decks
  <2>2. x # t
    BY <1>11, <1>12, <2>1
  <2> QED  BY <1>2, <1>3, <1>4, <1>9, <1>10, <2>1, <2>2 DEF Loaded
<1>14. Adopting(h)
  <2> SUFFICES ASSUME NEW c \in Adoptions(g)
               PROVE  /\ h.deck[c.deck].title = Nothing /\ h.coord[c.title].cleanup = "none"
                      /\ \A x \in Decks : h.deck[x].title # c.title
                      /\ h.row[c.title].status \notin {"waiting", "ready", "playing"} /\ h.row[c.title].deck \in {c.deck, NoDeck}
                      /\ \A u \in Titles : h.row[u] # [status |-> "playing", deck |-> c.deck]
    BY <1>7 DEF Adopting
  <2>1. /\ g.deck[c.deck].title = Nothing /\ g.coord[c.title].cleanup = "none"
        /\ \A x \in Decks : g.deck[x].title # c.title
        /\ g.row[c.title].status \notin {"waiting", "ready", "playing"} /\ g.row[c.title].deck \in {c.deck, NoDeck}
        /\ \A u \in Titles : g.row[u] # [status |-> "playing", deck |-> c.deck]
    BY <1>10 DEF Adopting
  <2>2. c.title # t /\ c.title \in Titles /\ c.deck \in Decks /\ c.title # Nothing
    BY <1>1, <1>2, <1>12, <2>1
  <2> QED  BY <1>3, <1>4, <1>9, <2>1, <2>2
<1>15. Committing(h)
  <2> SUFFICES ASSUME NEW x \in CommitJobs(g)
               PROVE  /\ h.coord[x.title].cleanup = "none" /\ h.deck[Other(x.deck)].title # x.title
                      /\ h.deck[x.deck].title = x.title => h.deck[x.deck].entry = x.title /\ h.deck[x.deck].phase = "loaded"
                      /\ h.row[x.title].status \notin {"ready", "playing"}
    BY <1>6 DEF Committing
  <2>1. /\ g.coord[x.title].cleanup = "none" /\ g.deck[Other(x.deck)].title # x.title
        /\ g.deck[x.deck].title = x.title => g.deck[x.deck].entry = x.title /\ g.deck[x.deck].phase = "loaded"
        /\ g.row[x.title].status \notin {"ready", "playing"}
    BY <1>10 DEF Committing
  <2>2. x.title \in Titles /\ x.deck \in Decks /\ Other(x.deck) \in Decks /\ x.title # Nothing
    BY <1>2, <1>12
  <2>3. x.title # t
    <3>1. x.deck = d \/ Other(x.deck) = d
      BY <1>1, <2>2, Constants DEF Other, Decks
    <3> QED  BY <1>2, <2>1, <3>1 DEF PPF
  <2> QED  BY <1>3, <1>4, <1>9, <2>1, <2>2, <2>3
<1>16. MixedOut(h)
  <2> SUFFICES ASSUME NEW u \in Titles, h.coord[u].cleanup # "none"
               PROVE  /\ h.row[u].status \notin {"waiting", "ready"}
                      /\ h.coord[u].commit = "ok" => h.row[u].status # "playing"
                      /\ h.row[u] = [status |-> "playing", deck |-> h.coord[u].deck] =>
                           /\ h.deck[h.coord[u].deck].title = Nothing
                           /\ h.coord[u].cleanup = "ok" => h.deck[h.coord[u].deck].backend = "silent"
    BY DEF MixedOut
  <2>1. CASE u = t
    BY <1>3, <1>4, <1>9, <1>11, <2>1
  <2>2. CASE u # t
    <3>1. h.coord[u] = g.coord[u]
      BY <1>4, <2>2
    <3>2. /\ g.row[u].status \notin {"waiting", "ready"}
          /\ g.coord[u].commit = "ok" => g.row[u].status # "playing"
          /\ g.row[u] = [status |-> "playing", deck |-> g.coord[u].deck] =>
               /\ g.deck[g.coord[u].deck].title = Nothing
               /\ g.coord[u].cleanup = "ok" => g.deck[g.coord[u].deck].backend = "silent"
      BY <1>10, <3>1 DEF MixedOut
    <3>3. g.coord[u].deck \in Decks
      BY <1>12, <3>1 DEF Coords
    <3> QED  BY <1>3, <1>9, <3>1, <3>2, <3>3
  <2> QED  BY <2>1, <2>2
<1>17. Awaited(h)
  <2>1. ASSUME NEW x \in Cleanups(h), x.title \in Titles
        PROVE  h.coord[x.title].cleanup # "none" /\ h.coord[x.title].deck = x.deck
    <3>1. CASE x = j
      BY <1>4, <1>5, <3>1
    <3>2. CASE x \in Cleanups(g)
      <4>1. g.coord[x.title].cleanup # "none" /\ g.coord[x.title].deck = x.deck
        BY <1>10, <2>1, <3>2 DEF Awaited
      <4>2. x.title # t
        BY <1>11, <2>1, <4>1
      <4> QED  BY <1>4, <2>1, <4>1, <4>2
    <3> QED  BY <1>6, <3>1, <3>2
  <2>2. ASSUME NEW e \in MixedEnds(h)
        PROVE  h.coord[e[1]].cleanup # "none" /\ h.coord[e[1]].deck = e[2]
    <3>1. CASE e = <<t, d>>
      BY <1>4, <3>1
    <3>2. CASE e \in MixedEnds(g)
      <4>1. g.coord[e[1]].cleanup # "none" /\ g.coord[e[1]].deck = e[2] /\ e[1] \in Titles
        BY <1>10, <1>12, <3>2 DEF Awaited
      <4>2. e[1] # t
        BY <1>11, <4>1
      <4> QED  BY <1>4, <4>1, <4>2
    <3> QED  BY <1>8, <3>1, <3>2
  <2> QED  BY <2>1, <2>2 DEF Awaited
<1>18. OneLine(h)
  BY <1>6, <1>9, <1>10 DEF OneLine
<1> QED  BY <1>13, <1>14, <1>15, <1>16, <1>17, <1>18 DEF Ledger

LEMMA CompleteSettled ==
  ASSUME NEW g, Good(g), Settled(g), g.tr.step = "finish"
  PROVE  Settled(Complete(g))
<1> DEFINE h == Complete(g)
<1>1. Completing(g, h)
  BY CompleteIs DEF Settled
<1> HIDE DEF h
<1>2. Ledger(h) /\ OneLine(h) /\ h.tr = NoTransition
  BY <1>1, CompletingLedger DEF Completing
<1>3. Settled(h)
  BY <1>2, IdleMixes DEF Settled
<1> QED  BY <1>3 DEF h
----------------------------------------------------------------------------
(* Every action keeps it.                                                  *)

\* Decks, rows, executors and callbacks are as they were, and what is mixed out is the same.
LEMMA VerifySettled ==
  ASSUME NEW g, NEW h, Good(g), Settled(g), h.deck = g.deck, h.row = g.row, h.coord = g.coord, h.commits = g.commits,
         h.pool = g.pool, h.calls = g.calls, h.auto = g.auto, g.tr.state # "idle",
         h.tr.out = g.tr.out, h.tr.title = g.tr.title, h.tr.entry = g.tr.entry
  PROVE  Settled(h)
<1>1. Kept(g, h) /\ Answers(h) = Answers(g)
  BY KeptSame
<1>2. OneLine(h)
  BY <1>1, SameLine DEF Settled
<1>3. MixesOut(h)
  BY DEF Settled, MixesOut
<1> QED  BY <1>1, <1>2, <1>3, SettledKept

LEMMA TransitionCallsSettled ==
  ASSUME Good(G), Settled(G), Poll \/ PollTimesOut \/ RenderTick \/ FinishTransition
  PROVE  Settled(G')
<1>1. tr \in {NoTransition} \cup Handovers /\ G.tr = tr /\ G.ramp = ramp /\ G.deck = deck
  BY GParts, GIs
<1>2. /\ tr.step = "poll" => tr.state = "wait"
      /\ tr.step = "render" => tr.state = "crossfade" /\ tr \in Handovers
  BY <1>1 DEF Handovers, NoTransition
<1>3. CASE Poll
  <2>1. Done(Polled(G)) /\ G.tr.state = "wait"
    BY <1>1, <1>2, <1>3 DEF Poll
  <2> QED  BY <2>1, PolledSettled, PolledGood, SettledDone
<1>4. CASE PollTimesOut
  <2>1. Done(SkipIncoming(G, G.tr.out)) /\ G.tr.state = "wait"
    BY <1>1, <1>2, <1>4 DEF PollTimesOut
  <2> QED  BY <2>1, SkipIncomingSettled, SkipIncomingGood, SettledDone
<1>5. CASE RenderTick
  <2>1. CASE deck[tr.in].backend = "playing"
    <3> DEFINE m == [tr EXCEPT !.state = "verify", !.step = "finish"]
               h == [G EXCEPT !.tr = m]
    <3>1. tr \in Handovers /\ tr.state = "crossfade" /\ ~ramp.on
      BY <1>1, <1>2, <1>5 DEF RenderTick, NoTransition
    <3>2. m \in Handovers /\ m.out = tr.out /\ m.title = tr.title /\ m.entry = tr.entry
      BY <3>1 DEF Handovers
    <3>3. Done([G EXCEPT !.tr.state = "verify", !.tr.step = "finish"])
      BY <1>5, <2>1 DEF RenderTick
    <3>4. [G EXCEPT !.tr.state = "verify", !.tr.step = "finish"] = h
      BY <1>1 DEF Good, Conditions
    <3> HIDE DEF m
    <3>5. /\ h \in Conditions /\ h.tr = m /\ h.deck = G.deck /\ h.auto = G.auto /\ h.row = G.row
          /\ h.pool = G.pool /\ h.calls = G.calls /\ h.commits = G.commits /\ h.coord = G.coord
      BY <3>2 DEF Good, Conditions
    <3> HIDE DEF h
    <3>6. Settled(h)
      BY <1>1, <3>1, <3>2, <3>5, VerifySettled
    <3>7. G' = h
      BY <3>3, <3>4, <3>5, DoneIs
    <3> QED  BY <3>6, <3>7
  <2>2. CASE deck[tr.in].backend # "playing"
    <3>1. Done(LoseIncoming(G, G.tr.out)) /\ G.tr.state = "crossfade" /\ ~G.ramp.on
      BY <1>1, <1>2, <1>5, <2>2 DEF RenderTick
    <3> QED  BY <3>1, LoseIncomingGood, LoseIncomingSettled, SettledDone
  <2> QED  BY <2>1, <2>2
<1>6. CASE FinishTransition
  <2>1. Done(Complete(G)) /\ G.tr.step = "finish"
    BY <1>1, <1>6 DEF FinishTransition
  <2> QED  BY <2>1, CompleteGood, CompleteSettled, SettledDone
<1> QED  BY <1>3, <1>4, <1>5, <1>6

LEMMA RampSettled ==
  ASSUME Good(G), Settled(G), RampArms \/ RampWrites \/ RampWritesLate
  PROVE  Settled(G')
<1>1. UNCHANGED <<deck, tr, auto, row, pool, calls, commits, coord>>
  BY DEF RampArms, RampWrites, RampWritesLate
<1>2. /\ G'.deck = G.deck /\ G'.row = G.row /\ G'.coord = G.coord /\ G'.commits = G.commits
      /\ G'.pool = G.pool /\ G'.calls = G.calls /\ G'.auto = G.auto /\ G'.tr = G.tr
  BY <1>1, GIs, GIsNext
<1> DEFINE h == G'
<1> HIDE DEF h
<1>3. Settled(h)
  BY <1>2, SettledBeside DEF h
<1> QED  BY <1>3 DEF h

LEMMA BackendSettled ==
  ASSUME Good(G), Settled(G), NEW d \in Decks, NEW from \in {"starting", "playing"}, NEW to, Backend(d, from, to)
  PROVE  Settled(G')
<1> DEFINE k == [deck[d] EXCEPT !.backend = to]
           h == G'
<1>1. deck[d] \in DeckStates /\ deck \in [Decks -> DeckStates]
  BY GParts
<1>2. k.title = deck[d].title /\ k.phase = deck[d].phase /\ k.entry = deck[d].entry /\ k.muted = deck[d].muted
  BY <1>1 DEF DeckStates
<1>3. /\ deck' = [deck EXCEPT ![d] = k] /\ deck[d].backend = from
      /\ UNCHANGED <<tr, auto, row, pool, calls, commits, coord>>
  BY DEF Backend
<1> HIDE DEF k
<1>4. /\ h.deck = [G.deck EXCEPT ![d] = k] /\ h.row = G.row /\ h.coord = G.coord /\ h.commits = G.commits
      /\ h.pool = G.pool /\ h.calls = G.calls /\ h.auto = G.auto /\ h.tr = G.tr
  BY <1>3, GIs, GIsNext
<1>5. k.title = G.deck[d].title /\ k.phase = G.deck[d].phase /\ k.entry = G.deck[d].entry /\ k.muted = G.deck[d].muted
      /\ G.deck[d].backend # "silent"
  BY <1>2, <1>3, GIs
<1> HIDE DEF h
<1>6. MixesOut(h)
  BY <1>4, <1>5, MixesDeck DEF Settled
<1>7. Answers(h) = Answers(G)
  BY <1>4 DEF Answers
<1>8. Settled(h)
  BY <1>4, <1>5, <1>6, <1>7, DeckSettled
<1> QED  BY <1>8 DEF h

LEMMA BackendsSettled ==
  ASSUME Good(G), Settled(G), (\E d \in Decks : BackendStarts(d) \/ TitleEnds(d)) \/ BackendNeverStarts \/ BackendLost
  PROVE  Settled(G')
<1>1. tr.state # "idle" => tr.in \in Decks
  BY GParts DEF Handovers, NoTransition
<1> QED  BY <1>1, BackendSettled DEF BackendStarts, TitleEnds, BackendNeverStarts, BackendLost
----------------------------------------------------------------------------
(* The preload executor.                                                   *)

\* The first job is taken.
LEMMA TailJobs ==
  ASSUME NEW g, NEW h, g.pool \in Seq(Jobs), g.pool # << >>, h.pool = Tail(g.pool)
  PROVE  CommitJobs(h) \subseteq CommitJobs(g) /\ Cleanups(h) \subseteq Cleanups(g)
<1>1. /\ DOMAIN g.pool = 1..Len(g.pool) /\ Len(g.pool) \in Nat \ {0} /\ DOMAIN h.pool = 1..(Len(g.pool) - 1)
      /\ \A i \in 1..(Len(g.pool) - 1) : h.pool[i] = g.pool[i + 1]
  OBVIOUS
<1>2. \A i \in DOMAIN h.pool : i + 1 \in DOMAIN g.pool /\ h.pool[i] = g.pool[i + 1]
  BY <1>1
<1>3. CommitJobs(h) \subseteq CommitJobs(g)
  <2> SUFFICES ASSUME NEW i \in DOMAIN h.pool, h.pool[i].kind = "commit", h.pool[i].live
               PROVE  h.pool[i] \in CommitJobs(g)
    BY DEF CommitJobs
  <2> QED  BY <1>2 DEF CommitJobs
<1>4. Cleanups(h) \subseteq Cleanups(g)
  <2> SUFFICES ASSUME NEW i \in DOMAIN h.pool, h.pool[i].kind = "cleanup"
               PROVE  h.pool[i] \in Cleanups(g)
    BY DEF Cleanups
  <2> QED  BY <1>2 DEF Cleanups
<1> QED  BY <1>3, <1>4

\* What the executor leaves on the line: nothing but its answer, if its job counted.
LEMMA ExecutorLine ==
  ASSUME NEW g, NEW h, Good(g), OneLine(g), g.pool # << >>, h.pool = Tail(g.pool), Head(g.pool).kind # "cleanup",
         h.auto = g.auto, NEW x, h.calls \subseteq g.calls \cup (IF Head(g.pool).live THEN {x} ELSE {})
  PROVE  /\ OneLine(h)
         /\ Head(g.pool).live => CommitJobs(h) = {} /\ Adoptions(g) = {}
         /\ ~Head(g.pool).live => Adoptions(h) \subseteq Adoptions(g)
<1>1. g.pool \in Seq(Jobs)
  BY Parts DEF Good
<1>2. /\ Head(g.pool).live => Working(h) = {} /\ Answers(g) = {} /\ g.auto.busy
      /\ \A i, j \in Working(h) : i = j
      /\ Working(h) # {} => Working(g) # {}
  BY <1>1, TailLine
<1>3. CASE Head(g.pool).live
  <2>1. Answers(h) \subseteq {x}
    BY <1>2, <1>3 DEF Answers
  <2>2. CommitJobs(h) = {}
    BY <1>2, <1>3 DEF CommitJobs, Working
  <2>3. Adoptions(g) = {}
    BY <1>2, <1>3 DEF Adoptions, Answers
  <2> QED  BY <1>2, <1>3, <2>1, <2>2, <2>3 DEF OneLine
<1>4. CASE ~Head(g.pool).live
  <2>1. Answers(h) \subseteq Answers(g) /\ Adoptions(h) \subseteq Adoptions(g)
    BY <1>4 DEF Answers, Adoptions
  <2> QED  BY <1>2, <1>4, <2>1 DEF OneLine
<1> QED  BY <1>3, <1>4

\* A job that no longer counts.
LEMMA OutdatedSettled ==
  ASSUME NEW g, NEW h, Good(g), Settled(g), g.pool # << >>, h.pool = Tail(g.pool), Head(g.pool).kind # "cleanup",
         ~Head(g.pool).live, h.auto = g.auto, h.calls = g.calls, h.deck = g.deck, h.row = g.row, h.coord = g.coord,
         h.commits = g.commits, h.tr = g.tr
  PROVE  Settled(h)
<1>1. g.pool \in Seq(Jobs) /\ OneLine(g) /\ MixesOut(g)
  BY Parts DEF Good, Settled
<1>2. OneLine(h) /\ Adoptions(h) \subseteq Adoptions(g)
  BY <1>1, ExecutorLine
<1>3. Kept(g, h)
  BY <1>1, <1>2, TailJobs, KeptBeside
<1>4. MixesOut(h)
  BY <1>1, MixesBeside
<1> QED  BY <1>2, <1>3, <1>4, SettledKept

\* Rows of titles that are nowhere may change as they like.
LEMMA ElsewhereLedger ==
  ASSUME NEW g, NEW h, Good(g), Ledger(g), h.deck = g.deck, h.coord = g.coord, h.commits = g.commits,
         CommitJobs(h) = {}, Cleanups(h) \subseteq Cleanups(g), Adopting(h),
         \A t \in Titles : (\E d \in Decks : g.deck[d].title = t) \/ g.coord[t].cleanup # "none" => h.row[t] = g.row[t]
  PROVE  Ledger(h)
<1>1. Loaded(h)
  BY DEF Ledger, Loaded
<1>2. Committing(h)
  BY DEF Committing
<1>3. MixedOut(h)
  BY DEF Ledger, MixedOut
<1>4. MixedEnds(h) = MixedEnds(g)
  BY DEF MixedEnds
<1>5. Awaited(h)
  BY <1>4 DEF Ledger, Awaited
<1> QED  BY <1>1, <1>2, <1>3, <1>5 DEF Ledger

LEMMA PrepareSettled ==
  ASSUME Good(G), Settled(G), Prepare
  PROVE  Settled(G')
<1> DEFINE r == Reconciled(row)
           free == {d \in Decks \ auto.suppressed : deck[d].title = Nothing /\ deck[d].backend # "playing"}
           t == CHOOSE x \in Waiting(r) : \A y \in Waiting(r) : x <= y
           d == FirstOf(free)
           outcome == IF ~Head(pool).live THEN {}
                      ELSE IF free = {} \/ Waiting(r) = {} THEN {Call("missed", Nothing, NoDeck)}
                      ELSE IF Assigned(r, d) # {} THEN {Call("failed", t, d)} ELSE {Call("adopt", t, d)}
           x == IF free = {} \/ Waiting(r) = {} THEN Call("missed", Nothing, NoDeck)
                ELSE IF Assigned(r, d) # {} THEN Call("failed", t, d) ELSE Call("adopt", t, d)
           adopts == free # {} /\ Waiting(r) # {} /\ Assigned(r, d) = {}
           h == G'
<1>1. /\ pool # << >> /\ Head(pool).kind = "prepare" /\ pool' = Tail(pool) /\ calls' = calls \cup outcome
      /\ row' = IF ~Head(pool).live THEN row
                ELSE IF outcome = {Call("adopt", t, d)}
                     THEN [r EXCEPT ![t] = [status |-> "preparing", deck |-> d]] ELSE r
      /\ UNCHANGED <<deck, tr, auto, commits, coord>>
  BY DEF Prepare
<1>2. row \in [Titles -> Assignments] /\ r \in [Titles -> Assignments] /\ auto \in Autos
  BY GParts, ReconciledIs
<1>3. \A q \in Titles : r[q] = row[q] \/ (row[q].status = "ready" /\ deck[row[q].deck].title # q
                                          /\ r[q] = [status |-> "waiting", deck |-> NoDeck])
  BY <1>2, ReconciledIs
<1>4. Waiting(r) # {} => t \in Titles /\ r[t].status = "waiting"
  BY FirstWaiting DEF Waiting
<1>5. free # {} => d \in Decks /\ deck[d].title = Nothing
  BY FirstIs
<1>6. /\ outcome = IF Head(pool).live THEN {x} ELSE {}
      /\ x.kind = "adopt" => adopts
      /\ adopts => x = Call("adopt", t, d)
      /\ ~adopts => x # Call("adopt", t, d)
  BY DEF Call
<1>7. Assigned(r, d) = {} => \A q \in Titles : r[q] # [status |-> "playing", deck |-> d]
  BY DEF Assigned
<1>8. /\ h.deck = G.deck /\ h.coord = G.coord /\ h.commits = G.commits /\ h.auto = G.auto /\ h.tr = G.tr
      /\ h.pool = Tail(G.pool) /\ G.pool # << >> /\ Head(G.pool).kind # "cleanup"
      /\ h.calls = G.calls \cup outcome /\ G.pool = pool /\ G.row = row /\ G.deck = deck /\ h.row = row'
  BY <1>1, GIs, GIsNext
<1>9. Head(pool).live => h.row = IF adopts THEN [r EXCEPT ![t] = [status |-> "preparing", deck |-> d]] ELSE r
  <2>1. Head(pool).live => (outcome = {Call("adopt", t, d)} <=> adopts)
    <3> HIDE DEF outcome, x, adopts, t, d
    <3> QED  BY <1>6
  <2> QED  BY <1>1, <1>8, <2>1
<1> HIDE DEF h, r, t, d, free, outcome, x
<1>10. Ledger(G) /\ OneLine(G) /\ MixesOut(G) /\ G.pool \in Seq(Jobs)
  BY Parts DEF Settled, Good
<1>11. CASE ~Head(pool).live
  <2>1. h.calls = G.calls /\ h.row = G.row
    BY <1>1, <1>6, <1>8, <1>11
  <2>2. Settled(h)
    BY <1>8, <1>11, <2>1, OutdatedSettled
  <2> QED  BY <2>2 DEF h
<1>12. CASE Head(pool).live
  <2>1. OneLine(h) /\ CommitJobs(h) = {} /\ Adoptions(G) = {}
    BY <1>6, <1>8, <1>10, <1>12, ExecutorLine
  <2>2. Cleanups(h) \subseteq Cleanups(G)
    BY <1>8, <1>10, TailJobs
  <2>3. ASSUME NEW q \in Titles, (\E y \in Decks : G.deck[y].title = q) \/ G.coord[q].cleanup # "none"
        PROVE  r[q] = G.row[q] /\ G.row[q].status # "waiting"
    <3>1. CASE G.coord[q].cleanup # "none"
      <4>1. G.row[q].status \notin {"waiting", "ready"}
        BY <1>10, <3>1 DEF Ledger, MixedOut
      <4> QED  BY <1>3, <1>8, <4>1
    <3>2. ASSUME NEW y \in Decks, G.deck[y].title = q
          PROVE  r[q] = G.row[q] /\ G.row[q].status # "waiting"
      <4>1. G.row[q].status # "waiting" /\ (G.row[q].status = "ready" => G.row[q].deck = y)
        BY <1>10, <3>2 DEF Ledger, Loaded
      <4> QED  BY <1>3, <1>8, <3>2, <4>1
    <3> QED  BY <2>3, <3>1, <3>2
  <2>4. Waiting(r) # {} => G.coord[t].cleanup = "none" /\ \A y \in Decks : G.deck[y].title # t
    BY <1>4, <2>3
  <2>5. \A q \in Titles : (\E y \in Decks : G.deck[y].title = q) \/ G.coord[q].cleanup # "none" => h.row[q] = G.row[q]
    <3>1. ASSUME NEW q \in Titles, (\E y \in Decks : G.deck[y].title = q) \/ G.coord[q].cleanup # "none"
          PROVE  h.row[q] = G.row[q]
      <4>1. r[q] = G.row[q]
        BY <2>3, <3>1
      <4>2. Waiting(r) # {} => q # t
        BY <2>4, <3>1
      <4> QED  BY <1>2, <1>9, <1>12, <4>1, <4>2
    <3> QED  BY <3>1
  <2>6. Adopting(h)
    <3> SUFFICES ASSUME NEW c \in Adoptions(h)
                 PROVE  /\ h.deck[c.deck].title = Nothing /\ h.coord[c.title].cleanup = "none"
                        /\ \A y \in Decks : h.deck[y].title # c.title
                        /\ h.row[c.title].status \notin {"waiting", "ready", "playing"} /\ h.row[c.title].deck \in {c.deck, NoDeck}
                        /\ \A q \in Titles : h.row[q] # [status |-> "playing", deck |-> c.deck]
      BY DEF Adopting
    <3>1. c = x /\ x.kind = "adopt"
      BY <1>6, <1>8, <1>12, <2>1 DEF Adoptions
    <3>2. adopts /\ c.title = t /\ c.deck = d
      BY <1>6, <3>1 DEF Call
    <3>3. /\ t \in Titles /\ d \in Decks /\ deck[d].title = Nothing /\ Assigned(r, d) = {} /\ Waiting(r) # {}
      BY <1>4, <1>5, <3>2
    <3>4. h.row[t] = [status |-> "preparing", deck |-> d] /\ \A q \in Titles : q # t => h.row[q] = r[q]
      BY <1>2, <1>9, <1>12, <3>2, <3>3
    <3>5. \A q \in Titles : h.row[q] # [status |-> "playing", deck |-> d]
      BY <1>7, <3>3, <3>4
    <3> QED  BY <1>8, <2>4, <3>2, <3>3, <3>4, <3>5
  <2>7. Ledger(h)
    BY <1>8, <1>10, <2>1, <2>2, <2>5, <2>6, ElsewhereLedger
  <2>8. MixesOut(h)
    BY <1>8, <1>10, MixesBeside
  <2>9. Settled(h)
    BY <2>1, <2>7, <2>8 DEF Settled
  <2> QED  BY <2>9 DEF h
<1> QED  BY <1>11, <1>12
----------------------------------------------------------------------------
\* A preload is committed: its title is offered on the deck that has loaded it, and what else
\* the deck was assigned ends.
LEMMA PreloadedLedger ==
  ASSUME NEW g, NEW h, Good(g), Ledger(g), h.deck = g.deck, h.coord = g.coord, h.commits = g.commits,
         CommitJobs(h) = {}, Adoptions(h) = {}, Cleanups(h) \subseteq Cleanups(g), NEW t \in Titles, NEW d \in Decks,
         g.coord[t].cleanup = "none", g.deck[Other(d)].title # t,
         g.deck[d].title = t => g.deck[d].entry = t /\ g.deck[d].phase = "loaded",
         \A u \in Titles : KeptRow(g, h, u) \/ (u = t /\ h.row[t] = [status |-> "ready", deck |-> d])
  PROVE  Ledger(h)
<1>1. MixedEnds(h) = MixedEnds(g)
  BY DEF MixedEnds
<1>2. Loaded(g) /\ MixedOut(g) /\ Awaited(g) /\ t # Nothing /\ g.coord[t].cleanup = "none"
  BY Constants DEF Ledger
<1>3. Loaded(h)
  <2> SUFFICES ASSUME NEW y \in Decks, NEW x \in Titles, h.deck[y].title = x
               PROVE  /\ h.deck[Other(y)].title # x /\ h.coord[x].cleanup = "none"
                      /\ h.row[x].status # "waiting" /\ h.row[x].deck \in {y, NoDeck}
                      /\ h.row[x].status = "ready" => h.row[x].deck = y
                      /\ h.deck[y].phase \in {"playing", "paused", "finished"} /\ ~h.deck[y].muted => h.row[x].status # "ready"
                      /\ h.deck[y].entry = Nothing => h.row[x].status \notin {"ready", "playing"}
    BY DEF Loaded
  <2>1. /\ g.deck[Other(y)].title # x /\ g.coord[x].cleanup = "none"
        /\ g.row[x].status # "waiting" /\ g.row[x].deck \in {y, NoDeck}
        /\ g.row[x].status = "ready" => g.row[x].deck = y
        /\ g.deck[y].phase \in {"playing", "paused", "finished"} /\ ~g.deck[y].muted => g.row[x].status # "ready"
        /\ g.deck[y].entry = Nothing => g.row[x].status \notin {"ready", "playing"}
    BY <1>2 DEF Loaded
  <2>2. CASE KeptRow(g, h, x)
    BY <2>1, <2>2 DEF KeptRow
  <2>3. CASE x = t /\ h.row[t] = [status |-> "ready", deck |-> d]
    <3>1. y = d
      <4>1. Other(d) = y \/ y = d
        BY Constants DEF Other, Decks
      <4> QED  BY <2>3, <4>1
    <3>2. /\ h.row[x].status = "ready" /\ h.row[x].deck = d /\ g.deck[y].entry = t /\ g.deck[y].phase = "loaded"
      BY <2>3, <3>1
    <3> QED  BY <1>2, <2>1, <2>3, <3>1, <3>2
  <2> QED  BY <2>2, <2>3
<1>4. Adopting(h) /\ Committing(h)
  BY DEF Adopting, Committing
<1>5. MixedOut(h)
  <2> SUFFICES ASSUME NEW u \in Titles, h.coord[u].cleanup # "none"
               PROVE  /\ h.row[u].status \notin {"waiting", "ready"}
                      /\ h.coord[u].commit = "ok" => h.row[u].status # "playing"
                      /\ h.row[u] = [status |-> "playing", deck |-> h.coord[u].deck] =>
                           /\ h.deck[h.coord[u].deck].title = Nothing
                           /\ h.coord[u].cleanup = "ok" => h.deck[h.coord[u].deck].backend = "silent"
    BY DEF MixedOut
  <2>1. KeptRow(g, h, u) /\ g.coord[u].cleanup # "none"
    BY <1>2
  <2>2. /\ g.row[u].status \notin {"waiting", "ready"}
        /\ g.coord[u].commit = "ok" => g.row[u].status # "playing"
        /\ g.row[u] = [status |-> "playing", deck |-> g.coord[u].deck] =>
             /\ g.deck[g.coord[u].deck].title = Nothing
             /\ g.coord[u].cleanup = "ok" => g.deck[g.coord[u].deck].backend = "silent"
    BY <1>2, <2>1 DEF MixedOut
  <2> QED  BY <2>1, <2>2 DEF KeptRow
<1>6. Awaited(h)
  BY <1>1, <1>2 DEF Awaited
<1> QED  BY <1>3, <1>4, <1>5, <1>6 DEF Ledger

LEMMA CommitPreloadSettled ==
  ASSUME Good(G), Settled(G), CommitPreload
  PROVE  Settled(G')
<1> DEFINE job == Head(pool)
           others == Assigned(row, job.deck) \ {q \in Titles : row[q].status = "preparing"}
           x == Call("followup", Nothing, NoDeck)
           h == G'
<1>1. /\ pool # << >> /\ job.kind = "commit" /\ pool' = Tail(pool)
      /\ calls' = calls \cup (IF job.live THEN {x} ELSE {})
      /\ ~job.live => row' = row
      /\ job.live => row' = [t \in Titles |->
                               IF t = job.title /\ row[t].status = "preparing" THEN [status |-> "ready", deck |-> job.deck]
                               ELSE IF t \in others \ {job.title} THEN [status |-> "skipped", deck |-> NoDeck]
                               ELSE row[t]]
      /\ UNCHANGED <<deck, tr, auto, commits, coord>>
  BY DEF CommitPreload
<1>2. job \in Jobs /\ job.title \in Titles /\ job.deck \in Decks
  BY <1>1, PoolTail DEF Jobs
<1>3. x.kind # "adopt"
  BY DEF Call
<1>4. /\ h.deck = G.deck /\ h.coord = G.coord /\ h.commits = G.commits /\ h.auto = G.auto /\ h.tr = G.tr
      /\ h.pool = Tail(G.pool) /\ G.pool # << >> /\ Head(G.pool).kind # "cleanup"
      /\ h.calls = G.calls \cup (IF job.live THEN {x} ELSE {}) /\ G.pool = pool /\ G.row = row /\ G.deck = deck
      /\ h.row = row' /\ Head(G.pool) = job
  BY <1>1, GIs, GIsNext
<1>5. Ledger(G) /\ OneLine(G) /\ MixesOut(G) /\ G.pool \in Seq(Jobs)
  BY Parts DEF Settled, Good
<1>6. job \in CommitJobs(G) \/ ~job.live
  <2>1. 1 \in DOMAIN G.pool /\ G.pool[1] = job
    BY <1>4, <1>5
  <2> QED  BY <1>1, <2>1 DEF CommitJobs
<1> HIDE DEF h, x, job
<1>7. CASE ~job.live
  <2>1. h.calls = G.calls /\ h.row = G.row
    BY <1>1, <1>4, <1>7
  <2>2. Settled(h)
    BY <1>4, <1>7, <2>1, OutdatedSettled
  <2> QED  BY <2>2 DEF h
<1>8. CASE job.live
  <2>1. OneLine(h) /\ CommitJobs(h) = {} /\ Adoptions(G) = {}
    BY <1>4, <1>5, <1>8, ExecutorLine
  <2>2. Cleanups(h) \subseteq Cleanups(G)
    BY <1>4, <1>5, TailJobs
  <2>3. Adoptions(h) = {}
    BY <1>3, <1>4, <1>8, <2>1 DEF Adoptions
  <2>4. /\ G.coord[job.title].cleanup = "none" /\ G.deck[Other(job.deck)].title # job.title
        /\ G.deck[job.deck].title = job.title => G.deck[job.deck].entry = job.title /\ G.deck[job.deck].phase = "loaded"
    BY <1>5, <1>6, <1>8 DEF Ledger, Committing
  <2>5. \A u \in Titles : KeptRow(G, h, u) \/ (u = job.title /\ h.row[job.title] = [status |-> "ready", deck |-> job.deck])
    <3> SUFFICES ASSUME NEW u \in Titles
                 PROVE  KeptRow(G, h, u) \/ (u = job.title /\ h.row[job.title] = [status |-> "ready", deck |-> job.deck])
      OBVIOUS
    <3>1. h.row[u] = IF u = job.title /\ row[u].status = "preparing" THEN [status |-> "ready", deck |-> job.deck]
                     ELSE IF u \in others \ {job.title} THEN [status |-> "skipped", deck |-> NoDeck]
                     ELSE row[u]
      BY <1>1, <1>4, <1>8
    <3> HIDE DEF others
    <3> QED  BY <1>4, <3>1 DEF KeptRow
  <2>6. Ledger(h)
    BY Zenon, <1>2, <1>4, <1>5, <2>1, <2>2, <2>3, <2>4, <2>5, PreloadedLedger
  <2>7. MixesOut(h)
    BY <1>4, <1>5, MixesBeside
  <2>8. Settled(h)
    BY <2>1, <2>6, <2>7 DEF Settled
  <2> QED  BY <2>8 DEF h
<1> QED  BY <1>7, <1>8
----------------------------------------------------------------------------
(* The coordinator of a title that was mixed out.                          *)

LEMMA CoordinatedDoes ==
  ASSUME NEW g, Good(g), NEW t \in 1..Library
  PROVE  LET h == Coordinated(g, t)
         IN  /\ \A u \in 1..Library : u # t => h.coord[u] = g.coord[u]
             /\ h.coord[t].deck = g.coord[t].deck /\ h.coord[t].cleanup = g.coord[t].cleanup
             /\ h.coord[t].commit = g.coord[t].commit
             /\ h.coord[t].published => g.coord[t].published \/ (g.coord[t].cleanup = "ok" /\ g.coord[t].commit = "ok")
<1> DEFINE x == [g.coord[t] EXCEPT !.published = TRUE]
           k == [g.coord EXCEPT ![t] = x]
           c == g.calls \cup {Call("autoload", t, g.coord[t].deck)}
           due == ~g.coord[t].published /\ g.coord[t].cleanup = "ok" /\ g.coord[t].commit = "ok"
           h == Coordinated(g, t)
<1>1. g \in Conditions /\ g.coord \in [1..Library -> Coords] /\ g.coord[t] \in Coords
  BY Parts DEF Good
<1>2. x.deck = g.coord[t].deck /\ x.cleanup = g.coord[t].cleanup /\ x.commit = g.coord[t].commit
  BY <1>1 DEF Coords
<1>3. Coordinated(g, t) = IF due THEN [[g EXCEPT !.coord = k] EXCEPT !.calls = c] ELSE g
  BY <1>1 DEF Coordinated, Conditions
<1> HIDE DEF x, c
<1>4. due => h.coord = k
  BY <1>1, <1>3 DEF Conditions
<1>5. k[t] = x /\ \A u \in 1..Library : u # t => k[u] = g.coord[u]
  BY <1>1
<1>6. ~due => h = g
  BY <1>3
<1> HIDE DEF h, k
<1>7. CASE due
  BY <1>2, <1>4, <1>5, <1>7 DEF h
<1>8. CASE ~due
  BY <1>6, <1>8 DEF h
<1> QED  BY <1>7, <1>8

LEMMA ReportsIs ==
  ASSUME NEW g, Good(g), NEW t \in 1..Library, NEW part \in {"cleanup", "commit"}, NEW result \in {"ok", "failed"}
  PROVE  Reports(g, Reported(g, t, part, result), t, part, result)
<1> DEFINE x == [g.coord[t] EXCEPT ![part] = result]
           k == [g.coord EXCEPT ![t] = x]
           y == [g EXCEPT !.coord = k]
           h == Reported(g, t, part, result)
<1>1. g \in Conditions /\ g.coord \in [1..Library -> Coords] /\ g.coord[t] \in Coords /\ g.calls \in SUBSET Calls
  BY Parts DEF Good
<1>2. Reporting(g, h)
  BY ReportedIs
<1>3. h.coord \in [1..Library -> Coords]
  <2>1. Good(h)
    BY <1>2 DEF Reporting
  <2> HIDE DEF h
  <2> QED  BY <2>1, Parts DEF Good
<1>4. CASE g.coord[t][part] # "open"
  <2>1. h = g
    BY <1>4 DEF Reported
  <2> HIDE DEF h
  <2> QED  BY <1>2, <1>3, <2>1 DEF h, Reports
<1>5. CASE g.coord[t][part] = "open"
  <2>1. /\ x.cleanup = IF part = "cleanup" THEN result ELSE g.coord[t].cleanup
        /\ x.commit = IF part = "commit" THEN result ELSE g.coord[t].commit
        /\ x.deck = g.coord[t].deck /\ x.published = g.coord[t].published /\ x \in Coords
    <3>1. CASE part = "cleanup"
      <4>1. x = [g.coord[t] EXCEPT !.cleanup = result] /\ g.coord[t].cleanup = "open"
        BY <1>5, <3>1
      <4>2. /\ x \in [cleanup : Results, commit : Results, published : BOOLEAN, live : BOOLEAN, deck : SomeDeck]
            /\ x.deck = g.coord[t].deck /\ g.coord[t].deck \in Decks /\ x.cleanup = result
            /\ x.commit = g.coord[t].commit /\ x.published = g.coord[t].published
        BY <1>1, <4>1 DEF Coords, Results
      <4> HIDE DEF x
      <4> QED  BY <3>1, <4>2 DEF Coords
    <3>2. CASE part = "commit"
      <4>1. x = [g.coord[t] EXCEPT !.commit = result] /\ g.coord[t].commit = "open"
        BY <1>5, <3>2
      <4>2. /\ x \in [cleanup : Results, commit : Results, published : BOOLEAN, live : BOOLEAN, deck : SomeDeck]
            /\ x.deck = g.coord[t].deck /\ g.coord[t].deck \in Decks /\ x.commit = result
            /\ x.cleanup = g.coord[t].cleanup /\ x.published = g.coord[t].published
        BY <1>1, <4>1 DEF Coords, Results
      <4> HIDE DEF x
      <4> QED  BY <3>2, <4>2 DEF Coords
    <3> QED  BY <3>1, <3>2
  <2>2. h = Coordinated(y, t)
    BY <1>1, <1>5 DEF Reported, Conditions
  <2> HIDE DEF h, x
  <2>3. k \in [1..Library -> Coords] /\ k[t] = x /\ \A u \in 1..Library : u # t => k[u] = g.coord[u]
    BY <1>1, <2>1
  <2> HIDE DEF k
  <2>4. y = [[g EXCEPT !.coord = k] EXCEPT !.calls = g.calls] /\ y.coord = k
    BY <1>1 DEF Conditions
  <2> HIDE DEF y
  <2>5. Good(y)
    BY <1>1, <2>3, <2>4, CoordChanges DEF Reporting
  <2>6. /\ \A u \in 1..Library : u # t => h.coord[u] = y.coord[u]
        /\ h.coord[t].deck = y.coord[t].deck /\ h.coord[t].cleanup = y.coord[t].cleanup
        /\ h.coord[t].commit = y.coord[t].commit
        /\ h.coord[t].published => y.coord[t].published \/ (y.coord[t].cleanup = "ok" /\ y.coord[t].commit = "ok")
    BY <2>2, <2>5, CoordinatedDoes
  <2>7. Reports(g, h, t, part, result)
    BY <1>2, <1>3, <1>5, <2>1, <2>3, <2>4, <2>6 DEF Reports
  <2> QED  BY <2>7 DEF h
<1> QED  BY <1>4, <1>5

LEMMA ReportSettled ==
  ASSUME NEW g, NEW h, Good(g), Settled(g), NEW t \in 1..Library, NEW part \in {"cleanup", "commit"},
         NEW result \in {"ok", "failed"}, Reports(g, h, t, part, result),
         part = "commit" /\ result = "ok" /\ t \in Titles => g.row[t].status # "playing",
         result = "ok" /\ t \in Titles /\ ((part = "cleanup" /\ g.coord[t].cleanup # "none") \/ g.coord[t].cleanup = "ok")
           => g.deck[g.coord[t].deck].backend = "silent"
  PROVE  Settled(h) /\ Good(h) /\ Published(g, h)
<1>1. /\ Reporting(g, h) /\ Good(h) /\ h.deck = g.deck /\ h.row = g.row /\ h.auto = g.auto /\ h.pool = g.pool
      /\ h.commits = g.commits /\ h.tr = g.tr
  BY DEF Reports, Reporting, Aside
<1>2. Answers(h) = Answers(g)
  BY <1>1 DEF Reporting, Answers
<1>3. Ledger(g) /\ OneLine(g) /\ MixesOut(g)
  BY DEF Settled
<1>4. Library \notin Titles /\ Titles \subseteq 1..Library
  BY Constants
<1>5. CASE h.coord = g.coord
  <2>1. Settled(h)
    BY <1>1, <1>2, <1>5, CallsSettled
  <2> QED  BY <1>1, <1>5, <2>1 DEF Published
<1>6. CASE h.coord # g.coord
  <2>1. /\ g.coord[t][part] = "open" /\ h.coord[t].deck = g.coord[t].deck
        /\ h.coord[t].cleanup = IF part = "cleanup" THEN result ELSE g.coord[t].cleanup
        /\ h.coord[t].commit = IF part = "commit" THEN result ELSE g.coord[t].commit
        /\ h.coord[t].published => g.coord[t].published \/ (h.coord[t].cleanup = "ok" /\ h.coord[t].commit = "ok")
        /\ \A u \in 1..Library : u # t => h.coord[u] = g.coord[u]
    BY <1>6 DEF Reports
  <2>2. part = "cleanup" => g.coord[t].cleanup = "open"
    BY <2>1
  <2>3. \A u \in Titles : h.coord[u].deck = g.coord[u].deck /\ (h.coord[u].cleanup = "none" <=> g.coord[u].cleanup = "none")
    BY <1>4, <2>1, <2>2
  <2>4. Loaded(h)
    BY <1>1, <1>3, <2>3 DEF Ledger, Loaded
  <2>5. Adopting(h)
    <3>1. Adoptions(h) = Adoptions(g) /\ \A c \in Adoptions(g) : c.title \in Titles
      BY <1>2, SameAnswers, LedgerTypes
    <3> QED  BY <1>1, <1>3, <2>3, <3>1 DEF Ledger, Adopting
  <2>6. Committing(h)
    <3>1. CommitJobs(h) = CommitJobs(g) /\ \A j \in CommitJobs(g) : j.title \in Titles
      <4>1. CommitJobs(h) = CommitJobs(g)
        BY <1>1 DEF CommitJobs
      <4> QED  BY <4>1, LedgerTypes
    <3> QED  BY <1>1, <1>3, <2>3, <3>1 DEF Ledger, Committing
  <2>7. Awaited(h)
    <3>1. Cleanups(h) = Cleanups(g) /\ MixedEnds(h) = MixedEnds(g) /\ \A e \in MixedEnds(g) : e[1] \in Titles
      <4>1. Cleanups(h) = Cleanups(g) /\ MixedEnds(h) = MixedEnds(g)
        BY <1>1 DEF Cleanups, MixedEnds
      <4> QED  BY <4>1, LedgerTypes
    <3> QED  BY <1>3, <2>3, <3>1 DEF Ledger, Awaited
  <2>8. MixedOut(h)
    <3> SUFFICES ASSUME NEW u \in Titles, h.coord[u].cleanup # "none"
                 PROVE  /\ h.row[u].status \notin {"waiting", "ready"}
                        /\ h.coord[u].commit = "ok" => h.row[u].status # "playing"
                        /\ h.row[u] = [status |-> "playing", deck |-> h.coord[u].deck] =>
                             /\ h.deck[h.coord[u].deck].title = Nothing
                             /\ h.coord[u].cleanup = "ok" => h.deck[h.coord[u].deck].backend = "silent"
      BY DEF MixedOut
    <3>1. /\ g.row[u].status \notin {"waiting", "ready"}
          /\ g.coord[u].commit = "ok" => g.row[u].status # "playing"
          /\ g.row[u] = [status |-> "playing", deck |-> g.coord[u].deck] =>
               /\ g.deck[g.coord[u].deck].title = Nothing
               /\ g.coord[u].cleanup = "ok" => g.deck[g.coord[u].deck].backend = "silent"
          /\ g.coord[u].cleanup # "none" /\ h.coord[u].deck = g.coord[u].deck
      BY <1>3, <2>3 DEF Ledger, MixedOut
    <3>2. h.coord[u].commit = "ok" => h.row[u].status # "playing"
      BY <1>1, <1>4, <2>1, <3>1
    <3>3. h.coord[u].cleanup = "ok" => g.coord[u].cleanup = "ok" \/ g.deck[g.coord[u].deck].backend = "silent"
      BY <1>4, <2>1, <3>1
    <3> QED  BY <1>1, <3>1, <3>2, <3>3
  <2>9. OneLine(h) /\ MixesOut(h)
    BY <1>1, <1>2, <1>3, SameLine, MixesBeside
  <2>10. Published(g, h)
    <3> SUFFICES ASSUME NEW u \in Titles, h.coord[u].published, ~g.coord[u].published
                 PROVE  h.row[u].status # "playing" /\ h.deck[g.coord[u].deck].backend # "playing"
      BY DEF Published
    <3>1. u = t /\ h.coord[t].cleanup = "ok" /\ h.coord[t].commit = "ok" /\ result = "ok"
      BY <1>4, <2>1
    <3>2. h.row[u].status # "playing"
      BY <2>8, <3>1 DEF MixedOut
    <3>3. g.deck[g.coord[t].deck].backend = "silent"
      BY <2>1, <2>2, <3>1
    <3> QED  BY <1>1, <3>1, <3>2, <3>3
  <2> QED  BY <1>1, <2>4, <2>5, <2>6, <2>7, <2>8, <2>9, <2>10 DEF Settled, Ledger
<1> QED  BY <1>5, <1>6
----------------------------------------------------------------------------
\* A step that publishes nothing, and one whose last part publishes.
LEMMA UnpublishedFirst ==
  ASSUME NEW g, NEW x, NEW h, x.coord = g.coord, Published(x, h)
  PROVE  Published(g, h)
BY DEF Published

LEMMA CleanupSettled ==
  ASSUME Good(G), Settled(G), Cleanup
  PROVE  Settled(G') /\ Published(G, G')
<1> DEFINE job == Head(pool)
           g == [G EXCEPT !.pool = Tail(@)]
           k == [g.deck[job.deck] EXCEPT !.backend = "silent"]
           x == [g EXCEPT !.deck[job.deck].backend = "silent"]
<1>1. /\ pool # << >> /\ job.kind = "cleanup"
      /\ Done(Reported(x, job.title, "cleanup", "ok")) \/ Done(Reported(g, job.title, "cleanup", "failed"))
  BY DEF Cleanup
<1>2. /\ pool \in Seq(Jobs) /\ job.deck \in Decks /\ job.title \in 1..Library /\ Tail(pool) \in Seq(Jobs)
      /\ Len(Tail(pool)) <= 2
  BY <1>1, PoolTail, GParts DEF Jobs
<1>3. /\ Aside(G, g) /\ Good(g) /\ g.deck = G.deck /\ g.row = G.row /\ g.auto = G.auto
      /\ g.pool = Tail(G.pool) /\ g.calls = G.calls /\ g.commits = G.commits /\ g.coord = G.coord /\ G.pool = pool
  <2>1. g = [G EXCEPT !.pool = Tail(pool)] /\ G.pool = pool
    BY GIs
  <2> DEFINE p == Tail(pool)
  <2>2. p \in Seq(Jobs) /\ Len(p) <= 2 /\ g = [G EXCEPT !.pool = p]
    BY <1>2, <2>1
  <2> HIDE DEF p, g
  <2>3. /\ Aside(G, g) /\ Good(g) /\ g.deck = G.deck /\ g.row = G.row /\ g.auto = G.auto
        /\ g.pool = p /\ g.calls = G.calls /\ g.commits = G.commits /\ g.coord = G.coord
    BY <2>2, PoolAside
  <2> QED  BY <2>1, <2>3 DEF p
<1>33. job \in Cleanups(G)
  <2>1. 1 \in DOMAIN G.pool /\ G.pool[1] = job
    BY <1>1, <1>2, <1>3
  <2> QED  BY <1>1, <2>1 DEF Cleanups
<1> HIDE DEF g, job
<1>4. Settled(g)
  <2>1. OneLine(G) /\ MixesOut(G) /\ G.pool # << >> /\ G.pool \in Seq(Jobs) /\ g.tr = G.tr
    BY <1>1, <1>2, <1>3 DEF Settled, Aside
  <2>2. OneLine(g)
    <3>1. /\ \A i, j \in Working(g) : i = j
          /\ Working(g) # {} => Working(G) # {}
      BY <1>3, <2>1, TailLine
    <3>2. Answers(g) = Answers(G)
      BY <1>3 DEF Answers
    <3> QED  BY <1>3, <2>1, <3>1, <3>2 DEF OneLine
  <2>3. CommitJobs(g) \subseteq CommitJobs(G) /\ Cleanups(g) \subseteq Cleanups(G)
    BY <1>3, <2>1, TailJobs
  <2>4. Adoptions(g) \subseteq Adoptions(G)
    BY <1>3 DEF Adoptions
  <2>5. Kept(G, g)
    BY <1>3, <2>3, <2>4, KeptBeside
  <2>6. MixesOut(g)
    BY <1>3, <2>1, MixesBeside
  <2> QED  BY <2>2, <2>5, <2>6, SettledKept
<1>5. g.deck[job.deck] \in DeckStates /\ g \in Conditions /\ g.deck \in [Decks -> DeckStates]
  BY <1>2, <1>3, DeckValue
<1>6. /\ k \in DeckStates /\ k.gated = g.deck[job.deck].gated /\ k.muted = g.deck[job.deck].muted
      /\ k.backend = "silent" /\ k.phase = g.deck[job.deck].phase /\ k.title = g.deck[job.deck].title
      /\ k.entry = g.deck[job.deck].entry
  BY <1>5, SilentDeck DEF Backends
<1>7. x = [g EXCEPT !.deck[job.deck] = k]
  BY <1>2, <1>5 DEF Conditions
<1> HIDE DEF k, x
<1>8. Redecked(g, job.deck, k, x)
  BY <1>2, <1>3, <1>6, <1>7, DeckChanges
<1>9. /\ Good(x) /\ x.tr = g.tr /\ x.deck = [g.deck EXCEPT ![job.deck] = k] /\ x.coord = G.coord
      /\ x.deck[job.deck].backend = "silent"
  BY <1>2, <1>3, <1>5, <1>6, <1>8 DEF Redecked, Aside
<1>10. Settled(x)
  <2>1. MixesOut(x)
    BY <1>2, <1>3, <1>4, <1>6, <1>9, MixesDeck DEF Settled
  <2> QED  BY <1>2, <1>3, <1>4, <1>6, <1>8, <2>1, RedeckedSettled
<1>11. job.title \in Titles => G.coord[job.title].deck = job.deck
  BY <1>33 DEF Settled, Ledger, Awaited
<1>12. CASE Done(Reported(x, job.title, "cleanup", "ok"))
  <2> DEFINE h == Reported(x, job.title, "cleanup", "ok")
             ok == "ok"
             part == "cleanup"
  <2>1. Reports(x, h, job.title, part, ok) /\ part \in {"cleanup", "commit"} /\ ok \in {"ok", "failed"}
    BY <1>2, <1>9, ReportsIs
  <2>2. part # "commit" /\ (job.title \in Titles => x.deck[x.coord[job.title].deck].backend = "silent")
    BY <1>9, <1>11
  <2>3. Done(h)
    BY <1>12
  <2> HIDE DEF h, part, ok
  <2>4. Settled(h) /\ Good(h) /\ Published(x, h)
    BY <1>2, <1>9, <1>10, <2>1, <2>2, ReportSettled
  <2>5. G' = h
    BY <2>3, <2>4, DoneIs DEF Good
  <2> QED  BY <1>9, <2>4, <2>5, UnpublishedFirst
<1>13. CASE Done(Reported(g, job.title, "cleanup", "failed"))
  <2> DEFINE h == Reported(g, job.title, "cleanup", "failed")
             failed == "failed"
             part == "cleanup"
  <2>1. Reports(g, h, job.title, part, failed) /\ part \in {"cleanup", "commit"} /\ failed \in {"ok", "failed"} /\ failed # "ok"
    BY <1>2, <1>3, ReportsIs
  <2>3. Done(h)
    BY <1>13
  <2> HIDE DEF h, part, failed
  <2>4. Settled(h) /\ Good(h) /\ Published(g, h)
    BY <1>2, <1>3, <1>4, <2>1, ReportSettled
  <2>5. G' = h
    BY <2>3, <2>4, DoneIs DEF Good
  <2> QED  BY <1>3, <2>4, <2>5, UnpublishedFirst
<1> QED  BY <1>1, <1>12, <1>13

LEMMA CommitSettled ==
  ASSUME Good(G), Settled(G), Commit
  PROVE  Settled(G') /\ Published(G, G')
<1> DEFINE job == Head(commits)
           g == [G EXCEPT !.commits = Tail(@)]
           due == job.live /\ row[job.title] = [status |-> "playing", deck |-> job.deck]
           v == [status |-> "played", deck |-> NoDeck]
           x == [g EXCEPT !.row[job.title] = v]
           r == [g.row EXCEPT ![job.title] = v]
           Report(h, result) == IF job.coord THEN Reported(h, job.title, "commit", result) ELSE h
<1>1. commits # << >> /\ ((due /\ Done(Report(x, "ok"))) \/ Done(Report(g, "failed")))
  <2>1. commits # << >>
    BY DEF Commit
  <2>2. Done(IF due THEN Report(x, "ok") ELSE Report(g, "failed")) \/ Done(Report(g, "failed"))
    BY DEF Commit
  <2> QED  BY <2>1, <2>2
<1>2. /\ job \in Ends /\ job.title \in 1..Library /\ job.title \in Titles /\ Tail(commits) \in Seq(Ends)
      /\ G \in Conditions /\ commits \in Seq(Ends)
  <2>1. job \in Ends /\ Tail(commits) \in Seq(Ends) /\ commits \in Seq(Ends)
    BY <1>1, GParts
  <2> QED  BY <2>1, Constants DEF Ends, Good
<1>22. job.coord => <<job.title, job.deck>> \in MixedEnds(G)
  <2>1. 1 \in DOMAIN G.commits /\ job = G.commits[1]
    BY <1>1, <1>2, GIs
  <2> QED  BY <2>1 DEF MixedEnds
<1> HIDE DEF job
<1>3. /\ Aside(G, g) /\ g.deck = G.deck /\ g.row = G.row /\ g.auto = G.auto /\ G.commits = commits
      /\ g.pool = G.pool /\ g.calls = G.calls /\ g.commits = Tail(commits) /\ g.coord = G.coord /\ g.tr = G.tr
  <2>1. g = [G EXCEPT !.commits = Tail(commits)]
    BY GIs
  <2> QED  BY <1>2, <2>1, GIs DEF Good, Aside, Conditions
<1> HIDE DEF g
<1>4. Good(g)
  BY <1>2, <1>3, AsideGood
<1>5. Settled(g)
  <2>1. ASSUME NEW i \in DOMAIN g.commits
        PROVE  i + 1 \in DOMAIN G.commits /\ g.commits[i] = G.commits[i + 1]
    BY <1>1, <1>2, <1>3, <2>1
  <2>2. MixedEnds(g) \subseteq MixedEnds(G)
    BY <2>1 DEF MixedEnds
  <2>3. /\ CommitJobs(g) = CommitJobs(G) /\ Cleanups(g) = Cleanups(G) /\ Adoptions(g) = Adoptions(G) /\ Answers(g) = Answers(G)
    BY <1>3 DEF CommitJobs, Cleanups, Adoptions, Answers
  <2>4. Kept(G, g)
    <3>1. \A d \in Decks : KeptDeck(G, g, d)
      BY <1>3 DEF KeptDeck
    <3>2. \A t \in Titles : KeptRow(G, g, t)
      BY <1>3 DEF KeptRow
    <3> QED  BY <1>3, <2>2, <2>3, <3>1, <3>2 DEF Kept
  <2>5. OneLine(g) /\ MixesOut(g)
    BY <1>3, <2>3, SameLine, MixesBeside DEF Settled
  <2> QED  BY <2>4, <2>5, SettledKept
<1>6. /\ r \in [Titles -> Assignments] /\ r[job.title] = v /\ \A q \in Titles : q # job.title => r[q] = g.row[q]
  <2>1. v \in Assignments
    BY DEF Assignments, Statuses, SomeDeck
  <2>2. g.row \in [Titles -> Assignments]
    BY <1>4, Parts DEF Good
  <2> QED  BY <1>2, <2>1, <2>2
<1>7. x = [g EXCEPT !.row = r]
  BY <1>4 DEF Good, Conditions
<1>72. v.status = "played" /\ v.deck = NoDeck
  OBVIOUS
<1> HIDE DEF r, x, v
<1>8. /\ Aside(g, x) /\ Good(x) /\ x.deck = g.deck /\ x.row = r /\ x.auto = g.auto
      /\ x.pool = g.pool /\ x.calls = g.calls /\ x.commits = g.commits
  BY <1>4, <1>6, <1>7, RowAside
<1>82. x.coord = g.coord /\ x.tr = g.tr
  BY <1>4, <1>7 DEF Good, Conditions
<1>9. Settled(x)
  <2>1. \A q \in Titles : KeptRow(g, x, q)
    BY <1>6, <1>72, <1>8 DEF KeptRow
  <2> QED  BY <1>4, <1>5, <1>8, <1>82, <2>1, RowSettled
<1>10. due /\ job.coord /\ G.coord[job.title].cleanup = "ok" => G.deck[G.coord[job.title].deck].backend = "silent"
  <2> SUFFICES ASSUME due, job.coord, G.coord[job.title].cleanup = "ok"
               PROVE  G.deck[G.coord[job.title].deck].backend = "silent"
    OBVIOUS
  <2>1. G.coord[job.title].deck = job.deck
    BY <1>22 DEF Settled, Ledger, Awaited
  <2>2. G.row[job.title] = [status |-> "playing", deck |-> G.coord[job.title].deck]
    BY <2>1, GIs
  <2> QED  BY <1>2, <2>2 DEF Settled, Ledger, MixedOut
<1>11. CASE due /\ Done(Report(x, "ok"))
  <2>1. CASE ~job.coord
    <3>1. Done(x)
      BY <1>11, <2>1
    <3>2. G' = x
      BY <1>8, <3>1, DoneIs DEF Good
    <3> QED  BY <1>3, <1>82, <1>9, <3>2 DEF Published
  <2>2. CASE job.coord
    <3> DEFINE h == Reported(x, job.title, "commit", "ok")
               ok == "ok"
               part == "commit"
    <3>1. Reports(x, h, job.title, part, ok) /\ part \in {"cleanup", "commit"} /\ ok \in {"ok", "failed"} /\ part # "cleanup"
      BY <1>2, <1>8, ReportsIs
    <3>2. Done(h)
      BY <1>11, <2>2
    <3>3. x.row[job.title].status # "playing" /\ (x.coord[job.title].cleanup = "ok" => x.deck[x.coord[job.title].deck].backend = "silent")
      BY <1>3, <1>6, <1>72, <1>8, <1>82, <1>10, <1>11, <2>2
    <3> HIDE DEF h, part, ok
    <3>4. Settled(h) /\ Good(h) /\ Published(x, h)
      BY <1>2, <1>8, <1>9, <3>1, <3>3, ReportSettled
    <3>5. G' = h
      BY <3>2, <3>4, DoneIs DEF Good
    <3>6. x.coord = G.coord
      BY <1>3, <1>82
    <3> QED  BY <3>4, <3>5, <3>6, UnpublishedFirst
  <2> QED  BY <2>1, <2>2
<1>12. CASE Done(Report(g, "failed"))
  <2>1. CASE ~job.coord
    <3>1. Done(g)
      BY <1>12, <2>1
    <3>2. G' = g
      BY <1>4, <3>1, DoneIs DEF Good
    <3> QED  BY <1>3, <1>5, <3>2 DEF Published
  <2>2. CASE job.coord
    <3> DEFINE h == Reported(g, job.title, "commit", "failed")
               failed == "failed"
               part == "commit"
    <3>1. Reports(g, h, job.title, part, failed) /\ part \in {"cleanup", "commit"} /\ failed \in {"ok", "failed"} /\ failed # "ok"
      BY <1>2, <1>4, ReportsIs
    <3>2. Done(h)
      BY <1>12, <2>2
    <3> HIDE DEF h, part, failed
    <3>4. Settled(h) /\ Good(h) /\ Published(g, h)
      BY <1>2, <1>4, <1>5, <3>1, ReportSettled
    <3>5. G' = h
      BY <3>2, <3>4, DoneIs DEF Good
    <3> QED  BY <1>3, <3>4, <3>5, UnpublishedFirst
  <2> QED  BY <2>1, <2>2
<1> QED  BY <1>1, <1>11, <1>12
----------------------------------------------------------------------------
(* Callbacks.                                                              *)

\* Nobody is on the line.
LEMMA OffLineSettled ==
  ASSUME NEW g, NEW h, Good(g), Settled(g), Working(g) = {}, Answers(g) = {}, h.deck = g.deck, h.row = g.row,
         h.coord = g.coord, h.commits = g.commits, h.pool = g.pool, h.calls = g.calls, h.tr = g.tr \/ h.tr = NoTransition
  PROVE  Settled(h)
<1>1. Kept(g, h) /\ Answers(h) = Answers(g) /\ Working(h) = Working(g)
  BY KeptSame
<1>2. OneLine(h)
  BY <1>1, NoLine
<1>3. MixesOut(h)
  BY MixesBeside, IdleMixes DEF Settled
<1> QED  BY <1>1, <1>2, <1>3, SettledKept

\* The prepared medium is on its deck, and its preload is committed next.
LEMMA AdoptedLedger ==
  ASSUME NEW g, NEW h, Good(g), Ledger(g), NEW t \in Titles, NEW d \in Decks, NEW k,
         h.deck = [g.deck EXCEPT ![d] = k], k.title = t, k.entry = t, k.phase = "loaded",
         h.row = g.row, h.coord = g.coord, h.commits = g.commits, Adoptions(h) = {}, Cleanups(h) \subseteq Cleanups(g),
         \A j \in CommitJobs(h) : j.title = t /\ j.deck = d,
         g.deck[d].title = Nothing, g.coord[t].cleanup = "none", \A x \in Decks : g.deck[x].title # t,
         g.row[t].status \notin {"waiting", "ready", "playing"}, g.row[t].deck \in {d, NoDeck},
         \A u \in Titles : g.row[u] # [status |-> "playing", deck |-> d]
  PROVE  Ledger(h)
<1>1. /\ h.deck[d] = k /\ \A x \in Decks : x # d => h.deck[x] = g.deck[x]
  <2>1. g.deck \in [Decks -> DeckStates]
    BY Parts DEF Good
  <2> QED  BY <2>1
<1>2. /\ Loaded(g) /\ MixedOut(g) /\ Awaited(g) /\ t # Nothing /\ Nothing \notin Titles
      /\ \A x \in Decks : Other(x) \in Decks /\ Other(x) # x /\ Other(Other(x)) = x
      /\ \A u \in Titles : g.coord[u] \in Coords
  BY LedgerTypes DEF Ledger
<1>3. Loaded(h)
  <2> SUFFICES ASSUME NEW y \in Decks, NEW x \in Titles, h.deck[y].title = x
               PROVE  /\ h.deck[Other(y)].title # x /\ h.coord[x].cleanup = "none"
                      /\ h.row[x].status # "waiting" /\ h.row[x].deck \in {y, NoDeck}
                      /\ h.row[x].status = "ready" => h.row[x].deck = y
                      /\ h.deck[y].phase \in {"playing", "paused", "finished"} /\ ~h.deck[y].muted => h.row[x].status # "ready"
                      /\ h.deck[y].entry = Nothing => h.row[x].status \notin {"ready", "playing"}
    BY DEF Loaded
  <2>1. CASE y = d
    <3>1. x = t /\ h.deck[Other(y)] = g.deck[Other(y)] /\ Other(y) \in Decks
      BY <1>1, <1>2, <2>1
    <3> QED  BY <2>1, <3>1
  <2>2. CASE y # d
    <3>1. h.deck[y] = g.deck[y] /\ g.deck[y].title = x /\ x # t
      BY <1>1, <2>2
    <3>2. /\ g.deck[Other(y)].title # x /\ g.coord[x].cleanup = "none"
          /\ g.row[x].status # "waiting" /\ g.row[x].deck \in {y, NoDeck}
          /\ g.row[x].status = "ready" => g.row[x].deck = y
          /\ g.deck[y].phase \in {"playing", "paused", "finished"} /\ ~g.deck[y].muted => g.row[x].status # "ready"
          /\ g.deck[y].entry = Nothing => g.row[x].status \notin {"ready", "playing"}
      BY <1>2, <3>1 DEF Loaded
    <3>3. h.deck[Other(y)].title # x
      BY <1>1, <1>2, <3>1, <3>2
    <3> QED  BY <3>1, <3>2, <3>3
  <2> QED  BY <2>1, <2>2
<1>4. Adopting(h)
  BY DEF Adopting
<1>5. Committing(h)
  <2>1. h.deck[Other(d)].title # t
    BY <1>1, <1>2
  <2> QED  BY <1>1, <2>1 DEF Committing
<1>6. MixedOut(h)
  <2> SUFFICES ASSUME NEW u \in Titles, h.coord[u].cleanup # "none"
               PROVE  /\ h.row[u].status \notin {"waiting", "ready"}
                      /\ h.coord[u].commit = "ok" => h.row[u].status # "playing"
                      /\ h.row[u] = [status |-> "playing", deck |-> h.coord[u].deck] =>
                           /\ h.deck[h.coord[u].deck].title = Nothing
                           /\ h.coord[u].cleanup = "ok" => h.deck[h.coord[u].deck].backend = "silent"
    BY DEF MixedOut
  <2>1. /\ g.row[u].status \notin {"waiting", "ready"}
        /\ g.coord[u].commit = "ok" => g.row[u].status # "playing"
        /\ g.row[u] = [status |-> "playing", deck |-> g.coord[u].deck] =>
             /\ g.deck[g.coord[u].deck].title = Nothing
             /\ g.coord[u].cleanup = "ok" => g.deck[g.coord[u].deck].backend = "silent"
    BY <1>2 DEF MixedOut
  <2>2. g.coord[u].deck \in Decks
    BY <1>2 DEF Coords
  <2>3. g.row[u] = [status |-> "playing", deck |-> g.coord[u].deck] => g.coord[u].deck # d
    OBVIOUS
  <2> QED  BY <1>1, <2>1, <2>2, <2>3
<1>7. Awaited(h)
  <2>1. MixedEnds(h) = MixedEnds(g)
    BY DEF MixedEnds
  <2> QED  BY <1>2, <2>1 DEF Awaited
<1> QED  BY <1>3, <1>4, <1>5, <1>6, <1>7 DEF Ledger

LEMMA AdoptSettled ==
  ASSUME NEW g, Good(g), Settled(g), Working(g) = {}, Answers(g) = {}, g.auto.busy, NEW c, c.title \in Titles, c.deck \in Decks,
         g.coord[c.title].cleanup = "none", \A x \in Decks : g.deck[x].title # c.title,
         g.row[c.title].deck \in {c.deck, NoDeck}, \A u \in Titles : g.row[u] # [status |-> "playing", deck |-> c.deck]
  PROVE  Settled(Adopt(g, c)) /\ Good(Adopt(g, c))
<1> DEFINE t == c.title
           d == c.deck
           z == Reset(g)
           b == [z.auto EXCEPT !.busy = FALSE]
           v == [z EXCEPT !.auto = b]
           k == [g.deck[d] EXCEPT !.title = t, !.entry = t, !.phase = "loaded", !.backend = "silent", !.gated = FALSE]
           x == [g EXCEPT !.deck[d] = k]
           j == Job("commit", t, d)
           h == Submit(x, j)
           refused == g.row[t].status # "preparing" \/ g.deck[d].title # Nothing \/ g.deck[d].backend = "playing"
<1>1. g \in Conditions /\ Ledger(g) /\ OneLine(g) /\ MixesOut(g) /\ t \in Titles /\ d \in Decks
  BY DEF Good, Settled
<1>2. Adopt(g, c) = IF refused THEN [z EXCEPT !.auto.busy = FALSE] ELSE h
  BY <1>1 DEF Adopt, Conditions
<1>3. j \in Jobs /\ j.kind = "commit" /\ j.title = t /\ j.deck = d
  BY <1>1, Constants DEF Jobs, Job, SomeDeck
<1> HIDE DEF j, t, d
<1>4. Good(z) /\ z \in Conditions /\ z.auto \in Autos /\ Ended(g, z) /\ Settled(z)
  BY ResetEnds, ResetSettled, Parts DEF Good
<1> HIDE DEF z
<1>5. b \in Autos /\ b.run = z.auto.run /\ b.gate = z.auto.gate
  BY <1>4 DEF Autos
<1>6. [z EXCEPT !.auto.busy = FALSE] = v
  BY <1>4 DEF Conditions
<1> HIDE DEF b
<1>7. /\ Aside(z, v) /\ Good(v) /\ v.deck = z.deck /\ v.row = z.row /\ v.auto = b
      /\ v.pool = z.pool /\ v.calls = z.calls /\ v.commits = z.commits /\ v.coord = z.coord
  BY <1>4, <1>5, AutoChanges
<1> HIDE DEF v
<1>8. Settled(v)
  <2>1. Working(z) = {} /\ Answers(z) = {}
    BY <1>4 DEF Ended, Elsewhere, Working, Answers
  <2> QED  BY <1>4, <1>7, <2>1, OffLineSettled DEF Aside
<1>9. CASE refused
  BY <1>2, <1>6, <1>7, <1>8, <1>9
<1>10. CASE ~refused
  <2>1. /\ g.deck[d] \in DeckStates /\ t \in 1..Library /\ t \in {Nothing, t} /\ t \in Nothing..N
        /\ g.deck[d].title = Nothing /\ g.row[t].status = "preparing"
    BY <1>1, <1>10, DeckValue, Constants
  <2>2. k \in DeckStates /\ k.gated = FALSE /\ k.muted = g.deck[d].muted
    BY ONLY Zenon, <2>1, LoadedDeck
  <2>3. k.phase = "loaded" /\ k.title = t /\ k.entry = t
    BY <2>1 DEF DeckStates
  <2> HIDE DEF k
  <2>4. Redecked(g, d, k, x)
    BY <1>1, <2>2, DeckChanges
  <2> HIDE DEF x
  <2>5. /\ Good(x) /\ x.tr = g.tr /\ x.auto = g.auto /\ x.pool = g.pool /\ x.deck = [g.deck EXCEPT ![d] = k]
        /\ x.calls = g.calls /\ x.row = g.row /\ x.commits = g.commits /\ x.coord = g.coord
    BY <2>4 DEF Redecked, Aside
  <2>6. /\ Good(h) /\ h.tr = g.tr /\ h.auto = g.auto /\ h.deck = [g.deck EXCEPT ![d] = k]
        /\ h.calls = g.calls /\ h.row = g.row /\ h.commits = g.commits /\ h.coord = g.coord
        /\ (h.pool = g.pool \/ h.pool = Append(g.pool, j))
    <3>1. Aside(x, h) /\ Good(h) /\ h.deck = x.deck /\ h.row = x.row /\ h.auto = x.auto /\ h.calls = x.calls
          /\ h.commits = x.commits /\ h.coord = x.coord
      BY <1>3, <2>5, SubmitAside, AsideGood
    <3>2. h.pool = x.pool \/ h.pool = Append(x.pool, j)
      BY <1>3, <2>5, SubmitPool
    <3> QED  BY <2>5, <3>1, <3>2 DEF Aside
  <2> HIDE DEF h
  <2>7. g.pool \in Seq(Jobs) /\ CommitJobs(g) = {}
    <3>1. g.pool \in Seq(Jobs)
      BY <1>1, Parts
    <3> QED  BY <3>1 DEF CommitJobs, Working
  <2>8. /\ \A q \in CommitJobs(h) : q.title = t /\ q.deck = d
        /\ Cleanups(h) \subseteq Cleanups(g) /\ \A i, q \in Working(h) : i = q
    <3>1. CASE h.pool = g.pool
      <4>1. CommitJobs(h) = {} /\ Cleanups(h) = Cleanups(g) /\ Working(h) = {}
        BY <2>7, <3>1 DEF CommitJobs, Cleanups, Working
      <4> QED  BY <4>1
    <3>2. CASE h.pool = Append(g.pool, j)
      <4>1. CommitJobs(h) \subseteq {j} /\ Cleanups(h) \subseteq Cleanups(g)
        BY <1>3, <2>7, <3>2, AppendJobs
      <4>2. \A i, q \in Working(h) : i = q
        BY <1>3, <2>7, <3>2, AppendLine
      <4> QED  BY <1>3, <4>1, <4>2
    <3> QED  BY <2>6, <3>1, <3>2
  <2>9. Answers(h) = {} /\ Adoptions(h) = {}
    BY <2>6 DEF Answers, Adoptions
  <2>10. OneLine(h)
    BY <2>6, <2>8, <2>9 DEF OneLine
  <2>11. Ledger(h)
    <3>1. /\ g.coord[t].cleanup = "none" /\ \A y \in Decks : g.deck[y].title # t
          /\ g.row[t].deck \in {d, NoDeck} /\ \A u \in Titles : g.row[u] # [status |-> "playing", deck |-> d]
      BY DEF t, d
    <3> QED  BY <1>1, <2>1, <2>3, <2>6, <2>8, <2>9, <3>1, AdoptedLedger
  <2>12. MixesOut(h)
    <3>1. g.tr.state # "idle" => g.tr.out \in Decks /\ g.tr.title # Nothing
      <4>1. g.tr.state # "idle" => g.tr \in Handovers
        BY IdleOrNot
      <4> QED  BY <4>1, Constants DEF Handovers
    <3>2. g.tr.state # "idle" => g.tr.out # d
      BY <1>1, <2>1, <3>1 DEF MixesOut
    <3>3. \A y \in Decks : y # d => h.deck[y] = g.deck[y]
      <4>1. g.deck \in [Decks -> DeckStates]
        BY <1>1, Parts
      <4> QED  BY <2>6, <4>1
    <3> QED  BY <1>1, <2>6, <3>1, <3>2, <3>3 DEF MixesOut
  <2>13. Settled(h)
    BY <2>10, <2>11, <2>12 DEF Settled
  <2> QED  BY <1>2, <1>10, <2>6, <2>13
<1> QED  BY <1>9, <1>10
----------------------------------------------------------------------------
LEMMA CallbackSettled ==
  ASSUME Good(G), Settled(G), Callback
  PROVE  Settled(G')
<1>1. PICK c \in calls, due \in BOOLEAN :
        LET g == [G EXCEPT !.calls = @ \ {c}]
        IN  Done(CASE c.kind = "finish" -> FinishDeck(g, c.deck)
                   [] c.kind = "refill" -> AutoLoad(g)
                   [] c.kind = "autoload" -> AutoloadIfCurrent(g, c)
                   [] c.kind = "adopt" -> Adopt(g, c)
                   [] c.kind = "failed" -> PreparationFailed(g, c)
                   [] c.kind = "missed" -> [g EXCEPT !.auto.busy = FALSE]
                   [] c.kind = "followup" -> AutoLoad(Playback([g EXCEPT !.auto.busy = FALSE], due)))
  BY DEF Callback
<1> DEFINE g == [G EXCEPT !.calls = @ \ {c}]
<1>2. /\ c \in Calls /\ Aside(G, g) /\ Good(g)
      /\ g.deck = G.deck /\ g.row = G.row /\ g.auto = G.auto /\ g.pool = G.pool /\ g.commits = G.commits
      /\ g.calls = calls \ {c} /\ G.calls = calls /\ g.coord = G.coord
  <2>1. g = [G EXCEPT !.calls = calls \ {c}]
    BY GIs
  <2>2. calls \ {c} \in SUBSET Calls /\ c \in Calls
    BY GParts
  <2> QED  BY <2>1, <2>2, CallsAside, GIs
<1> HIDE DEF g
<1>3. /\ g \in Conditions /\ g.auto \in Autos /\ g.row \in [Titles -> Assignments] /\ g.tr = G.tr
  BY <1>2, Parts DEF Good, Aside
<1>4. Answers(g) = Answers(G) \ {c} /\ Working(g) = Working(G) /\ Adoptions(g) \subseteq Adoptions(G)
      /\ CommitJobs(g) = CommitJobs(G) /\ Cleanups(g) = Cleanups(G)
  BY <1>2 DEF Answers, Working, Adoptions, CommitJobs, Cleanups
<1>5. Settled(g)
  <2>1. OneLine(g)
    BY <1>2, <1>4 DEF Settled, OneLine
  <2>2. Kept(G, g)
    BY <1>2, <1>4, KeptBeside
  <2>3. MixesOut(g)
    BY <1>2, <1>3, MixesBeside DEF Settled
  <2> QED  BY <2>1, <2>2, <2>3, SettledKept
<1>6. c.kind \in {"adopt", "failed", "missed", "followup"} =>
        Answers(g) = {} /\ Working(g) = {} /\ g.auto.busy
  <2>1. c.kind \in {"adopt", "failed", "missed", "followup"} => c \in Answers(G)
    BY <1>2 DEF Answers
  <2>2. c \in Answers(G) => Answers(g) = {} /\ Working(g) = {} /\ g.auto.busy
    BY <1>2, <1>4 DEF Settled, OneLine
  <2> QED  BY <2>1, <2>2
<1> DEFINE idle == [g EXCEPT !.auto.busy = FALSE]
           a == [g.auto EXCEPT !.busy = FALSE]
<1>7. /\ Aside(g, idle) /\ Good(idle) /\ idle.deck = g.deck /\ idle.row = g.row /\ idle.auto = a
      /\ idle.pool = g.pool /\ idle.calls = g.calls /\ idle.commits = g.commits /\ idle.coord = g.coord
      /\ idle.tr = g.tr
  <2>1. a \in Autos /\ a.run = g.auto.run /\ a.gate = g.auto.gate
    BY <1>3 DEF Autos
  <2>2. idle = [g EXCEPT !.auto = a]
    BY <1>3 DEF Conditions
  <2> HIDE DEF a, idle
  <2> QED  BY <1>2, <2>1, <2>2, AutoChanges DEF Aside
<1> HIDE DEF a, idle
<1>8. c.kind \in {"failed", "missed", "followup"} => Settled(idle)
  BY <1>2, <1>5, <1>6, <1>7, OffLineSettled
<1>9. CASE c.kind = "finish"
  <2>1. c.deck \in Decks /\ Done(FinishDeck(g, c.deck))
    BY <1>1, <1>2, <1>9 DEF Calls, g
  <2> QED  BY <1>2, <1>5, <2>1, FinishDeckSettled, SettledDone
<1>10. CASE c.kind = "refill"
  <2>1. Done(AutoLoad(g))
    BY <1>1, <1>10 DEF g
  <2> QED  BY <1>2, <1>5, <2>1, AutoLoadSettled, SettledDone
<1>11. CASE c.kind = "autoload"
  <2>1. Done(AutoloadIfCurrent(g, c))
    BY <1>1, <1>11 DEF g
  <2>2. AutoloadIfCurrent(g, c) \in {g, AutoLoad(g)}
    BY DEF AutoloadIfCurrent
  <2>3. Settled(AutoloadIfCurrent(g, c)) /\ Good(AutoloadIfCurrent(g, c))
    BY <1>2, <1>5, <2>2, AutoLoadSettled
  <2> QED  BY <2>1, <2>3, SettledDone
<1>12. CASE c.kind = "adopt"
  <2>1. c.title \in Titles /\ c.deck \in Decks /\ c \in Adoptions(G)
    BY <1>2, <1>12 DEF Calls, Adoptions
  <2>2. Done(Adopt(g, c))
    BY <1>1, <1>12 DEF g
  <2>3. /\ g.coord[c.title].cleanup = "none" /\ \A x \in Decks : g.deck[x].title # c.title
        /\ g.row[c.title].deck \in {c.deck, NoDeck} /\ \A u \in Titles : g.row[u] # [status |-> "playing", deck |-> c.deck]
    BY <1>2, <2>1 DEF Settled, Ledger, Adopting
  <2>4. Settled(Adopt(g, c)) /\ Good(Adopt(g, c))
    BY <1>2, <1>5, <1>6, <1>12, <2>1, <2>3, AdoptSettled
  <2> QED  BY <2>2, <2>4, SettledDone
<1>13. CASE c.kind = "failed"
  <2>1. c.title \in Titles
    BY <1>2, <1>13 DEF Calls
  <2>2. Done(PreparationFailed(g, c))
    BY <1>1, <1>13 DEF g
  <2> DEFINE v == IF g.row[c.title].status \in {"waiting", "preparing"} THEN [status |-> "failed", deck |-> NoDeck]
                  ELSE g.row[c.title]
             r == [g.row EXCEPT ![c.title] = v]
             x == [g EXCEPT !.auto.busy = FALSE, !.row[c.title] = v]
  <2>3. PreparationFailed(g, c) = AutoLoad(x)
    BY <1>3 DEF PreparationFailed, Conditions
  <2>4. x = [idle EXCEPT !.row = r]
    BY <1>3, <1>7 DEF Conditions, idle
  <2>5. r \in [Titles -> Assignments] /\ \A q \in Titles : r[q] = g.row[q] \/ r[q] = [status |-> "failed", deck |-> NoDeck]
    <3>1. [status |-> "failed", deck |-> NoDeck] \in Assignments
      BY DEF Assignments, Statuses, SomeDeck
    <3> QED  BY <1>3, <2>1, <3>1
  <2> HIDE DEF x, r, v
  <2>6. /\ Aside(idle, x) /\ Good(x) /\ x.deck = idle.deck /\ x.row = r /\ x.auto = idle.auto
        /\ x.pool = idle.pool /\ x.calls = idle.calls /\ x.commits = idle.commits /\ x.coord = idle.coord
    BY <1>7, <2>4, <2>5, RowAside
  <2>7. \A q \in Titles : KeptRow(idle, x, q)
    BY <1>7, <2>5, <2>6 DEF KeptRow
  <2>8. Settled(x)
    BY <1>7, <1>8, <1>13, <2>6, <2>7, RowSettled DEF Aside
  <2>9. Settled(AutoLoad(x)) /\ Good(AutoLoad(x))
    BY <2>6, <2>8, AutoLoadSettled
  <2> QED  BY <2>2, <2>3, <2>9, SettledDone
<1>14. CASE c.kind = "missed"
  <2>1. Done(idle)
    BY <1>1, <1>14 DEF g, idle
  <2> QED  BY <1>7, <1>8, <1>14, <2>1, SettledDone
<1>15. CASE c.kind = "followup"
  <2> DEFINE p == Playback(idle, due)
  <2>1. Done(AutoLoad(p))
    BY <1>1, <1>15 DEF g, idle
  <2>2. Settled(p) /\ Good(p)
    BY <1>7, <1>8, <1>15, PlaybackSettled, PlaybackGood
  <2> HIDE DEF p
  <2>3. Settled(AutoLoad(p)) /\ Good(AutoLoad(p))
    BY <2>2, AutoLoadSettled
  <2> QED  BY <2>1, <2>3, SettledDone
<1>16. c.kind \in {"finish", "refill", "autoload", "adopt", "failed", "missed", "followup"}
  BY <1>2 DEF Calls
<1> QED  BY <1>9, <1>10, <1>11, <1>12, <1>13, <1>14, <1>15, <1>16

LEMMA NextSettled ==
  ASSUME Good(G), Settled(G), Next
  PROVE  Settled(G')
<1>1. CASE StatusTick
  BY <1>1, StatusTickSettled
<1>2. CASE Poll \/ PollTimesOut \/ RenderTick \/ FinishTransition
  BY <1>2, TransitionCallsSettled
<1>3. CASE Callback
  BY <1>3, CallbackSettled
<1>4. CASE RampArms \/ RampWrites \/ RampWritesLate
  BY <1>4, RampSettled
<1>5. CASE Prepare \/ CommitPreload \/ Cleanup \/ Commit
  BY <1>5, PrepareSettled, CommitPreloadSettled, CleanupSettled, CommitSettled
<1>6. CASE (\E d \in Decks : BackendStarts(d) \/ TitleEnds(d)) \/ BackendNeverStarts \/ BackendLost
  BY <1>6, BackendsSettled
<1>7. CASE Operator
  BY <1>7, CommandSettled DEF Operator
<1> QED  BY <1>1, <1>2, <1>3, <1>4, <1>5, <1>6, <1>7 DEF Next

LEMMA InitSettled ==
  ASSUME Init
  PROVE  Settled(G)
<1>1. /\ tr = NoTransition /\ pool = << >> /\ calls = {} /\ commits = << >>
      /\ coord = [t \in Titles \cup {Library} |-> NoCoord]
      /\ row = [t \in Titles |-> CASE t = 1 -> [status |-> "playing", deck |-> "A"]
                                    [] t = 2 -> [status |-> "ready", deck |-> "B"]
                                    [] OTHER -> [status |-> "waiting", deck |-> NoDeck]]
  BY DEF Init
<1>2. /\ deck["A"].title = 1 /\ deck["A"].entry = 1
      /\ deck["B"].title = 2 /\ deck["B"].entry = 2 /\ deck["B"].phase = "loaded"
  BY Constants DEF Init
<1>3. /\ 1 \in Titles /\ 2 \in Titles /\ row[1] = [status |-> "playing", deck |-> "A"]
      /\ row[2] = [status |-> "ready", deck |-> "B"]
  BY <1>1, Constants
<1>4. \A t \in Titles : coord[t].cleanup = "none"
  BY <1>1 DEF NoCoord
<1>5. CommitJobs(G) = {} /\ Adoptions(G) = {} /\ Cleanups(G) = {} /\ MixedEnds(G) = {} /\ Working(G) = {} /\ Answers(G) = {}
  BY <1>1, GIs DEF CommitJobs, Adoptions, Cleanups, MixedEnds, Working, Answers
<1>6. Loaded(G)
  <2> SUFFICES ASSUME NEW d \in Decks, NEW t \in Titles, deck[d].title = t
               PROVE  /\ deck[Other(d)].title # t
                      /\ row[t].status # "waiting" /\ row[t].deck \in {d, NoDeck}
                      /\ row[t].status = "ready" => row[t].deck = d
                      /\ deck[d].phase \in {"playing", "paused", "finished"} /\ ~deck[d].muted => row[t].status # "ready"
                      /\ deck[d].entry = Nothing => row[t].status \notin {"ready", "playing"}
    BY <1>4, GIs DEF Loaded
  <2>1. CASE d = "A"
    BY <1>2, <1>3, <2>1, Constants DEF Other
  <2>2. CASE d = "B"
    BY <1>2, <1>3, <2>2, Constants DEF Other
  <2> QED  BY <2>1, <2>2 DEF Decks
<1>7. Ledger(G)
  BY <1>4, <1>5, <1>6, GIs DEF Ledger, Adopting, Committing, MixedOut, Awaited
<1> QED  BY <1>1, <1>5, <1>7, GIs, IdleMixes, NoLine DEF Settled
----------------------------------------------------------------------------
(* Only the coordinator publishes.                                         *)

LEMMA KeepsAgain ==
  ASSUME NEW g, NEW h, NEW k, Keeps(g, h), Keeps(h, k)
  PROVE  Keeps(g, k)
BY DEF Keeps

LEMMA KeepsSame ==
  ASSUME NEW g, NEW h, DOMAIN h = DOMAIN g, "coord" \in DOMAIN g => h.coord = g.coord
  PROVE  Keeps(g, h)
BY DEF Keeps

LEMMA KeepsPreload ==
  ASSUME NEW g
  PROVE  /\ Keeps(g, g) /\ Keeps(g, OutdatePreload(g)) /\ \A j : Keeps(g, Submit(g, j))
<1>1. Keeps(g, g)
  BY DEF Keeps
<1>2. Keeps(g, OutdatePreload(g))
  BY KeepsSame DEF OutdatePreload
<1>3. ASSUME NEW j PROVE Keeps(g, Submit(g, j))
  <2>1. Keeps(g, [g EXCEPT !.pool = Append(@, j)])
    BY KeepsSame
  <2> QED  BY <1>1, <2>1 DEF Submit
<1> QED  BY <1>1, <1>2, <1>3

LEMMA KeepsAutoLoad ==
  ASSUME NEW g
  PROVE  Keeps(g, AutoLoad(g))
<1> DEFINE o == OutdatePreload(g)
           s == Submit(o, Job("prepare", Nothing, NoDeck))
           h == [s EXCEPT !.auto.busy = TRUE]
<1>1. AutoLoad(g) = g \/ AutoLoad(g) = o \/ AutoLoad(g) = h
  BY DEF AutoLoad
<1>2. Keeps(g, g) /\ Keeps(g, o) /\ Keeps(o, s)
  BY KeepsPreload
<1> HIDE DEF o, s
<1>3. Keeps(s, h)
  BY KeepsSame
<1> HIDE DEF h
<1> QED  BY <1>1, <1>2, <1>3, KeepsAgain

LEMMA KeepsTransition ==
  ASSUME NEW g
  PROVE  /\ Keeps(g, NewGeneration(g)) /\ Keeps(g, Abort(g)) /\ Keeps(g, Reset(g)) /\ Keeps(g, StartCrossfade(g))
         /\ Keeps(g, Polled(g))
<1> DEFINE n == NewGeneration(g)
<1>1. Keeps(g, n)
  BY KeepsSame DEF NewGeneration
<1>2. Abort(g) \in {g, [n EXCEPT !.tr = NoTransition]} /\ Reset(g) = [n EXCEPT !.tr = NoTransition]
  BY DEF Abort, Reset
<1>3. Keeps(g, StartCrossfade(g))
  <2> DEFINE in == g.tr.in
             m == [on |-> TRUE, armed |-> FALSE, value |-> g.fader, target |-> Side(g.tr.in)]
             y == [g EXCEPT !.tr.state = "crossfade", !.tr.step = "render"]
             h == [y EXCEPT !.deck[in].gated = FALSE, !.ramp = m]
  <2>1. StartCrossfade(g) = h
    BY DEF StartCrossfade
  <2> HIDE DEF in, m
  <2>2. Keeps(g, y)
    BY KeepsSame
  <2> HIDE DEF y
  <2>3. Keeps(y, h)
    BY KeepsSame
  <2>4. Keeps(g, h)
    BY <2>2, <2>3, KeepsAgain
  <2> HIDE DEF h
  <2> QED  BY <2>1, <2>4
<1>4. Keeps(g, [g EXCEPT !.tr.step = "poll"]) /\ Keeps(g, g)
  BY KeepsSame
<1> HIDE DEF n
<1>5. Keeps(n, [n EXCEPT !.tr = NoTransition])
  BY KeepsSame
<1>6. Keeps(g, Abort(g)) /\ Keeps(g, Reset(g))
  BY <1>1, <1>2, <1>4, <1>5, KeepsAgain
<1>7. Keeps(g, Polled(g))
  BY <1>3, <1>4, <1>6 DEF Polled
<1> QED  BY <1>1, <1>3, <1>6, <1>7 DEF n

LEMMA KeepsBegin ==
  ASSUME NEW g, NEW out
  PROVE  Keeps(g, Begin(g, out))
<1> DEFINE n == NewGeneration(g)
           m == [state |-> "wait", out |-> out, in |-> Other(out), title |-> g.deck[out].title,
                 entry |-> g.deck[out].entry, step |-> "none"]
           h == [n EXCEPT !.tr = m]
<1>1. Begin(g, out) = IF IsTransitioning(g) THEN g ELSE Polled(h)
  BY DEF Begin
<1>2. Keeps(g, n)
  BY KeepsTransition
<1> HIDE DEF n, m
<1>3. Keeps(n, h)
  BY KeepsSame
<1> HIDE DEF h
<1>4. Keeps(h, Polled(h))
  BY KeepsTransition
<1>5. Keeps(g, g)
  BY KeepsPreload
<1>6. Keeps(g, Polled(h))
  BY <1>2, <1>3, <1>4, KeepsAgain
<1> QED  BY <1>1, <1>5, <1>6

LEMMA KeepsNewPlayback ==
  ASSUME NEW g, NEW t
  PROVE  Keeps(g, NewPlayback(g, t))
<1>1. CASE t \notin Titles
  BY <1>1, KeepsPreload DEF NewPlayback
<1>2. CASE t \in Titles
  <2> SUFFICES ASSUME "coord" \in DOMAIN g, g.coord \in [1..Library -> Coords]
               PROVE  Keeps(g, NewPlayback(g, t))
    BY DEF Keeps
  <2> DEFINE h == NewPlayback(g, t)
             x == [g.coord[t] EXCEPT !.live = FALSE]
             m == [i \in DOMAIN g.commits |-> [g.commits[i] EXCEPT !.live = @ /\ g.commits[i].title # t]]
  <2>1. h = [g EXCEPT !.commits = m, !.coord[t].live = FALSE]
    BY <1>2 DEF NewPlayback
  <2> HIDE DEF m
  <2>2. t \in 1..Library /\ x \in Coords /\ x.published = g.coord[t].published
    <3>1. t \in 1..Library
      BY <1>2, Constants
    <3>2. g.coord[t] \in Coords
      BY <3>1
    <3> HIDE DEF h, m
    <3>3. x \in Coords /\ x.published = g.coord[t].published
      BY <3>2 DEF Coords
    <3> QED  BY <3>1, <3>3
  <2>3. "coord" \in DOMAIN h /\ h.coord = [g.coord EXCEPT ![t] = x]
    BY <2>1
  <2> HIDE DEF h, x
  <2>4. Keeps(g, h)
    BY <2>2, <2>3 DEF Keeps
  <2> QED  BY <2>4 DEF h
<1> QED  BY <1>1, <1>2

LEMMA KeepsStartDeck ==
  ASSUME NEW g, NEW d
  PROVE  Keeps(g, StartDeck(g, d))
<1> DEFINE t == g.deck[d].entry
           startable == t # Nothing /\ g.row[t].status \in {"ready", "playing", "played"}
           e == IF startable THEN t ELSE Nothing
           n == NewPlayback(g, t)
           g1 == [n EXCEPT !.deck[d].phase = "playing", !.deck[d].backend = "starting", !.deck[d].entry = e]
           h == [g1 EXCEPT !.row[t].status = "playing"]
<1>1. StartDeck(g, d) \in {g1, h}
  BY DEF StartDeck
<1>2. Keeps(g, n)
  BY KeepsNewPlayback
<1> HIDE DEF n, e, t
<1>3. Keeps(n, g1)
  BY KeepsSame
<1> HIDE DEF g1
<1>4. Keeps(g1, h)
  BY KeepsSame
<1> HIDE DEF h
<1> QED  BY <1>1, <1>2, <1>3, <1>4, KeepsAgain

LEMMA KeepsPlayback ==
  ASSUME NEW g, NEW due
  PROVE  Keeps(g, Playback(g, due))
<1>1. Keeps(g, g)
  BY KeepsPreload
<1>2. Keeps(g, Stopped(g))
  <2> DEFINE z == Reset(g)
  <2>1. Keeps(g, z)
    BY KeepsTransition
  <2>2. Stopped(g) = [z EXCEPT !.auto.run = "stopped", !.auto.held = {}]
    BY DEF Stopped
  <2> HIDE DEF z
  <2>3. Keeps(z, Stopped(g))
    BY <2>2, KeepsSame
  <2> QED  BY <2>1, <2>3, KeepsAgain
<1>3. Keeps(g, StartNext(g))
  <2> DEFINE d == FirstOf({x \in Decks : DeckIsReady(g, x)})
             y == [g EXCEPT !.deck[d].gated = FALSE, !.fader = Side(d)]
  <2>1. StartNext(g) = StartDeck(y, d) \/ StartNext(g) = g \/ StartNext(g) = Stopped(g)
    BY DEF StartNext
  <2> HIDE DEF d
  <2>2. Keeps(g, y)
    BY KeepsSame
  <2> HIDE DEF y
  <2>3. Keeps(y, StartDeck(y, d))
    BY KeepsStartDeck
  <2> QED  BY <1>1, <1>2, <2>1, <2>2, <2>3, KeepsAgain
<1>4. ASSUME NEW out PROVE Keeps(g, StartHandover(g, out))
  <2> DEFINE in == Other(out)
             y == [g EXCEPT !.fader = Side(out), !.deck[in].gated = TRUE]
             s == StartDeck(y, in)
  <2>1. StartHandover(g, out) = Begin(s, out)
    BY DEF StartHandover
  <2> HIDE DEF in
  <2>2. Keeps(g, y)
    BY KeepsSame
  <2> HIDE DEF y
  <2>3. Keeps(y, s)
    BY KeepsStartDeck
  <2> HIDE DEF s
  <2>4. Keeps(s, Begin(s, out))
    BY KeepsBegin
  <2> QED  BY <2>1, <2>2, <2>3, <2>4, KeepsAgain
<1>5. \A out : Keeps(g, Begin(g, out))
  BY KeepsBegin
<1> QED  BY <1>1, <1>3, <1>4, <1>5 DEF Playback

LEMMA KeepsDecks ==
  ASSUME NEW g, NEW d
  PROVE  /\ Keeps(g, Detach(g, d)) /\ Keeps(g, Eject(g, d)) /\ Keeps(g, Observe(g, d)) /\ Keeps(g, FinishDeck(g, d))
<1>1. Keeps(g, g)
  BY KeepsPreload
<1>2. \A x : Keeps(x, Detach(x, d))
  BY KeepsSame DEF Detach
<1>3. ASSUME NEW x PROVE Keeps(x, Eject(x, d))
  <2> DEFINE y == Detach(x, d)
  <2>1. Keeps(x, y) /\ Eject(x, d) = [y EXCEPT !.deck[d].backend = "silent"]
    BY <1>2 DEF Eject
  <2> HIDE DEF y
  <2>2. Keeps(y, Eject(x, d))
    BY <2>1, KeepsSame
  <2> QED  BY <2>1, <2>2, KeepsAgain
<1>4. Keeps(g, Observe(g, d))
  <2> DEFINE c == Call("finish", Nothing, d)
             h == [g EXCEPT !.deck[d].phase = "finished", !.calls = @ \cup {c}]
  <2>1. Observe(g, d) = g \/ Observe(g, d) = h
    BY DEF Observe
  <2> HIDE DEF c
  <2>2. Keeps(g, h)
    BY KeepsSame
  <2> QED  BY <1>1, <2>1, <2>2
<1>5. Keeps(g, FinishDeck(g, d))
  <2> DEFINE t == g.deck[d].entry
             j == [title |-> t, deck |-> d, live |-> TRUE, coord |-> FALSE]
             g1 == Persist(g, t, d, FALSE)
             y == Eject(g1, d)
             c == Call("refill", Nothing, d)
             h == [y EXCEPT !.calls = @ \cup {c}]
  <2>1. FinishDeck(g, d) = h \/ FinishDeck(g, d) = g1
    BY DEF FinishDeck
  <2>2. g1 = g \/ g1 = [g EXCEPT !.commits = Append(@, j)]
    BY DEF Persist
  <2> HIDE DEF g1, j, t
  <2>3. Keeps(g, [g EXCEPT !.commits = Append(@, j)])
    BY KeepsSame
  <2>4. Keeps(g, g1)
    BY <1>1, <2>2, <2>3
  <2>5. Keeps(g1, y)
    BY <1>3
  <2> HIDE DEF y, c
  <2>6. Keeps(y, h)
    BY KeepsSame
  <2> HIDE DEF h
  <2> QED  BY <2>1, <2>4, <2>5, <2>6, KeepsAgain
<1> QED  BY <1>2, <1>3, <1>4, <1>5

LEMMA KeepsPause ==
  ASSUME NEW g, NEW audio
  PROVE  Keeps(g, Pause(g, audio)) /\ Keeps(g, Override(g))
<1> DEFINE o == OutdatePreload(g)
           p == [o EXCEPT !.auto.run = "paused"]
           a == Abort(p)
           held == IF audio THEN Playing(g) ELSE {}
           c == IF audio THEN held ELSE a.auto.held
           x == [d \in Decks |-> IF d \in held THEN [a.deck[d] EXCEPT !.phase = "paused", !.backend = "held"] ELSE a.deck[d]]
           h == [a EXCEPT !.auto.held = c, !.deck = x]
           b == Abort(o)
           q == [b EXCEPT !.auto.run = "stopped"]
<1>1. Pause(g, audio) = h
  BY DEF Pause
<1>2. Override(g) = q \/ Override(g) = o
  BY DEF Override
<1> HIDE DEF x, c
<1>3. Keeps(g, o)
  BY KeepsPreload
<1> HIDE DEF o
<1>4. Keeps(o, p)
  BY KeepsSame
<1>5. Keeps(o, b)
  BY KeepsTransition
<1> HIDE DEF p, b
<1>6. Keeps(p, a)
  BY KeepsTransition
<1>7. Keeps(b, q)
  BY KeepsSame
<1> HIDE DEF a, q
<1>8. Keeps(a, h)
  BY KeepsSame
<1> HIDE DEF h
<1>9. Keeps(g, h) /\ Keeps(g, q)
  BY <1>3, <1>4, <1>5, <1>6, <1>7, <1>8, KeepsAgain
<1> QED  BY <1>1, <1>2, <1>3, <1>9

LEMMA KeepsRestored ==
  ASSUME NEW g, NEW out
  PROVE  Keeps(g, OutgoingRestored(g, out))
<1> DEFINE x == [g EXCEPT !.deck[out].muted = FALSE]
           y == [x EXCEPT !.deck[out].gated = FALSE]
           h == [y EXCEPT !.fader = Side(out)]
<1>1. OutgoingRestored(g, out) = h
  BY DEF OutgoingRestored
<1>2. Keeps(g, x)
  BY KeepsSame
<1> HIDE DEF x
<1>3. Keeps(x, y)
  BY KeepsSame
<1> HIDE DEF y
<1>4. Keeps(y, h)
  BY KeepsSame
<1> HIDE DEF h
<1> QED  BY <1>1, <1>2, <1>3, <1>4, KeepsAgain

LEMMA KeepsSkipIncoming ==
  ASSUME NEW g, NEW out
  PROVE  Keeps(g, SkipIncoming(g, out))
<1> DEFINE in == Other(out)
           t == g.deck[in].entry
           o == OutdatePreload(g)
           g1 == OutgoingRestored(o, out)
           w == [status |-> "skipped", deck |-> NoDeck]
           n == NewPlayback(g1, t)
           e == Eject(n, in)
           k == [e EXCEPT !.row[t] = w]
           playing == t # Nothing /\ g1.row[t].status = "playing"
           g2 == IF playing THEN k ELSE g1
           g3 == [g2 EXCEPT !.deck[in].gated = FALSE, !.deck[in].muted = FALSE, !.auto.suppressed = @ \ {in}]
           z == Reset(g3)
           y == [z EXCEPT !.auto.run = "running"]
<1>1. SkipIncoming(g, out) = AutoLoad(y)
  BY DEF SkipIncoming
<1>3. g2 = k \/ g2 = g1
  OBVIOUS
<1> HIDE DEF g2, in, t
<1>4. Keeps(g, o)
  BY KeepsPreload
<1> HIDE DEF o
<1>5. Keeps(o, g1)
  BY KeepsRestored
<1> HIDE DEF g1
<1>6. Keeps(g1, n)
  BY KeepsNewPlayback
<1> HIDE DEF n, w
<1>7. Keeps(n, e)
  BY KeepsDecks
<1> HIDE DEF e
<1>8. Keeps(e, k)
  BY KeepsSame
<1> HIDE DEF k
<1>9. Keeps(g, g2)
  BY <1>3, <1>4, <1>5, <1>6, <1>7, <1>8, KeepsAgain
<1>10. Keeps(g2, g3)
  BY KeepsSame
<1> HIDE DEF g3
<1>11. Keeps(g3, z)
  BY KeepsTransition
<1> HIDE DEF z
<1>12. Keeps(z, y)
  BY KeepsSame
<1> HIDE DEF y
<1>13. Keeps(y, AutoLoad(y))
  BY KeepsAutoLoad
<1> QED  BY <1>1, <1>9, <1>10, <1>11, <1>12, <1>13, KeepsAgain

LEMMA KeepsLoseIncoming ==
  ASSUME NEW g, NEW out
  PROVE  Keeps(g, LoseIncoming(g, out))
<1> DEFINE in == Other(out)
           t == g.deck[in].entry
           a == [g EXCEPT !.tr = NoTransition]
           p == Pause(a, FALSE)
           g1 == OutgoingRestored(p, out)
           g2 == [g1 EXCEPT !.deck[in].muted = TRUE, !.auto.gate = TRUE]
           n == NewPlayback(g2, t)
           w == [status |-> "ready", deck |-> in]
           h == [n EXCEPT !.row[t] = w]
<1>1. LoseIncoming(g, out) = h \/ LoseIncoming(g, out) = g2
  BY DEF LoseIncoming
<1> HIDE DEF in, t, w
<1>3. Keeps(g, a)
  BY KeepsSame
<1> HIDE DEF a
<1>4. Keeps(a, p)
  BY KeepsPause
<1> HIDE DEF p
<1>5. Keeps(p, g1)
  BY KeepsRestored
<1> HIDE DEF g1
<1>6. Keeps(g1, g2)
  BY KeepsSame
<1> HIDE DEF g2
<1>7. Keeps(g2, n)
  BY KeepsNewPlayback
<1> HIDE DEF n
<1>8. Keeps(n, h)
  BY KeepsSame
<1> HIDE DEF h
<1>9. Keeps(g, g2)
  BY <1>3, <1>4, <1>5, <1>6, KeepsAgain
<1>10. Keeps(g, h)
  BY <1>7, <1>8, <1>9, KeepsAgain
<1> QED  BY <1>1, <1>9, <1>10

LEMMA KeepsCallbacks ==
  ASSUME NEW g, NEW c
  PROVE  /\ Keeps(g, Adopt(g, c)) /\ Keeps(g, PreparationFailed(g, c)) /\ Keeps(g, AutoloadIfCurrent(g, c))
<1>1. Keeps(g, Adopt(g, c))
  <2> DEFINE z == Reset(g)
             a == [z EXCEPT !.auto.busy = FALSE]
             m == [g.deck[c.deck] EXCEPT !.title = c.title, !.entry = c.title, !.phase = "loaded",
                                         !.backend = "silent", !.gated = FALSE]
             d == c.deck
             b == [g EXCEPT !.deck[d] = m]
             j == Job("commit", c.title, c.deck)
             s == Submit(b, j)
  <2>1. Adopt(g, c) = a \/ Adopt(g, c) = s
    BY DEF Adopt
  <2> HIDE DEF m, d
  <2>2. Keeps(g, z)
    BY KeepsTransition
  <2> HIDE DEF z
  <2>3. Keeps(z, a)
    BY KeepsSame
  <2>4. Keeps(g, b)
    BY KeepsSame
  <2> HIDE DEF b, j
  <2>5. Keeps(b, s)
    BY KeepsPreload
  <2> HIDE DEF a, s
  <2> QED  BY <2>1, <2>2, <2>3, <2>4, <2>5, KeepsAgain
<1>2. Keeps(g, PreparationFailed(g, c))
  <2> DEFINE t == c.title
             w == IF g.row[t].status \in {"waiting", "preparing"} THEN [status |-> "failed", deck |-> NoDeck] ELSE g.row[t]
             b == [g EXCEPT !.auto.busy = FALSE, !.row[t] = w]
  <2>1. PreparationFailed(g, c) = AutoLoad(b)
    BY DEF PreparationFailed
  <2> HIDE DEF w, t
  <2>2. Keeps(g, b)
    BY KeepsSame
  <2> HIDE DEF b
  <2>3. Keeps(b, AutoLoad(b))
    BY KeepsAutoLoad
  <2> QED  BY <2>1, <2>2, <2>3, KeepsAgain
<1>3. Keeps(g, AutoloadIfCurrent(g, c))
  BY KeepsAutoLoad, KeepsPreload DEF AutoloadIfCurrent
<1> QED  BY <1>1, <1>2, <1>3

LEMMA KeepsStartAutomatic ==
  ASSUME NEW g, NEW due
  PROVE  Keeps(g, StartAutomatic(g, due))
<1> DEFINE resumed == IF g.auto.run = "paused" THEN {d \in g.auto.held : g.deck[d].phase = "paused"} ELSE {}
           x == [d \in Decks |-> IF d \in resumed THEN [g.deck[d] EXCEPT !.phase = "playing", !.backend = "starting"]
                                 ELSE g.deck[d]]
           u == [g.auto EXCEPT !.held = IF g.auto.run = "paused" THEN {} ELSE g.auto.held,
                               !.run = "running", !.suppressed = {}]
           g1 == [g EXCEPT !.deck = x, !.auto = u]
           a == AutoLoad(g1)
           p == Playback(a, due)
<1>1. StartAutomatic(g, due) = g \/ StartAutomatic(g, due) = p
  BY DEF StartAutomatic
<1> HIDE DEF x, u
<1>2. Keeps(g, g1) /\ Keeps(g, g)
  BY KeepsSame
<1> HIDE DEF g1
<1>3. Keeps(g1, a)
  BY KeepsAutoLoad
<1> HIDE DEF a
<1>4. Keeps(a, p)
  BY KeepsPlayback
<1> HIDE DEF p
<1> QED  BY <1>1, <1>2, <1>3, <1>4, KeepsAgain

LEMMA KeepsFinished ==
  ASSUME NEW g, NEW t, NEW status
  PROVE  Keeps(g, Finished(g, t, status))
<1> DEFINE w == [status |-> status, deck |-> IF status = "skipped" THEN NoDeck ELSE g.row[t].deck]
           h == [g EXCEPT !.row[t] = w]
<1>1. Finished(g, t, status) = g \/ Finished(g, t, status) = h
  BY DEF Finished
<1> HIDE DEF w
<1>2. Keeps(g, g) /\ Keeps(g, h)
  BY KeepsSame
<1> QED  BY <1>1, <1>2

LEMMA KeepsManual ==
  ASSUME NEW g, NEW d, NEW due, NEW v
  PROVE  /\ Keeps(g, ManualPlay(g, d)) /\ Keeps(g, ManualPause(g, d)) /\ Keeps(g, ManualResume(g, d, due))
         /\ Keeps(g, ManualStop(g, d)) /\ Keeps(g, ManualEject(g, d)) /\ Keeps(g, ManualLoad(g, d))
         /\ Keeps(g, ManualFader(g, v))
<1> DEFINE o == Override(g)
           p == Pause(g, FALSE)
<1>1. Keeps(g, o) /\ Keeps(g, p) /\ Keeps(g, g)
  BY KeepsPause, KeepsPreload
<1>2. ManualPlay(g, d) = StartDeck([o EXCEPT !.deck[d].gated = FALSE], d)
  BY DEF ManualPlay
<1>3. ManualPause(g, d) \in {[p EXCEPT !.deck[d].phase = "paused", !.deck[d].backend = "held"],
                             [o EXCEPT !.deck[d].phase = "paused", !.deck[d].backend = "held"]}
  BY DEF ManualPause
<1>4. LET y == StartDeck([IF g.auto.run = "paused" THEN g ELSE o EXCEPT !.deck[d].gated = FALSE], d)
      IN  ManualResume(g, d, due) = y \/ ManualResume(g, d, due) = StartAutomatic(y, due)
  BY DEF ManualResume
<1>5. LET y == [o EXCEPT !.deck[d].phase = "stopped", !.deck[d].backend = "silent"]
      IN  ManualStop(g, d) = y \/ ManualStop(g, d) = Finished(y, g.deck[d].entry, "played")
  BY DEF ManualStop
<1>6. LET e == Eject(o, d)
      IN  ManualEject(g, d) = Finished([e EXCEPT !.auto.suppressed = @ \cup {d}], g.deck[d].entry, "skipped")
  BY DEF ManualEject
<1>7. LET m == [o.deck[d] EXCEPT !.title = Library, !.entry = Nothing, !.phase = "loaded", !.backend = "silent",
                                 !.gated = FALSE]
          r == [t \in Titles |-> IF g.row[t].deck = d /\ g.row[t].status \in {"ready", "playing"}
                                 THEN [status |-> "skipped", deck |-> NoDeck] ELSE o.row[t]]
      IN  ManualLoad(g, d) = [o EXCEPT !.deck[d] = m, !.row = r]
  BY DEF ManualLoad
<1>8. ManualFader(g, v) \in {[g EXCEPT !.fader = v], [p EXCEPT !.fader = v]}
  BY DEF ManualFader
<1> HIDE DEF o, p
<1>9. ASSUME NEW b, Keeps(g, b) PROVE Keeps(g, StartDeck([b EXCEPT !.deck[d].gated = FALSE], d))
  <2> DEFINE y == [b EXCEPT !.deck[d].gated = FALSE]
  <2>1. Keeps(b, y)
    BY KeepsSame
  <2> HIDE DEF y
  <2>2. Keeps(y, StartDeck(y, d))
    BY KeepsStartDeck
  <2>3. Keeps(g, StartDeck(y, d))
    BY <1>9, <2>1, <2>2, KeepsAgain
  <2> QED  BY <2>3 DEF y
<1>10. Keeps(g, ManualPlay(g, d))
  BY <1>1, <1>2, <1>9
<1>11. Keeps(g, ManualPause(g, d))
  <2>1. ASSUME NEW b, Keeps(g, b)
        PROVE  Keeps(g, [b EXCEPT !.deck[d].phase = "paused", !.deck[d].backend = "held"])
    <3> DEFINE h == [b EXCEPT !.deck[d].phase = "paused", !.deck[d].backend = "held"]
    <3>1. Keeps(b, h)
      BY KeepsSame
    <3> HIDE DEF h
    <3>2. Keeps(g, h)
      BY <2>1, <3>1, KeepsAgain
    <3> QED  BY <3>2 DEF h
  <2> QED  BY <1>1, <1>3, <2>1
<1>12. Keeps(g, ManualResume(g, d, due))
  <2> DEFINE b == IF g.auto.run = "paused" THEN g ELSE o
             y == StartDeck([b EXCEPT !.deck[d].gated = FALSE], d)
  <2>1. Keeps(g, b)
    BY <1>1
  <2>2. ManualResume(g, d, due) = y \/ ManualResume(g, d, due) = StartAutomatic(y, due)
    BY <1>4
  <2> HIDE DEF b
  <2>3. Keeps(g, y)
    BY <1>9, <2>1
  <2> HIDE DEF y
  <2>4. Keeps(y, StartAutomatic(y, due))
    BY KeepsStartAutomatic
  <2> QED  BY <2>2, <2>3, <2>4, KeepsAgain
<1>13. Keeps(g, ManualStop(g, d))
  <2> DEFINE y == [o EXCEPT !.deck[d].phase = "stopped", !.deck[d].backend = "silent"]
             t == g.deck[d].entry
  <2>1. ManualStop(g, d) = y \/ ManualStop(g, d) = Finished(y, t, "played")
    BY <1>5
  <2> HIDE DEF t
  <2>2. Keeps(o, y)
    BY KeepsSame
  <2> HIDE DEF y
  <2>3. Keeps(y, Finished(y, t, "played"))
    BY KeepsFinished
  <2> QED  BY <1>1, <2>1, <2>2, <2>3, KeepsAgain
<1>14. Keeps(g, ManualEject(g, d))
  <2> DEFINE e == Eject(o, d)
             y == [e EXCEPT !.auto.suppressed = @ \cup {d}]
             t == g.deck[d].entry
  <2>1. ManualEject(g, d) = Finished(y, t, "skipped")
    BY <1>6
  <2>2. Keeps(o, e)
    BY KeepsDecks
  <2> HIDE DEF t, e
  <2>3. Keeps(e, y)
    BY KeepsSame
  <2> HIDE DEF y
  <2>4. Keeps(y, Finished(y, t, "skipped"))
    BY KeepsFinished
  <2> QED  BY <1>1, <2>1, <2>2, <2>3, <2>4, KeepsAgain
<1>15. Keeps(g, ManualLoad(g, d))
  <2> DEFINE m == [o.deck[d] EXCEPT !.title = Library, !.entry = Nothing, !.phase = "loaded", !.backend = "silent",
                                    !.gated = FALSE]
             r == [t \in Titles |-> IF g.row[t].deck = d /\ g.row[t].status \in {"ready", "playing"}
                                    THEN [status |-> "skipped", deck |-> NoDeck] ELSE o.row[t]]
             h == [o EXCEPT !.deck[d] = m, !.row = r]
  <2>1. ManualLoad(g, d) = h
    BY <1>7
  <2> HIDE DEF m, r
  <2>2. Keeps(o, h)
    BY KeepsSame
  <2> HIDE DEF h
  <2> QED  BY <1>1, <2>1, <2>2, KeepsAgain
<1>16. Keeps(g, ManualFader(g, v))
  <2>1. Keeps(g, [g EXCEPT !.fader = v]) /\ Keeps(p, [p EXCEPT !.fader = v])
    BY KeepsSame
  <2> QED  BY <1>1, <1>8, <2>1, KeepsAgain
<1> QED  BY <1>10, <1>11, <1>12, <1>13, <1>14, <1>15, <1>16
----------------------------------------------------------------------------
(* A step publishes a title only after its cleanup and its commit.         *)

LEMMA NothingPublished ==
  ASSUME Good(G), NEW h, Keeps(G, h), h.coord = coord'
  PROVE  Published(G, G')
<1>1. "coord" \in DOMAIN G /\ G.coord \in [1..Library -> Coords]
  BY GParts, GIs DEF G
<1>2. G'.coord = coord'
  BY DEF G
<1> QED  BY <1>1, <1>2 DEF Keeps, Published

LEMMA CoordKept ==
  ASSUME Good(G), coord' = coord
  PROVE  Published(G, G')
<1>1. Keeps(G, G)
  BY KeepsPreload
<1> QED  BY <1>1, NothingPublished, GIs

LEMMA TransitionCallsPublish ==
  ASSUME Good(G), Settled(G), Poll \/ PollTimesOut \/ RenderTick \/ FinishTransition
  PROVE  Published(G, G')
<1>1. CASE Poll
  BY <1>1, KeepsTransition, NothingPublished DEF Poll, Done
<1>2. CASE PollTimesOut
  BY <1>2, KeepsSkipIncoming, NothingPublished DEF PollTimesOut, Done
<1>3. CASE RenderTick
  <2> DEFINE h == [G EXCEPT !.tr.state = "verify", !.tr.step = "finish"]
  <2>1. Done(h) \/ Done(LoseIncoming(G, tr.out))
    BY <1>3 DEF RenderTick
  <2>2. Keeps(G, h)
    BY KeepsSame
  <2> HIDE DEF h
  <2>3. Keeps(G, LoseIncoming(G, tr.out))
    BY KeepsLoseIncoming
  <2> QED  BY <2>1, <2>2, <2>3, NothingPublished DEF Done
<1>4. CASE FinishTransition
  <2>1. Completing(G, Complete(G)) /\ Done(Complete(G))
    BY <1>4, CompleteIs, GIs DEF FinishTransition, Settled
  <2> DEFINE h == Complete(G)
             x == [cleanup |-> "open", commit |-> IF G.tr.entry = Nothing THEN "ok" ELSE "open",
                   published |-> FALSE, live |-> TRUE, deck |-> G.tr.out]
  <2>2. h.coord = [G.coord EXCEPT ![G.tr.title] = x] /\ coord' = h.coord
    BY <2>1 DEF Completing, Done
  <2>3. x.published = FALSE /\ G.coord \in [1..Library -> Coords] /\ Titles \subseteq 1..Library
    BY GParts, GIs, Constants
  <2>4. G'.coord = coord'
    BY DEF G
  <2> HIDE DEF h, x
  <2>5. \A t \in Titles : G'.coord[t].published => G.coord[t].published
    <3> TAKE t \in Titles
    <3>1. CASE t = G.tr.title
      BY <2>2, <2>3, <2>4, <3>1
    <3>2. CASE t # G.tr.title
      BY <2>2, <2>3, <2>4, <3>2
    <3> QED  BY <3>1, <3>2
  <2> QED  BY <2>5 DEF Published
<1> QED  BY <1>1, <1>2, <1>3, <1>4

LEMMA CallbackPublishes ==
  ASSUME Good(G), Callback
  PROVE  Published(G, G')
<1>1. PICK c \in calls, due \in BOOLEAN :
         LET g == [G EXCEPT !.calls = @ \ {c}]
         IN  /\ Done(CASE c.kind = "finish" -> FinishDeck(g, c.deck)
                       [] c.kind = "refill" -> AutoLoad(g)
                       [] c.kind = "autoload" -> AutoloadIfCurrent(g, c)
                       [] c.kind = "adopt" -> Adopt(g, c)
                       [] c.kind = "failed" -> PreparationFailed(g, c)
                       [] c.kind = "missed" -> [g EXCEPT !.auto.busy = FALSE]
                       [] c.kind = "followup" -> AutoLoad(Playback([g EXCEPT !.auto.busy = FALSE], due)))
             /\ UNCHANGED todo
  BY DEF Callback
<1> DEFINE g == [G EXCEPT !.calls = @ \ {c}]
           i == [g EXCEPT !.auto.busy = FALSE]
           p == Playback(i, due)
<1>2. c.kind \in {"finish", "refill", "autoload", "adopt", "failed", "missed", "followup"}
  BY GParts DEF Calls
<1>3. \/ Done(FinishDeck(g, c.deck)) \/ Done(AutoLoad(g)) \/ Done(AutoloadIfCurrent(g, c)) \/ Done(Adopt(g, c))
      \/ Done(PreparationFailed(g, c)) \/ Done(i) \/ Done(AutoLoad(p))
  BY <1>1, <1>2
<1>4. Keeps(G, g)
  BY KeepsSame
<1> HIDE DEF g
<1>5. Keeps(g, i)
  BY KeepsSame
<1> HIDE DEF i
<1>6. Keeps(i, p)
  BY KeepsPlayback
<1> HIDE DEF p
<1>7. Keeps(G, i) /\ Keeps(G, p)
  BY <1>4, <1>5, <1>6, KeepsAgain
<1>8. /\ Keeps(g, FinishDeck(g, c.deck)) /\ Keeps(g, AutoLoad(g)) /\ Keeps(g, AutoloadIfCurrent(g, c))
      /\ Keeps(g, Adopt(g, c)) /\ Keeps(g, PreparationFailed(g, c)) /\ Keeps(p, AutoLoad(p))
  BY KeepsDecks, KeepsAutoLoad, KeepsCallbacks
<1>9. PICK h : Done(h) /\ Keeps(G, h)
  BY <1>3, <1>4, <1>7, <1>8, KeepsAgain
<1> QED  BY <1>9, NothingPublished DEF Done

LEMMA CommandPublishes ==
  ASSUME Good(G), NEW what, Command(what)
  PROVE  Published(G, G')
<1>1. PICK d \in Decks, due \in BOOLEAN :
       \/ Done(Pause(G, TRUE)) \/ Done(StartAutomatic(G, due)) \/ Done(ManualPlay(G, d)) \/ Done(ManualPause(G, d))
       \/ Done(ManualResume(G, d, due)) \/ Done(ManualStop(G, d)) \/ Done(ManualEject(G, d)) \/ Done(Abort(G))
       \/ (\E x \in {0, 3} : Done(ManualFader(G, x))) \/ Done(ManualLoad(G, d))
  BY DEF Command
<1>2. PICK h : Done(h) /\ Keeps(G, h)
  BY <1>1, KeepsPause, KeepsStartAutomatic, KeepsManual, KeepsTransition
<1> QED  BY <1>2, NothingPublished DEF Done

LEMMA StatusTickPublishes ==
  ASSUME Good(G), StatusTick
  PROVE  Published(G, G')
<1> DEFINE a == Observe(G, "A")
           b == Observe(a, "B")
           l == AutoLoad(b)
<1>1. PICK due \in BOOLEAN : Done(Playback(l, due))
  BY DEF StatusTick
<1>2. Keeps(G, a)
  BY KeepsDecks
<1> HIDE DEF a
<1>3. Keeps(a, b)
  BY KeepsDecks
<1> HIDE DEF b
<1>4. Keeps(b, l)
  BY KeepsAutoLoad
<1> HIDE DEF l
<1>5. Keeps(l, Playback(l, due))
  BY KeepsPlayback
<1>6. Keeps(G, Playback(l, due))
  BY <1>2, <1>3, <1>4, <1>5, KeepsAgain
<1> QED  BY <1>1, <1>6, NothingPublished DEF Done

LEMMA NextPublishes ==
  ASSUME Good(G), Settled(G), Next
  PROVE  Published(G, G')
<1>1. CASE StatusTick
  BY <1>1, StatusTickPublishes
<1>2. CASE Poll \/ PollTimesOut \/ RenderTick \/ FinishTransition
  BY <1>2, TransitionCallsPublish
<1>3. CASE Callback
  BY <1>3, CallbackPublishes
<1>4. CASE RampArms \/ RampWrites \/ RampWritesLate
  BY <1>4, CoordKept DEF RampArms, RampWrites, RampWritesLate
<1>5. CASE Prepare \/ CommitPreload
  BY <1>5, CoordKept DEF Prepare, CommitPreload
<1>6. CASE Cleanup \/ Commit
  BY <1>6, CleanupSettled, CommitSettled
<1>7. CASE (\E d \in Decks : BackendStarts(d) \/ TitleEnds(d)) \/ BackendNeverStarts \/ BackendLost
  <2>1. coord' = coord
    BY <1>7 DEF BackendStarts, TitleEnds, BackendNeverStarts, BackendLost, Backend
  <2> QED  BY <2>1, CoordKept
<1>8. CASE Operator
  BY <1>8, CommandPublishes DEF Operator
<1> QED  BY <1>1, <1>2, <1>3, <1>4, <1>5, <1>6, <1>7, <1>8 DEF Next
----------------------------------------------------------------------------
(* What the specification promises.                                        *)

\* In every reachable state a fader thread works only in a crossfade and towards the
\* incoming deck, no fader is moved by it once it is done, a transition runs only while the
\* automatic run does, and a muted deck holds the run back.
THEOREM TransitionInvariant == Spec => []Good(G)
<1>1. Init => Good(G)
  BY InitGood
<1>2. Good(G) /\ [Next]_vars => Good(G)'
  <2>1. ASSUME Good(G), UNCHANGED vars PROVE Good(G)'
    <3>1. G' = G
      BY <2>1 DEF vars, system, G
    <3> QED  BY <2>1, <3>1
  <2> QED  BY <2>1, NextGood
<1> QED  BY <1>1, <1>2, PTL DEF Spec

\* The state keeps its shape: a deck is empty exactly when it holds no title, its entry is
\* the title it holds, an idle transition is NoTransition, a fader thread works only in a
\* crossfade and the preload executor holds at most two jobs.
THEOREM TransitionTypes == Spec => []TypeOK
<1>1. ASSUME Good(G) PROVE TypeOK
  <2>1. /\ deck \in [Decks -> DeckStates] /\ fader \in 0..3 /\ late \in SUBSET (0..3) /\ Len(pool) <= 2
        /\ tr \in {NoTransition} \cup Handovers /\ row \in [Titles -> Assignments]
    BY <1>1, GParts
  <2>2. \A d \in Decks : deck[d] \in DeckStates
    BY <2>1
  <2>3. \A t \in Titles : row[t].status \in Statuses
    BY <2>1 DEF Assignments
  <2>4. tr.state \in States /\ (tr.state = "idle" <=> tr = NoTransition)
    BY <2>1 DEF Handovers, NoTransition, States
  <2>5. ramp.on => tr.state = "crossfade"
    BY <1>1, GIs DEF Good, Faded
  <2>6. \A d \in Decks :
          /\ deck[d] \in [title : Nothing..Library, entry : Nothing..N, phase : Phases, backend : Backends,
                          gated : BOOLEAN, muted : BOOLEAN]
          /\ deck[d].entry \in {Nothing, deck[d].title}
          /\ deck[d].title = Nothing <=> deck[d].phase = "empty"
    BY <2>2 DEF DeckStates
  <2> QED  BY <2>1, <2>3, <2>4, <2>5, <2>6 DEF TypeOK
<1> QED  BY <1>1, TransitionInvariant, PTL

\* A deck is mixed out only when the other one is open, after any sequence of aborted and
\* repeated transitions, faults and commands.
THEOREM HandoverOpens == Spec => HandoverIsOpen
<1>1. ASSUME Good(G), tr.step = "finish"
      PROVE  fader # Side(tr.out) /\ ~deck[tr.in].gated /\ ~deck[tr.in].muted
  <2>1. tr \in Handovers /\ tr.state = "verify" /\ tr.in = Other(tr.out) /\ tr.in \in Decks
    BY <1>1, GParts DEF Handovers, NoTransition
  <2>2. fader = Side(tr.in) /\ ~deck[tr.in].gated /\ auto.run = "running"
    BY <1>1, <2>1, GIs DEF Good, Faded, Opened
  <2>3. Side(tr.in) # Side(tr.out)
    BY <2>1 DEF Handovers, Side, Other, Decks
  <2>4. ~deck[tr.in].muted
    BY <1>1, <2>1, <2>2, GIs DEF Good, Opened
  <2> QED  BY <2>2, <2>3, <2>4
<1>2. Good(G) => [tr.step = "finish" /\ tr'.state = "idle" /\ todo' = todo
                    => fader # Side(tr.out) /\ ~deck[tr.in].gated /\ ~deck[tr.in].muted]_vars
  BY <1>1
<1> QED  BY <1>2, TransitionInvariant, PTL DEF HandoverIsOpen

THEOREM CalmInvariant == Spec => []CalmUntilOperated
<1>1. Init => CalmUntilOperated
  BY InitGood, InitCalm DEF CalmUntilOperated
<1>2. CalmUntilOperated /\ [Next]_vars => CalmUntilOperated'
  <2>1. ASSUME CalmUntilOperated, UNCHANGED vars PROVE CalmUntilOperated'
    <3>1. G' = G /\ heard' = heard /\ operated' = operated /\ todo' = todo
      BY <2>1 DEF vars, system, G
    <3> QED  BY <2>1, <3>1 DEF CalmUntilOperated, Budget
  <2>2. ASSUME CalmUntilOperated, Next PROVE CalmUntilOperated'
    <3>1. Budget /\ Good(G)
      BY <2>2 DEF CalmUntilOperated
    <3>2. Budget' /\ (Operator => \E c \in AllCommands : todo'[c] # todo[c])
      BY <2>2, <3>1, BudgetKept
    <3>3. Good(G)'
      BY <2>2, <3>1, NextGood
    <3>4. ASSUME ~operated'
          PROVE  Calm(G', heard')
      <4>1. ~operated /\ ~(\E c \in AllCommands : todo'[c] # todo[c])
        BY <2>2, <3>4 DEF Next
      <4>2. Calm(G, heard)
        BY <2>2, <4>1 DEF CalmUntilOperated
      <4> QED  BY <2>2, <3>2, <4>1, <4>2, NextCalm
    <3> QED  BY <3>2, <3>3, <3>4 DEF CalmUntilOperated
  <2> QED  BY <2>1, <2>2
<1> QED  BY <1>1, <1>2, PTL DEF Spec

\* While the incoming deck is awaited the outgoing one stays audible, as long as the operator
\* leaves the handover alone, whatever fails in it and in those before it.
THEOREM OutgoingIsHeard == Spec => []OutgoingStaysHeard
<1>1. ASSUME CalmUntilOperated PROVE OutgoingStaysHeard
  <2>1. SUFFICES ASSUME ~operated, tr.state = "wait", deck[tr.out].backend = "playing"
                 PROVE  Audible(G, tr.out)
    BY DEF OutgoingStaysHeard
  <2>2. Good(G) /\ Steady(G)
    BY <1>1, <2>1 DEF CalmUntilOperated, Calm
  <2>3. G.tr = tr /\ tr.out \in Decks /\ auto.run = "running"
    BY <2>1, <2>2, GIs, IdleOrNot
  <2>4. fader = Side(tr.out) /\ ~deck[tr.out].gated /\ ~deck[tr.out].muted
    BY <2>1, <2>2, <2>3, GIs DEF Steady, Good, Opened
  <2>5. Side(tr.out) # Side(Other(tr.out))
    BY <2>3 DEF Side, Other, Decks
  <2> QED  BY <2>1, <2>4, <2>5, GIs DEF Audible
<1> QED  BY <1>1, CalmInvariant, PTL

\* Without the operator only a title that was heard becomes PLAYED, through any failed start,
\* lost backend, refused cleanup, failed commit or outdated callback.
THEOREM PlayedHasBeenHeard == Spec => []PlayedWasHeard
<1>1. ASSUME CalmUntilOperated PROVE PlayedWasHeard
  BY <1>1, GIs DEF CalmUntilOperated, Calm, Accounted, Played, PlayedWasHeard
<1> QED  BY <1>1, CalmInvariant, PTL

\* Whatever the operator does: one line of preparation at most is under way; a title is on one
\* deck, and its row does not offer it a second time; a title that was mixed out stays out, and
\* while its row is still PLAYING the deck it left stays empty, silent once its cleanup is done.
THEOREM SettledInvariant == Spec => [](Good(G) /\ Settled(G))
<1>1. Init => Good(G) /\ Settled(G)
  BY InitGood, InitSettled
<1>2. Good(G) /\ Settled(G) /\ [Next]_vars => (Good(G) /\ Settled(G))'
  <2>1. ASSUME Good(G), Settled(G), UNCHANGED vars PROVE (Good(G) /\ Settled(G))'
    <3>1. G' = G
      BY <2>1 DEF vars, system, G
    <3> QED  BY <2>1, <3>1
  <2>2. ASSUME Good(G), Settled(G), Next PROVE (Good(G) /\ Settled(G))'
    <3>1. Good(G)'
      BY <2>2, NextGood
    <3>2. Settled(G')
      BY <2>2, NextSettled
    <3> QED  BY <3>1, <3>2
  <2> QED  BY <2>1, <2>2
<1> QED  BY <1>1, <1>2, PTL DEF Spec

\* The automatic load after a handover is published only when the title that was mixed out is
\* no longer PLAYING and its backend is silent, whatever the operator does meanwhile.
THEOREM PublishedIsAfterBoth == Spec => PublishedAfterBoth
<1>1. Good(G) /\ Settled(G) /\ [Next]_vars =>
        [\A t \in Titles : coord'[t].published /\ ~coord[t].published
            => row'[t].status # "playing" /\ deck'[coord[t].deck].backend # "playing"]_vars
  <2>1. ASSUME Good(G), Settled(G), Next
        PROVE  \A t \in Titles : coord'[t].published /\ ~coord[t].published
                 => row'[t].status # "playing" /\ deck'[coord[t].deck].backend # "playing"
    <3>1. Published(G, G')
      BY <2>1, NextPublishes
    <3>2. G'.coord = coord' /\ G'.row = row' /\ G'.deck = deck'
      BY DEF G
    <3> QED  BY <3>1, <3>2, GIs DEF Published
  <2> QED  BY <2>1
<1> QED  BY <1>1, SettledInvariant, PTL DEF Spec, PublishedAfterBoth
=============================================================================
