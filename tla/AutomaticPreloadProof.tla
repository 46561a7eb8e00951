----------------------- MODULE AutomaticPreloadProof -----------------------
(***************************************************************************)
(* Proofs about AutomaticPreload, for any queue, any commands of the       *)
(* operator, any slow stage and any failure: the preload is one line of    *)
(* work, so what is adopted on a deck is what is being prepared for it.    *)
(*                                                                         *)
(* The handlers are functions on the record g; the lemmas are stated of g, *)
(* and the invariant of the specification is Inv(G).                       *)
(***************************************************************************)
EXTENDS AutomaticPreload, TLAPS

SomeEntry == Entries \cup {NoEntry}
SomeDeck == Decks \cup {NoDeck}

Assignments == [status : Statuses, deck : SomeDeck]
DeckStates == [track : SomeEntry, phase : {"empty", "loaded", "playing", "finished"}, queue : SomeEntry]
Mixes == {NoMix} \cup [deck : Decks, track : SomeEntry, queue : SomeEntry]
Ctls == [deck : [Decks -> DeckStates], cache : Rows, running : BOOLEAN, paused : BOOLEAN,
         streak : 0..MaximumFailures, busy : BOOLEAN, mix : Mixes]
Stages == {"start", "seen", "choosing", "validated", "marked", "released", "checked"}
JobRecords == [kind : JobKinds, e : SomeEntry, d : SomeDeck, live : BOOLEAN, at : Stages,
               recovery : BOOLEAN, changed : BOOLEAN, seen : [Decks -> SomeEntry]]
EventRecords == [kind : EventKinds, e : SomeEntry, d : SomeDeck, live : BOOLEAN,
                 changed : BOOLEAN, recovery : BOOLEAN]
Timers == {NoTimer} \cup [e : Entries, d : Decks]
EndRecords == [e : Entries, d : Decks]
States == [row : Rows, ctl : Ctls, jobs : Seq(JobRecords), events : Seq(EventRecords),
           timer : Timers, commits : SUBSET EndRecords]

\* What a job and a callback are about.
JobAimed(j) == /\ j.kind = "search" => j.e = NoEntry
               /\ j.kind \in {"load", "persist"} => j.e \in Entries /\ j.d \in Decks
EventAimed(v) == v.kind # "found" \/ v.e # NoEntry => v.e \in Entries /\ v.d \in Decks

\* Types; only the head of the executor's queue has begun.
Base(g) ==
  /\ g \in States /\ Len(g.jobs) <= Capacity
  /\ \A i \in 1..Len(g.jobs) : JobAimed(g.jobs[i]) /\ (i # 1 => g.jobs[i].at = "start")
  /\ \A i \in 1..Len(g.events) : EventAimed(g.events[i])

\* A job of the current generation that is about a title.
Current(j) == j.live /\ j.kind # "cleanup"

\* The preload is one line of work: at most one job or callback of the current generation,
\* and nothing but cleanups behind it.
OneLine(g) ==
  /\ \A i \in 1..Len(g.jobs) : Current(g.jobs[i]) =>
        /\ \A j \in 1..Len(g.jobs) : j > i => g.jobs[j].kind = "cleanup"
        /\ \A k \in 1..Len(g.events) : ~g.events[k].live
  /\ \A i \in 1..Len(g.events) : g.events[i].live =>
        /\ \A j \in 1..Len(g.jobs) : g.jobs[j].kind = "cleanup"
        /\ \A k \in 1..Len(g.events) : k # i => ~g.events[k].live

\* While the medium of e is prepared for d, the entry is PREPARING for d, unless the operator
\* skips it, which the queue cache shows, and then removes it, which it does not.
Prepared(g, e, d) ==
  \/ g.row[e] = [status |-> "preparing", deck |-> d]
  \/ /\ "skip" \in Operators /\ g.row[e].status = "skipped"
     /\ g.ctl.cache[e].status \notin {"waiting", "preparing", "removed"}
  \/ {"skip", "remove"} \subseteq Operators /\ g.row[e].status = "removed"

Marked(g) ==
  /\ \A i \in 1..Len(g.jobs) :
        Current(g.jobs[i]) /\ g.jobs[i].kind = "load" /\ g.jobs[i].at = "marked"
          => Prepared(g, g.jobs[i].e, g.jobs[i].d)
  /\ \A i \in 1..Len(g.events) :
        g.events[i].live /\ g.events[i].kind = "complete" => Prepared(g, g.events[i].e, g.events[i].d)

Inv(g) == Base(g) /\ OneLine(g) /\ Marked(g)
LineInv == Inv(G)

\* Nothing of the current generation is outstanding.
Idled(g) == /\ \A i \in 1..Len(g.jobs) : ~Current(g.jobs[i])
            /\ \A i \in 1..Len(g.events) : ~g.events[i].live
----------------------------------------------------------------------------
(* Sequences of jobs and of callbacks.                                     *)

LEMMA StaleJobs ==
  ASSUME NEW s \in Seq(JobRecords)
  PROVE  /\ Stale(s) \in Seq(JobRecords) /\ Len(Stale(s)) = Len(s)
         /\ \A i \in 1..Len(s) :
               /\ Stale(s)[i].kind = s[i].kind /\ Stale(s)[i].e = s[i].e /\ Stale(s)[i].d = s[i].d /\ Stale(s)[i].at = s[i].at
               /\ ~Stale(s)[i].live
<1>1. DOMAIN s = 1..Len(s) /\ Len(s) \in Nat /\ \A i \in 1..Len(s) : s[i] \in JobRecords
  OBVIOUS
<1>2. ASSUME NEW r \in JobRecords
      PROVE  [r EXCEPT !.live = FALSE] \in JobRecords
  BY DEF JobRecords
<1>3. Stale(s) = [i \in 1..Len(s) |-> [s[i] EXCEPT !.live = FALSE]]
  BY <1>1 DEF Stale
<1>4. \A i \in 1..Len(s) : [s[i] EXCEPT !.live = FALSE] \in JobRecords
  BY <1>1, <1>2
<1>5. Stale(s) \in Seq(JobRecords) /\ Len(Stale(s)) = Len(s)
  BY <1>1, <1>3, <1>4
<1>6. \A i \in 1..Len(s) : Stale(s)[i] = [s[i] EXCEPT !.live = FALSE]
  BY <1>3
<1>7. ASSUME NEW i \in 1..Len(s)
      PROVE  Stale(s)[i].kind = s[i].kind /\ Stale(s)[i].e = s[i].e /\ Stale(s)[i].d = s[i].d /\ Stale(s)[i].at = s[i].at /\ ~Stale(s)[i].live
  BY <1>1, <1>6 DEF JobRecords
<1>8. QED
  BY <1>5, <1>7

LEMMA StaleEvents ==
  ASSUME NEW s \in Seq(EventRecords)
  PROVE  /\ Stale(s) \in Seq(EventRecords) /\ Len(Stale(s)) = Len(s)
         /\ \A i \in 1..Len(s) :
               /\ Stale(s)[i].kind = s[i].kind /\ Stale(s)[i].e = s[i].e /\ Stale(s)[i].d = s[i].d
               /\ ~Stale(s)[i].live
<1>1. DOMAIN s = 1..Len(s) /\ Len(s) \in Nat /\ \A i \in 1..Len(s) : s[i] \in EventRecords
  OBVIOUS
<1>2. ASSUME NEW r \in EventRecords
      PROVE  [r EXCEPT !.live = FALSE] \in EventRecords
  BY DEF EventRecords
<1>3. Stale(s) = [i \in 1..Len(s) |-> [s[i] EXCEPT !.live = FALSE]]
  BY <1>1 DEF Stale
<1>4. \A i \in 1..Len(s) : [s[i] EXCEPT !.live = FALSE] \in EventRecords
  BY <1>1, <1>2
<1>5. Stale(s) \in Seq(EventRecords) /\ Len(Stale(s)) = Len(s)
  BY <1>1, <1>3, <1>4
<1>6. \A i \in 1..Len(s) : Stale(s)[i] = [s[i] EXCEPT !.live = FALSE]
  BY <1>3
<1>7. ASSUME NEW i \in 1..Len(s)
      PROVE  Stale(s)[i].kind = s[i].kind /\ Stale(s)[i].e = s[i].e /\ Stale(s)[i].d = s[i].d /\ ~Stale(s)[i].live
  BY <1>1, <1>6 DEF EventRecords
<1>8. QED
  BY <1>5, <1>7

LEMMA Appended ==
  ASSUME NEW S, NEW s \in Seq(S), NEW x \in S
  PROVE  /\ Append(s, x) \in Seq(S) /\ Len(Append(s, x)) = Len(s) + 1 /\ Len(s) \in Nat
         /\ \A i \in 1..Len(s) : Append(s, x)[i] = s[i]
         /\ Append(s, x)[Len(s) + 1] = x
OBVIOUS

LEMMA Rest ==
  ASSUME NEW S, NEW s \in Seq(S), s # << >>
  PROVE  /\ Tail(s) \in Seq(S) /\ Len(Tail(s)) = Len(s) - 1 /\ Len(s) \in Nat \ {0}
         /\ \A i \in 1..Len(s) - 1 : Tail(s)[i] = s[i + 1]
OBVIOUS
----------------------------------------------------------------------------
(* Functions on g that every handler is made of.                           *)

\* The new generation: everything outstanding is of an older one.
LEMMA OutdateIs ==
  ASSUME NEW g, Base(g)
  PROVE  /\ Base(Outdate(g)) /\ Idled(Outdate(g))
         /\ Outdate(g).row = g.row /\ Outdate(g).commits = g.commits
         /\ Outdate(g).ctl = [g.ctl EXCEPT !.busy = FALSE]
         /\ Len(Outdate(g).events) = Len(g.events) /\ Len(Outdate(g).jobs) = Len(g.jobs)
<1> DEFINE h == Outdate(g)
<1>1. /\ g.jobs \in Seq(JobRecords) /\ g.events \in Seq(EventRecords) /\ g.ctl \in Ctls
      /\ Len(g.jobs) \in Nat /\ Len(g.events) \in Nat
  BY DEF Base, States
<1>2. [g.ctl EXCEPT !.busy = FALSE] \in Ctls
  BY <1>1 DEF Ctls
<1>3. /\ h.row = g.row /\ h.commits = g.commits /\ h.ctl = [g.ctl EXCEPT !.busy = FALSE]
      /\ h.jobs = Stale(g.jobs) /\ h.events = Stale(g.events) /\ h.timer = NoTimer
  BY DEF Outdate, Base, States
<1>4. Stale(g.jobs) \in Seq(JobRecords) /\ Stale(g.events) \in Seq(EventRecords)
  BY <1>1, StaleJobs, StaleEvents
<1>5. h \in States
  BY <1>2, <1>4 DEF Outdate, Base, States, Timers
<1> HIDE DEF h
<1>6. \A i \in 1..Len(g.jobs) : /\ h.jobs[i].kind = g.jobs[i].kind /\ h.jobs[i].e = g.jobs[i].e
                                /\ h.jobs[i].d = g.jobs[i].d /\ h.jobs[i].at = g.jobs[i].at
                                /\ ~h.jobs[i].live
  BY <1>1, <1>3, StaleJobs
<1>7. \A i \in 1..Len(g.events) : /\ h.events[i].kind = g.events[i].kind /\ h.events[i].e = g.events[i].e
                                  /\ h.events[i].d = g.events[i].d /\ ~h.events[i].live
  BY <1>1, <1>3, StaleEvents
<1>8. Len(h.jobs) = Len(g.jobs) /\ Len(h.events) = Len(g.events)
  BY <1>1, <1>3, StaleJobs, StaleEvents
<1>9. \A i \in 1..Len(g.jobs) : JobAimed(h.jobs[i]) /\ (i # 1 => h.jobs[i].at = "start")
  BY <1>6 DEF Base, JobAimed
<1>10. \A i \in 1..Len(g.events) : EventAimed(h.events[i])
  BY <1>7 DEF Base, EventAimed
<1>11. Len(g.jobs) <= Capacity
  BY DEF Base
<1>12. Base(h)
  BY <1>5, <1>8, <1>9, <1>10, <1>11 DEF Base
<1>13. Idled(h)
  BY <1>6, <1>7, <1>8 DEF Idled, Current
<1>14. QED
  BY <1>3, <1>8, <1>12, <1>13 DEF h

LEMMA IdleIsInv ==
  ASSUME NEW g, Base(g), Idled(g)
  PROVE  Inv(g)
BY DEF Inv, OneLine, Marked, Idled

\* A job that is appended to a generation of which nothing is outstanding.
LEMMA SubmitsFirst ==
  ASSUME NEW g, Base(g), Idled(g),
         NEW job \in JobRecords, JobAimed(job), job.at = "start"
  PROVE  /\ Inv(Submit(g, job)) /\ Submit(g, job).events = g.events
         /\ Submit(g, job).row = g.row /\ Submit(g, job).ctl = g.ctl
<1>1. CASE ~HasRoom(g)
  BY <1>1, IdleIsInv DEF Submit
<1>2. CASE HasRoom(g)
  <2> DEFINE h == Submit(g, job)
  <2>1. g.jobs \in Seq(JobRecords) /\ Len(g.jobs) \in Nat /\ Capacity \in Nat
    BY PreloadAssumption DEF Base, States
  <2>2. /\ h.jobs = Append(g.jobs, job) /\ h.row = g.row /\ h.ctl = g.ctl /\ h.events = g.events
        /\ h = [row |-> g.row, ctl |-> g.ctl, jobs |-> Append(g.jobs, job),
                events |-> g.events, timer |-> g.timer, commits |-> g.commits]
    BY <1>2 DEF Submit, Base, States
  <2>3. /\ Append(g.jobs, job) \in Seq(JobRecords) /\ Len(Append(g.jobs, job)) = Len(g.jobs) + 1
        /\ \A i \in 1..Len(g.jobs) : Append(g.jobs, job)[i] = g.jobs[i]
        /\ Append(g.jobs, job)[Len(g.jobs) + 1] = job
    BY <2>1, Appended
  <2>4. h \in States
    BY <2>2, <2>3 DEF Base, States
  <2>5. Base(h)
    BY <1>2, <2>1, <2>2, <2>3, <2>4 DEF Base, HasRoom
  <2>6. OneLine(h)
    BY <2>1, <2>2, <2>3 DEF OneLine, Idled
  <2>7. Marked(h)
    BY <2>1, <2>2, <2>3 DEF Marked, Idled
  <2>8. QED
    BY <2>2, <2>5, <2>6, <2>7 DEF Inv
<1>3. QED
  BY <1>1, <1>2

\* A cleanup may come behind anything.
LEMMA SubmitsCleanup ==
  ASSUME NEW g, Inv(g), NEW job \in JobRecords, job.kind = "cleanup", job.at = "start"
  PROVE  Inv(Submit(g, job)) /\ Submit(g, job).events = g.events
<1>1. CASE ~HasRoom(g)
  BY <1>1 DEF Submit
<1>2. CASE HasRoom(g)
  <2> DEFINE h == Submit(g, job)
  <2>1. Base(g) /\ g.jobs \in Seq(JobRecords) /\ Len(g.jobs) \in Nat /\ Capacity \in Nat
    BY PreloadAssumption DEF Inv, Base, States
  <2>2. /\ h.jobs = Append(g.jobs, job) /\ h.row = g.row /\ h.ctl = g.ctl /\ h.events = g.events
        /\ h = [row |-> g.row, ctl |-> g.ctl, jobs |-> Append(g.jobs, job),
                events |-> g.events, timer |-> g.timer, commits |-> g.commits]
    BY <1>2, <2>1 DEF Submit, Base, States
  <2>3. /\ Append(g.jobs, job) \in Seq(JobRecords) /\ Len(Append(g.jobs, job)) = Len(g.jobs) + 1
        /\ \A i \in 1..Len(g.jobs) : Append(g.jobs, job)[i] = g.jobs[i]
        /\ Append(g.jobs, job)[Len(g.jobs) + 1] = job
    BY <2>1, Appended
  <2>4. h \in States
    BY <2>1, <2>2, <2>3 DEF Base, States
  <2>5. Base(h)
    BY <1>2, <2>1, <2>2, <2>3, <2>4 DEF Base, HasRoom, JobAimed
  <2>6. OneLine(h)
    BY <2>1, <2>2, <2>3 DEF Inv, OneLine, Current
  <2>7. Marked(h)
    <3>1. \A e, d : Prepared(g, e, d) => Prepared(h, e, d)
      BY <2>2 DEF Prepared
    <3>2. \A i \in 1..Len(g.jobs) + 1 : Current(h.jobs[i]) /\ h.jobs[i].kind = "load"
                                         => i \in 1..Len(g.jobs) /\ h.jobs[i] = g.jobs[i]
      BY <2>1, <2>2, <2>3
    <3>3. Len(h.jobs) = Len(g.jobs) + 1 /\ h.events = g.events
      BY <2>2, <2>3
    <3> HIDE DEF h
    <3>4. \A i \in 1..Len(g.jobs) + 1 :
             Current(h.jobs[i]) /\ h.jobs[i].kind = "load" /\ h.jobs[i].at = "marked"
               => Prepared(h, h.jobs[i].e, h.jobs[i].d)
      BY <3>1, <3>2 DEF Inv, Marked
    <3>5. \A i \in 1..Len(h.events) :
             h.events[i].live /\ h.events[i].kind = "complete" => Prepared(h, h.events[i].e, h.events[i].d)
      BY <3>1, <3>3 DEF Inv, Marked
    <3>6. QED
      BY <3>3, <3>4, <3>5 DEF Marked
  <2>8. QED
    BY <2>2, <2>5, <2>6, <2>7 DEF Inv
<1>3. QED
  BY <1>1, <1>2

\* A step of the GUI thread that leaves the pipeline alone and, of the rows, those that an
\* entry in preparation may have.
Aside(g, h) ==
  /\ h \in States /\ h.jobs = g.jobs /\ h.events = g.events
  /\ \A e \in Entries :
       /\ g.row[e].status \in {"preparing", "skipped", "removed"} => h.row[e] = g.row[e]
       /\ \/ h.ctl.cache[e] = g.ctl.cache[e] \/ h.ctl.cache[e].status = "played"
          \/ h.ctl.cache[e] = h.row[e]

LEMMA AsideKeeps ==
  ASSUME NEW g, NEW h, Inv(g), Aside(g, h)
  PROVE  Inv(h)
<1>1. Base(h)
  BY DEF Inv, Base, Aside
<1>2. OneLine(h)
  BY DEF Inv, OneLine, Aside
<1>3. ASSUME NEW e \in Entries, NEW d, Prepared(g, e, d)
      PROVE  Prepared(h, e, d)
  BY <1>3 DEF Prepared, Aside
<1>4. /\ \A i \in 1..Len(g.jobs) : g.jobs[i].kind = "load" => g.jobs[i].e \in Entries
      /\ \A i \in 1..Len(g.events) : g.events[i].kind = "complete" => g.events[i].e \in Entries
  BY DEF Inv, Base, JobAimed, EventAimed
<1>5. Marked(h)
  BY <1>3, <1>4 DEF Inv, Marked, Aside
<1>6. QED
  BY <1>1, <1>2, <1>5 DEF Inv

\* A step that leaves the pipeline alone.
LEMMA SamePipe ==
  ASSUME NEW g, NEW h, h \in States, h.jobs = g.jobs, h.events = g.events
  PROVE  (Base(g) => Base(h)) /\ (Idled(g) => Idled(h))
BY DEF Base, Idled

LEMMA Typed ==
  ASSUME NEW g, Base(g)
  PROVE  /\ g \in States /\ g.row \in Rows /\ g.ctl \in Ctls /\ g.ctl.cache \in Rows
         /\ g.ctl.deck \in [Decks -> DeckStates] /\ g.commits \subseteq EndRecords
         /\ g.jobs \in Seq(JobRecords) /\ g.events \in Seq(EventRecords) /\ g.timer \in Timers
         /\ Len(g.jobs) \in Nat /\ Len(g.events) \in Nat
BY DEF Base, States, Ctls

LEMMA MovedIs ==
  ASSUME NEW r \in Rows, NEW e \in Entries, NEW target \in Statuses, NEW d \in SomeDeck
  PROVE  /\ Moved(r, e, target, d) \in Rows
         /\ Moved(r, e, target, d)[e].status = target
         /\ \A x \in Entries : x # e => Moved(r, e, target, d)[x] = r[x]
<1>1. DeckAfter(r, e, target, d) \in SomeDeck
  BY DEF DeckAfter, Rows, SomeDeck
<1>2. QED
  BY <1>1 DEF Moved, Rows, SomeDeck

\* What the controller has changed, if it is no more than flags.
LEMMA FlagsAside ==
  ASSUME NEW g, Base(g), NEW h, h \in States, h.jobs = g.jobs, h.events = g.events, h.row = g.row,
         h.ctl.cache = g.ctl.cache
  PROVE  Aside(g, h)
BY DEF Aside

LEMMA RefreshAside ==
  ASSUME NEW g, Base(g)
  PROVE  /\ Aside(g, Refresh(g)) /\ Refresh(g).jobs = g.jobs /\ Refresh(g).events = g.events
         /\ Refresh(g).row = g.row
<1>1. g \in States /\ g.row \in Rows /\ g.ctl \in Ctls
  BY Typed
<1>2. [g.ctl EXCEPT !.cache = g.row] \in Ctls
  BY <1>1 DEF Ctls
<1>3. /\ Refresh(g) \in States /\ Refresh(g).jobs = g.jobs /\ Refresh(g).events = g.events
      /\ Refresh(g).row = g.row /\ Refresh(g).ctl = [g.ctl EXCEPT !.cache = g.row]
  BY <1>1, <1>2 DEF Refresh, States
<1>4. Refresh(g).ctl.cache = g.row
  BY <1>1, <1>3 DEF Ctls
<1>5. QED
  BY <1>3, <1>4 DEF Aside

LEMMA RefreshKeeps ==
  ASSUME NEW g, Inv(g)
  PROVE  Inv(Refresh(g)) /\ Refresh(g).events = g.events /\ Refresh(g).row = g.row
BY RefreshAside, AsideKeeps DEF Inv

LEMMA StartDeckAside ==
  ASSUME NEW g, Base(g), NEW d \in Decks
  PROVE  Aside(g, StartDeck(g, d)) /\ StartDeck(g, d).events = g.events
<1> DEFINE k == g.ctl.deck[d]
           heard == CASE Startable(g, k.queue) -> k.queue
                      [] Startable(g, k.track) /\ g.row[k.track].deck = d -> k.track
                      [] OTHER -> NoEntry
           kk == [k EXCEPT !.phase = "playing", !.queue = heard]
           dd == [g.ctl.deck EXCEPT ![d] = kk]
           cc == [g.ctl EXCEPT !.deck = dd]
           left == {c \in g.commits : c.e # k.queue}
           started == [g EXCEPT !.ctl.deck[d] = kk, !.commits = left]
<1>1. g \in States /\ g.row \in Rows /\ g.ctl \in Ctls /\ k \in DeckStates /\ g.commits \subseteq EndRecords
      /\ g.ctl.deck \in [Decks -> DeckStates] /\ g.ctl.cache \in Rows
  BY Typed
<1>2. heard \in SomeEntry /\ (heard # NoEntry => heard \in Entries /\ g.row[heard].status \in {"ready", "playing", "played"})
  BY <1>1 DEF Startable, DeckStates, SomeEntry
<1> HIDE DEF heard
<1>3. kk \in DeckStates
  BY <1>1, <1>2 DEF DeckStates
<1> HIDE DEF kk
<1>4. cc \in Ctls /\ cc.cache = g.ctl.cache
  BY <1>1, <1>3 DEF Ctls
<1>5. started = [g EXCEPT !.ctl = cc, !.commits = left]
  BY <1>1 DEF States
<1>6. left \subseteq EndRecords
  BY <1>1
<1> HIDE DEF cc, left
<1>7. /\ started \in States /\ started.ctl = cc /\ started.row = g.row /\ started.jobs = g.jobs
      /\ started.events = g.events
  BY <1>1, <1>4, <1>5, <1>6 DEF States
<1> HIDE DEF started
<1>8. CASE heard = NoEntry
  <2>1. StartDeck(g, d) = Refresh(started)
    BY <1>8 DEF StartDeck, heard, kk, started, left
  <2>2. Base(started)
    BY <1>7, SamePipe
  <2>3. Aside(started, Refresh(started)) /\ Refresh(started).events = started.events /\ Refresh(started).row = g.row
    BY <1>7, <2>2, RefreshAside
  <2>4. QED
    BY <1>4, <1>7, <2>1, <2>3 DEF Aside
<1>9. CASE heard # NoEntry
  <2> DEFINE rr == [g.row EXCEPT ![heard] = [g.row[heard] EXCEPT !.status = "playing"]]
             s == [started EXCEPT !.row[heard].status = "playing"]
  <2>1. StartDeck(g, d) = Refresh(s)
    BY <1>9 DEF StartDeck, heard, kk, started, left
  <2>2. heard \in Entries /\ g.row[heard] \in Assignments
    BY <1>1, <1>2, <1>9 DEF Rows, Assignments, SomeDeck
  <2>3. [g.row[heard] EXCEPT !.status = "playing"] \in Assignments
    BY <2>2 DEF Assignments, Statuses
  <2>4. rr \in Rows /\ \A x \in Entries : x # heard => rr[x] = g.row[x]
    BY <1>1, <2>2, <2>3 DEF Rows, Assignments, SomeDeck
  <2>5. s = [started EXCEPT !.row = rr]
    BY <1>7 DEF States
  <2> HIDE DEF rr
  <2>6. /\ s \in States /\ s.row = rr /\ s.ctl = cc /\ s.jobs = g.jobs /\ s.events = g.events
    BY <1>7, <2>4, <2>5 DEF States
  <2> HIDE DEF s
  <2>7. Base(s)
    BY <2>6, SamePipe
  <2>8. Aside(s, Refresh(s)) /\ Refresh(s).events = s.events /\ Refresh(s).row = s.row
    BY <2>7, RefreshAside
  <2>9. \A x \in Entries : g.row[x].status \in {"preparing", "skipped", "removed"} => rr[x] = g.row[x]
    BY <1>2, <1>9, <2>4
  <2>10. QED
    BY <1>4, <2>1, <2>6, <2>8, <2>9 DEF Aside
<1>10. QED
  BY <1>8, <1>9

LEMMA StartDeckKeeps ==
  ASSUME NEW g, Inv(g), NEW d \in Decks
  PROVE  Inv(StartDeck(g, d)) /\ StartDeck(g, d).events = g.events
BY StartDeckAside, AsideKeeps DEF Inv

LEMMA StartNextKeeps ==
  ASSUME NEW g, Inv(g)
  PROVE  Inv(StartNext(g)) /\ StartNext(g).events = g.events
<1> DEFINE h == [g EXCEPT !.ctl.running = FALSE, !.ctl.paused = FALSE]
           d == IF DeckA \in ReadyDecks(g) THEN DeckA ELSE DeckB
<1>1. Base(g) /\ g \in States /\ g.ctl \in Ctls
  BY Typed DEF Inv
<1>2. d \in Decks
  BY DEF Decks
<1>3. Inv(StartDeck(g, d)) /\ StartDeck(g, d).events = g.events
  BY <1>2, StartDeckKeeps
<1>4. Inv(h) /\ h.events = g.events
  <2> DEFINE c == [g.ctl EXCEPT !.running = FALSE, !.paused = FALSE]
  <2>1. c \in Ctls /\ c.cache = g.ctl.cache
    BY <1>1 DEF Ctls
  <2>2. h = [g EXCEPT !.ctl = c]
    BY <1>1 DEF States, Ctls
  <2> HIDE DEF c
  <2>3. h \in States /\ h.jobs = g.jobs /\ h.events = g.events /\ h.row = g.row /\ h.ctl = c
    BY <1>1, <2>1, <2>2 DEF States
  <2>4. QED
    BY <1>1, <2>1, <2>3, FlagsAside, AsideKeeps
<1> HIDE DEF h, d
<1>5. StartNext(g) \in {g, StartDeck(g, d), h}
  BY DEF StartNext, d, h
<1>6. QED
  BY <1>3, <1>4, <1>5

\* A run that is paused, or overridden.
LEMMA PauseIs ==
  ASSUME NEW g, Base(g)
  PROVE  /\ Base(Pause(g)) /\ Idled(Pause(g)) /\ Inv(Pause(g)) /\ Pause(g).row = g.row
         /\ Len(Pause(g).events) = Len(g.events)
<1> DEFINE o == Outdate(g)
           c == [o.ctl EXCEPT !.running = FALSE, !.paused = TRUE, !.mix = NoMix]
           h == [o EXCEPT !.ctl.running = FALSE, !.ctl.paused = TRUE, !.ctl.mix = NoMix]
<1>1. Base(o) /\ Idled(o) /\ o.row = g.row /\ Len(o.events) = Len(g.events)
  BY OutdateIs
<1>2. Pause(g) = h
  BY DEF Pause
<1> HIDE DEF o
<1>3. o \in States /\ o.ctl \in Ctls
  BY <1>1, Typed
<1>4. c \in Ctls
  BY <1>3 DEF Ctls, Mixes, NoMix, SomeDeck, SomeEntry
<1>5. h = [o EXCEPT !.ctl = c]
  BY <1>3 DEF States, Ctls
<1> HIDE DEF c
<1>6. h \in States /\ h.jobs = o.jobs /\ h.events = o.events /\ h.row = o.row
  BY <1>3, <1>4, <1>5 DEF States
<1> HIDE DEF h
<1>7. QED
  BY <1>1, <1>2, <1>6, SamePipe, IdleIsInv

LEMMA OverrideIs ==
  ASSUME NEW g, Base(g)
  PROVE  /\ Base(Override(g)) /\ Idled(Override(g)) /\ Inv(Override(g)) /\ Override(g).row = g.row
         /\ Len(Override(g).events) = Len(g.events)
<1> DEFINE o == Outdate(g)
           c == [o.ctl EXCEPT !.streak = 0, !.running = FALSE, !.mix = NoMix]
           h == [o EXCEPT !.ctl.streak = 0, !.ctl.running = FALSE, !.ctl.mix = NoMix]
<1>1. Base(o) /\ Idled(o) /\ o.row = g.row /\ Len(o.events) = Len(g.events)
  BY OutdateIs
<1>2. Override(g) = h
  BY DEF Override
<1> HIDE DEF o
<1>3. o \in States /\ o.ctl \in Ctls
  BY <1>1, Typed
<1>4. 0 \in 0..MaximumFailures /\ NoMix \in Mixes
  BY DEF Mixes, NoMix, SomeDeck, SomeEntry, MaximumFailures
<1>5. c \in Ctls
  BY <1>3, <1>4 DEF Ctls
<1>6. h = [o EXCEPT !.ctl = c]
  BY <1>3 DEF States, Ctls
<1> HIDE DEF c
<1>7. h \in States /\ h.jobs = o.jobs /\ h.events = o.events /\ h.row = o.row
  BY <1>3, <1>5, <1>6 DEF States
<1> HIDE DEF h
<1>8. QED
  BY <1>1, <1>2, <1>7, SamePipe, IdleIsInv

LEMMA JobIs ==
  ASSUME NEW kind \in JobKinds, NEW e \in SomeEntry, NEW d \in SomeDeck
  PROVE  /\ Job(kind, e, d) \in JobRecords /\ Job(kind, e, d).kind = kind /\ Job(kind, e, d).e = e
         /\ Job(kind, e, d).d = d /\ Job(kind, e, d).at = "start"
<1>1. [x \in Decks |-> NoEntry] \in [Decks -> SomeEntry]
  BY DEF SomeEntry
<1>2. QED
  BY <1>1 DEF Job, JobRecords, Stages

LEMMA CleanupKeeps ==
  ASSUME NEW g, Inv(g), NEW d \in SomeDeck
  PROVE  /\ Inv(Submit(g, Job("cleanup", NoEntry, d)))
         /\ Submit(g, Job("cleanup", NoEntry, d)).events = g.events
<1>1. Job("cleanup", NoEntry, d) \in JobRecords /\ Job("cleanup", NoEntry, d).kind = "cleanup"
      /\ Job("cleanup", NoEntry, d).at = "start"
  BY JobIs DEF JobKinds, SomeEntry
<1>2. QED
  BY <1>1, SubmitsCleanup

\* A flag that is set behind a job that was just submitted.
LEMMA FlagsKeep ==
  ASSUME NEW g, Inv(g), NEW c \in Ctls, c.cache = g.ctl.cache
  PROVE  Inv([g EXCEPT !.ctl = c]) /\ [g EXCEPT !.ctl = c].events = g.events /\ [g EXCEPT !.ctl = c].row = g.row
<1> DEFINE h == [g EXCEPT !.ctl = c]
<1>1. Base(g) /\ g \in States
  BY Typed DEF Inv
<1>2. h \in States /\ h.jobs = g.jobs /\ h.events = g.events /\ h.row = g.row /\ h.ctl = c
  BY <1>1 DEF States
<1> HIDE DEF h
<1>3. Inv(h)
  BY <1>1, <1>2, FlagsAside, AsideKeeps
<1>4. QED
  BY <1>2, <1>3 DEF h

LEMMA AutoLoadKeeps ==
  ASSUME NEW g, Inv(g), NEW recovery \in BOOLEAN
  PROVE  Inv(AutoLoad(g, recovery)) /\ Len(AutoLoad(g, recovery).events) = Len(g.events)
<1> DEFINE o == Outdate(g)
           job == [Job("search", NoEntry, NoDeck) EXCEPT !.recovery = recovery]
           s == Submit(o, job)
           c == [s.ctl EXCEPT !.busy = HasRoom(g)]
           h == [s EXCEPT !.ctl.busy = HasRoom(g)]
<1>1. Base(o) /\ Idled(o) /\ Len(o.events) = Len(g.events)
  BY OutdateIs DEF Inv
<1>2. Inv(Pause(g)) /\ Len(Pause(g).events) = Len(g.events)
  BY PauseIs DEF Inv
<1>3. job \in JobRecords /\ JobAimed(job) /\ job.at = "start"
  <2>1. Job("search", NoEntry, NoDeck) \in JobRecords /\ Job("search", NoEntry, NoDeck).kind = "search"
        /\ Job("search", NoEntry, NoDeck).e = NoEntry /\ Job("search", NoEntry, NoDeck).at = "start"
    BY JobIs DEF JobKinds, SomeEntry, SomeDeck
  <2>2. QED
    BY <2>1 DEF JobRecords, JobAimed
<1>4. Inv(s) /\ s.events = o.events
  BY <1>1, <1>3, SubmitsFirst
<1>5. AutoLoad(g, recovery) \in {g, Pause(g), h}
  BY DEF AutoLoad
<1> HIDE DEF s
<1>6. s \in States /\ s.ctl \in Ctls
  BY <1>4, Typed DEF Inv
<1>7. HasRoom(g) \in BOOLEAN
  BY DEF HasRoom
<1>8. c \in Ctls /\ c.cache = s.ctl.cache
  BY <1>6, <1>7 DEF Ctls
<1>9. h = [s EXCEPT !.ctl = c]
  BY <1>6 DEF States
<1> HIDE DEF c, h
<1>10. Inv(h) /\ h.events = s.events
  BY <1>4, <1>8, <1>9, FlagsKeep
<1>11. QED
  BY <1>1, <1>2, <1>4, <1>5, <1>10

LEMMA StartPreloadKeeps ==
  ASSUME NEW g, Inv(g), NEW e \in Entries, NEW d \in Decks
  PROVE  Inv(StartPreload(g, e, d)) /\ Len(StartPreload(g, e, d).events) = Len(g.events)
<1> DEFINE o == Outdate(g)
           job == Job("load", e, d)
           s == Submit(o, job)
           c == [s.ctl EXCEPT !.busy = TRUE]
           f == [s EXCEPT !.ctl = c]
           h == [f EXCEPT !.timer = [e |-> e, d |-> d]]
<1>1. Base(o) /\ Idled(o) /\ Len(o.events) = Len(g.events)
  BY OutdateIs DEF Inv
<1>2. job \in JobRecords /\ JobAimed(job) /\ job.at = "start"
  BY JobIs DEF JobKinds, SomeEntry, SomeDeck, JobAimed
<1>3. Inv(s) /\ s.events = o.events
  BY <1>1, <1>2, SubmitsFirst
<1>4. StartPreload(g, e, d) = [s EXCEPT !.ctl.busy = TRUE, !.timer = [e |-> e, d |-> d]]
  BY DEF StartPreload
<1> HIDE DEF s
<1>5. s \in States /\ s.ctl \in Ctls
  BY <1>3, Typed DEF Inv
<1>6. c \in Ctls /\ c.cache = s.ctl.cache
  BY <1>5 DEF Ctls
<1>7. StartPreload(g, e, d) = h
  BY <1>4, <1>5 DEF States
<1> HIDE DEF c
<1>8. Inv(f) /\ f.events = s.events
  BY <1>3, <1>6, FlagsKeep
<1> HIDE DEF f
<1>9. f \in States
  BY <1>8, Typed DEF Inv
<1>10. /\ h \in States /\ h.jobs = f.jobs /\ h.events = f.events /\ h.row = f.row /\ h.ctl = f.ctl
  BY <1>9 DEF States, Timers
<1> HIDE DEF h
<1>11. Inv(h)
  BY <1>8, <1>10, FlagsAside, AsideKeeps DEF Inv
<1>12. QED
  BY <1>1, <1>3, <1>7, <1>8, <1>10, <1>11

LEMMA ContinueKeeps ==
  ASSUME NEW g, Inv(g)
  PROVE  Inv(ContinueAfterFailure(g)) /\ Len(ContinueAfterFailure(g).events) = Len(g.events)
<1> DEFINE n == IF g.ctl.streak < MaximumFailures THEN g.ctl.streak + 1 ELSE g.ctl.streak
           c == [g.ctl EXCEPT !.streak = n]
           counted == [g EXCEPT !.ctl.streak = IF @ < MaximumFailures THEN @ + 1 ELSE @]
<1>1. g \in States /\ g.ctl \in Ctls
  BY Typed DEF Inv
<1>2. n \in 0..MaximumFailures
  <2>1. g.ctl.streak \in 0..MaximumFailures
    BY <1>1 DEF Ctls
  <2>2. QED
    BY <2>1 DEF MaximumFailures
<1>3. counted = [g EXCEPT !.ctl = c]
  BY <1>1 DEF States
<1> HIDE DEF n
<1>4. c \in Ctls /\ c.cache = g.ctl.cache
  BY <1>1, <1>2 DEF Ctls
<1> HIDE DEF c
<1>5. Inv(counted) /\ counted.events = g.events
  BY <1>3, <1>4, FlagsKeep
<1>6. ContinueAfterFailure(g) \in {Pause(counted), AutoLoad(counted, TRUE)}
  BY DEF ContinueAfterFailure
<1> HIDE DEF counted
<1>7. QED
  BY <1>5, <1>6, PauseIs, AutoLoadKeeps DEF Inv

\* Playback that ends: the cache shows its entries as played.
LEMMA EndedAside ==
  ASSUME NEW g, Base(g), NEW d \in Decks, NEW queue \in SomeEntry, NEW keepDeck \in BOOLEAN
  PROVE  /\ Aside(g, Ended(g, d, queue, keepDeck)) /\ Ended(g, d, queue, keepDeck).jobs = g.jobs
         /\ Ended(g, d, queue, keepDeck).events = g.events /\ Ended(g, d, queue, keepDeck).row = g.row
         /\ Ended(g, d, queue, keepDeck).ctl.deck = g.ctl.deck
<1> DEFINE ending == EndingOn(d, queue)
           more == g.commits \cup {[e |-> x, d |-> d] : x \in ending}
           cache == [x \in Entries |-> IF x \notin ending THEN g.ctl.cache[x]
                      ELSE [status |-> "played", deck |-> IF keepDeck THEN g.ctl.cache[x].deck ELSE NoDeck]]
           c == [g.ctl EXCEPT !.cache = cache]
           h == [g EXCEPT !.commits = more, !.ctl = c]
<1>1. g \in States /\ g.ctl \in Ctls /\ g.ctl.cache \in Rows /\ g.commits \subseteq EndRecords
  BY Typed
<1>2. ending \subseteq Entries
  BY DEF EndingOn, SomeEntry
<1>3. Ended(g, d, queue, keepDeck) = h
  BY <1>1 DEF Ended, States, Ctls
<1> HIDE DEF ending
<1>4. more \subseteq EndRecords
  BY <1>1, <1>2 DEF EndRecords
<1>5. cache \in Rows
  BY <1>1 DEF Rows, Statuses, SomeDeck
<1>6. \A e \in Entries : cache[e] = g.ctl.cache[e] \/ cache[e].status = "played"
  OBVIOUS
<1> HIDE DEF more, cache
<1>7. c \in Ctls /\ c.cache = cache /\ c.deck = g.ctl.deck
  BY <1>1, <1>5 DEF Ctls
<1> HIDE DEF c
<1>8. h \in States /\ h.jobs = g.jobs /\ h.events = g.events /\ h.row = g.row /\ h.ctl = c
  BY <1>1, <1>4, <1>7 DEF States
<1> HIDE DEF h
<1>9. QED
  BY <1>3, <1>6, <1>7, <1>8 DEF Aside
----------------------------------------------------------------------------
(* Steps.                                                                  *)

\* A handler's result is the next state.
LEMMA DoneKeeps ==
  ASSUME NEW h, Inv(h), Done(h)
  PROVE  LineInv' /\ events' = h.events
<1>1. h \in States
  BY Typed DEF Inv
<1>2. h = [row |-> h.row, ctl |-> h.ctl, jobs |-> h.jobs, events |-> h.events,
           timer |-> h.timer, commits |-> h.commits]
  BY <1>1 DEF States
<1>3. h = G'
  BY <1>2 DEF Done, G
<1>4. QED
  BY <1>3 DEF LineInv, Done

LEMMA GIs ==
  /\ G.row = row /\ G.ctl = ctl /\ G.jobs = jobs /\ G.events = events /\ G.timer = timer /\ G.commits = commits
  /\ G'.row = row' /\ G'.ctl = ctl' /\ G'.jobs = jobs' /\ G'.events = events' /\ G'.timer = timer'
  /\ G'.commits = commits'
BY DEF G

LEMMA StateIs ==
  ASSUME LineInv
  PROVE  /\ Inv(G) /\ Base(G) /\ row \in Rows /\ ctl \in Ctls /\ jobs \in Seq(JobRecords)
         /\ events \in Seq(EventRecords) /\ timer \in Timers /\ commits \subseteq EndRecords
         /\ ctl.deck \in [Decks -> DeckStates] /\ ctl.cache \in Rows
<1>1. Inv(G) /\ Base(G)
  BY DEF LineInv, Inv
<1>2. QED
  BY <1>1, GIs, Typed

LEMMA NextIs ==
  ASSUME row' \in Rows, ctl' \in Ctls, jobs' \in Seq(JobRecords), events' \in Seq(EventRecords),
         timer' \in Timers, commits' \subseteq EndRecords
  PROVE  G' \in States
BY DEF G, States

\* Steps beside the pipeline that change rows only.
LEMMA RowsKeep ==
  ASSUME LineInv, UNCHANGED <<ctl, jobs, events, timer>>, row' \in Rows, commits' \subseteq EndRecords,
         \A e \in Entries : row[e].status \in {"preparing", "skipped", "removed"} => row'[e] = row[e]
  PROVE  LineInv'
<1>1. G' \in States
  BY StateIs, NextIs
<1>2. Aside(G, G')
  BY <1>1, GIs DEF Aside
<1>3. Inv(G')
  BY <1>2, StateIs, AsideKeeps
<1>4. QED
  BY <1>3 DEF LineInv

\* The running job goes on.
LEMMA HeadAdvances ==
  ASSUME LineInv, jobs # << >>, NEW j \in JobRecords, jobs' = [jobs EXCEPT ![1] = j],
         j.kind = jobs[1].kind, j.kind # "cleanup", j.live = jobs[1].live, JobAimed(j),
         row' \in Rows, UNCHANGED <<ctl, events, timer, commits>>,
         Current(j) /\ j.kind = "load" /\ j.at = "marked" => Prepared(G', j.e, j.d)
  PROVE  LineInv'
<1>1. /\ Inv(G) /\ Base(G) /\ jobs \in Seq(JobRecords) /\ Len(jobs) \in Nat \ {0}
  BY StateIs
<1>2. /\ jobs' \in Seq(JobRecords) /\ Len(jobs') = Len(jobs) /\ jobs'[1] = j
      /\ \A i \in 1..Len(jobs) : i # 1 => jobs'[i] = jobs[i]
  BY <1>1
<1>3. G' \in States
  BY <1>2, StateIs, NextIs
<1>4. Base(G')
  BY <1>1, <1>2, <1>3, GIs DEF Base
<1>5. \A i \in 1..Len(jobs) : jobs'[i].kind = jobs[i].kind /\ jobs'[i].live = jobs[i].live
  BY <1>1, <1>2
<1>6. OneLine(G')
  BY <1>1, <1>2, <1>5, GIs DEF Inv, OneLine, Current
<1>7. \A i \in 1..Len(events) : ~events[i].live
  BY <1>1, GIs DEF Inv, OneLine
<1>8. \A i \in 1..Len(jobs) : i # 1 => jobs'[i].at = "start"
  BY <1>1, <1>2, GIs DEF Base
<1>9. Marked(G')
  BY <1>2, <1>7, <1>8, GIs DEF Marked
<1>10. QED
  BY <1>4, <1>6, <1>9 DEF Inv, LineInv

\* The running job ends, silently or with a callback.
LEMMA HeadEnds ==
  ASSUME LineInv, jobs # << >>, jobs' = Tail(jobs), row' \in Rows, UNCHANGED <<ctl, timer, commits>>,
         jobs[1].kind = "cleanup" => row' = row,
         \/ events' = events
         \/ \E v \in EventRecords : /\ events' = Append(events, v)
                                    /\ EventAimed(v) /\ (v.live => Current(jobs[1]))
                                    /\ v.live /\ v.kind = "complete" => Prepared(G', v.e, v.d)
  PROVE  LineInv' /\ Len(events') >= Len(events)
<1>1. /\ Inv(G) /\ Base(G) /\ jobs \in Seq(JobRecords) /\ Len(jobs) \in Nat \ {0}
      /\ events \in Seq(EventRecords) /\ Len(events) \in Nat
  BY StateIs
<1>2. /\ jobs' \in Seq(JobRecords) /\ Len(jobs') = Len(jobs) - 1
      /\ \A i \in 1..Len(jobs) - 1 : jobs'[i] = jobs[i + 1]
  BY <1>1, Rest
<1>3. /\ \A i \in 1..Len(jobs) : JobAimed(jobs[i]) /\ (i # 1 => jobs[i].at = "start")
      /\ \A i \in 1..Len(events) : EventAimed(events[i])
      /\ Len(jobs) <= Capacity
  BY <1>1, GIs DEF Base
<1>4. \A i \in 1..Len(jobs') : JobAimed(jobs'[i]) /\ jobs'[i].at = "start"
  BY <1>1, <1>2, <1>3
<1>5. /\ \A i \in 1..Len(jobs) : Current(jobs[i]) =>
           /\ \A j \in 1..Len(jobs) : j > i => jobs[j].kind = "cleanup"
           /\ \A k \in 1..Len(events) : ~events[k].live
      /\ \A i \in 1..Len(events) : events[i].live =>
           /\ \A j \in 1..Len(jobs) : jobs[j].kind = "cleanup"
           /\ \A k \in 1..Len(events) : k # i => ~events[k].live
  BY <1>1, GIs DEF Inv, OneLine
<1>6. \A i \in 1..Len(jobs') : Current(jobs'[i]) =>
         /\ \A j \in 1..Len(jobs') : j > i => jobs'[j].kind = "cleanup"
         /\ \A k \in 1..Len(events) : ~events[k].live
         /\ ~Current(jobs[1])
  <2>1. SUFFICES ASSUME NEW i \in 1..Len(jobs'), Current(jobs'[i])
                 PROVE  /\ \A j \in 1..Len(jobs') : j > i => jobs'[j].kind = "cleanup"
                        /\ \A k \in 1..Len(events) : ~events[k].live
                        /\ ~Current(jobs[1])
    OBVIOUS
  <2>2. i + 1 \in 1..Len(jobs) /\ Current(jobs[i + 1]) /\ i + 1 > 1
    BY <1>1, <1>2, <2>1
  <2>3. \A j \in 1..Len(jobs') : j > i => j + 1 \in 1..Len(jobs) /\ j + 1 > i + 1 /\ jobs'[j] = jobs[j + 1]
    BY <1>1, <1>2
  <2>4. jobs[i + 1].kind # "cleanup"
    BY <2>2 DEF Current
  <2>5. QED
    BY <1>1, <1>5, <2>2, <2>3, <2>4
<1>7. CASE events' = events
  <2>1. G' \in States
    BY <1>1, <1>2, <1>7, StateIs, NextIs
  <2>2. Base(G')
    BY <1>1, <1>2, <1>3, <1>4, <1>7, <2>1, GIs, PreloadAssumption DEF Base
  <2>3. \A i \in 1..Len(events) : events[i].live => \A j \in 1..Len(jobs') : jobs'[j].kind = "cleanup"
    BY <1>1, <1>2, <1>5
  <2>4. OneLine(G')
    BY <1>5, <1>6, <1>7, <2>3, GIs DEF OneLine
  <2>5. ASSUME NEW i \in 1..Len(events), events[i].live, events[i].kind = "complete"
        PROVE  Prepared(G', events[i].e, events[i].d)
    <3>1. jobs[1].kind = "cleanup"
      BY <1>1, <1>5, <2>5
    <3>2. Prepared(G, events[i].e, events[i].d)
      BY <1>1, <2>5, GIs DEF Inv, Marked
    <3>3. row' = row /\ ctl' = ctl
      BY <3>1
    <3>4. QED
      BY <3>2, <3>3, GIs DEF Prepared
  <2>6. Marked(G')
    BY <1>4, <1>7, <2>5, GIs DEF Marked
  <2>7. QED
    BY <1>1, <1>7, <2>2, <2>4, <2>6 DEF Inv, LineInv
<1>8. ASSUME NEW v \in EventRecords, events' = Append(events, v), EventAimed(v), v.live => Current(jobs[1]),
             v.live /\ v.kind = "complete" => Prepared(G', v.e, v.d)
      PROVE  LineInv' /\ Len(events') >= Len(events)
  <2>1. /\ events' \in Seq(EventRecords) /\ Len(events') = Len(events) + 1
        /\ \A i \in 1..Len(events) : events'[i] = events[i]
        /\ events'[Len(events) + 1] = v
    BY <1>1, <1>8, Appended
  <2>2. G' \in States
    BY <1>1, <1>2, <2>1, StateIs, NextIs
  <2>3. \A i \in 1..Len(events') : i \in 1..Len(events) \/ i = Len(events) + 1
    BY <1>1, <2>1
  <2>4. Base(G')
    BY <1>1, <1>2, <1>3, <1>4, <1>8, <2>1, <2>2, <2>3, GIs, PreloadAssumption DEF Base
  <2>5. \A i \in 1..Len(events) : events[i].live => ~v.live /\ \A j \in 1..Len(jobs') : jobs'[j].kind = "cleanup"
    BY <1>1, <1>2, <1>5, <1>8
  <2>6. v.live => \A j \in 1..Len(jobs') : jobs'[j].kind = "cleanup"
    BY <1>1, <1>2, <1>5, <1>8
  <2>7. \A i \in 1..Len(jobs') : Current(jobs'[i]) => ~v.live
    BY <1>6, <1>8
  <2>8. OneLine(G')
    <3>1. \A i \in 1..Len(jobs') : Current(jobs'[i]) =>
             /\ \A j \in 1..Len(jobs') : j > i => jobs'[j].kind = "cleanup"
             /\ \A k \in 1..Len(events') : ~events'[k].live
      BY <1>6, <2>1, <2>3, <2>7
    <3>2. \A i \in 1..Len(events') : events'[i].live =>
             /\ \A j \in 1..Len(jobs') : jobs'[j].kind = "cleanup"
             /\ \A k \in 1..Len(events') : k # i => ~events'[k].live
      BY <1>5, <2>1, <2>3, <2>5, <2>6
    <3>3. QED
      BY <3>1, <3>2, GIs DEF OneLine
  <2>9. ASSUME NEW i \in 1..Len(events), events[i].live, events[i].kind = "complete"
        PROVE  Prepared(G', events[i].e, events[i].d)
    <3>1. jobs[1].kind = "cleanup"
      BY <1>1, <1>5, <2>9
    <3>2. Prepared(G, events[i].e, events[i].d)
      BY <1>1, <2>9, GIs DEF Inv, Marked
    <3>3. row' = row /\ ctl' = ctl
      BY <3>1
    <3>4. QED
      BY <3>2, <3>3, GIs DEF Prepared
  <2>10. Marked(G')
    BY <1>4, <1>8, <2>1, <2>3, <2>9, GIs DEF Marked
  <2>11. QED
    BY <1>1, <2>1, <2>4, <2>8, <2>10 DEF Inv, LineInv
<1>9. QED
  BY <1>7, <1>8
----------------------------------------------------------------------------
(* The worker.                                                             *)

LEMMA HeadIs ==
  ASSUME LineInv, jobs # << >>
  PROVE  /\ jobs[1] \in JobRecords /\ JobAimed(jobs[1]) /\ Len(jobs) \in Nat \ {0}
         /\ Marked(G) /\ (Current(jobs[1]) /\ jobs[1].kind = "load" /\ jobs[1].at = "marked"
                            => Prepared(G, jobs[1].e, jobs[1].d))
         /\ \A a \in Stages : jobs' = [jobs EXCEPT ![1].at = a] => jobs' = [jobs EXCEPT ![1] = [jobs[1] EXCEPT !.at = a]]
<1>1. Inv(G) /\ Base(G) /\ jobs \in Seq(JobRecords)
  BY StateIs
<1>2. jobs[1] \in JobRecords /\ Len(jobs) \in Nat \ {0} /\ 1 \in 1..Len(jobs)
  BY <1>1
<1>3. JobAimed(jobs[1])
  BY <1>1, <1>2, GIs DEF Base
<1>4. QED
  BY <1>1, <1>2, <1>3, GIs DEF Inv, Marked

\* A job whose stage advances; for one that is about to prepare its medium the row is new.
LEMMA AdvancesKeeps ==
  ASSUME LineInv, jobs # << >>, jobs[1].kind # "cleanup", NEW a \in Stages, Advances(a),
         row' \in Rows, UNCHANGED <<ctl, events, timer, commits>>,
         a = "marked" => row'[jobs[1].e] = [status |-> "preparing", deck |-> jobs[1].d]
  PROVE  LineInv'
<1> DEFINE j == [jobs[1] EXCEPT !.at = a]
<1>1. jobs[1] \in JobRecords /\ JobAimed(jobs[1]) /\ jobs' = [jobs EXCEPT ![1] = j]
  BY HeadIs DEF Advances
<1>2. /\ j \in JobRecords /\ j.kind = jobs[1].kind /\ j.live = jobs[1].live /\ j.e = jobs[1].e
      /\ j.d = jobs[1].d /\ j.at = a
  BY <1>1 DEF JobRecords
<1>3. JobAimed(j)
  BY <1>1, <1>2 DEF JobAimed
<1> HIDE DEF j
<1>4. a = "marked" => Prepared(G', j.e, j.d)
  BY <1>2, GIs DEF Prepared
<1>5. QED
  BY <1>1, <1>2, <1>3, <1>4, HeadAdvances

LEMMA EventIs ==
  ASSUME NEW kind \in EventKinds, NEW j \in JobRecords
  PROVE  /\ Event(kind, j) \in EventRecords /\ Event(kind, j).kind = kind /\ Event(kind, j).e = j.e
         /\ Event(kind, j).d = j.d /\ Event(kind, j).live = j.live
BY DEF Event, EventRecords, JobRecords

\* A load or persist job that ends with a callback.
LEMMA PublishKeeps ==
  ASSUME LineInv, jobs # << >>, jobs[1].kind \in {"load", "persist"}, row' \in Rows,
         UNCHANGED <<ctl, timer, commits>>, Ends, NEW kind \in EventKinds, Publishes(Event(kind, jobs[1])),
         kind = "complete" => jobs[1].kind = "load" /\ jobs[1].at = "marked" /\ row' = row
  PROVE  LineInv' /\ Len(events') >= Len(events)
<1> DEFINE v == Event(kind, jobs[1])
<1>1. jobs[1] \in JobRecords /\ JobAimed(jobs[1])
  BY HeadIs
<1>2. v \in EventRecords /\ v.kind = kind /\ v.e = jobs[1].e /\ v.d = jobs[1].d /\ v.live = jobs[1].live
  BY <1>1, EventIs
<1>3. EventAimed(v) /\ (v.live => Current(jobs[1]))
  BY <1>1, <1>2 DEF EventAimed, JobAimed, Current
<1>4. v.live /\ v.kind = "complete" => Prepared(G', v.e, v.d)
  <2>1. SUFFICES ASSUME v.live, v.kind = "complete"
                 PROVE  Prepared(G', v.e, v.d)
    OBVIOUS
  <2>2. Prepared(G, v.e, v.d)
    BY <1>2, <1>3, <2>1, HeadIs
  <2>3. row' = row /\ ctl' = ctl
    BY <1>2, <2>1
  <2>4. QED
    BY <2>2, <2>3, GIs DEF Prepared
<1>5. events' = Append(events, v)
  BY DEF Publishes
<1> HIDE DEF v
<1>6. QED
  BY <1>2, <1>3, <1>4, <1>5, HeadEnds DEF Ends

LEMMA ReconciledIs ==
  ASSUME NEW r \in Rows, NEW seen
  PROVE  /\ Reconciled(r, seen) \in Rows
         /\ \A e \in Entries : r[e].status # "ready" => Reconciled(r, seen)[e] = r[e]
BY DEF Reconciled, Rows, Statuses, SomeDeck

LEMMA ReleasedIs ==
  ASSUME NEW r \in Rows, NEW d, NEW e
  PROVE  /\ Released(r, d, e) \in Rows
         /\ \A x \in Entries : r[x].status \notin {"ready", "playing"} => Released(r, d, e)[x] = r[x]
BY DEF Released, Rows, Statuses, SomeDeck

LEMMA SearchKeeps ==
  ASSUME LineInv, SearchSees \/ SearchReconciles \/ SearchFinds \/ SearchRejects
  PROVE  LineInv' /\ Len(events') >= Len(events)
<1>1. row \in Rows /\ events \in Seq(EventRecords) /\ Len(events) \in Nat /\ jobs \in Seq(JobRecords)
      /\ ctl.deck \in [Decks -> DeckStates] /\ commits \subseteq EndRecords
  BY StateIs
<1>2. CASE SearchSees
  <2> DEFINE seen == [d \in Decks |-> ctl.deck[d].track]
             j == [jobs[1] EXCEPT !.at = "seen", !.seen = seen]
  <2>1. jobs # << >> /\ jobs[1].kind = "search" /\ jobs[1] \in JobRecords /\ JobAimed(jobs[1])
    BY <1>2, HeadIs DEF SearchSees, Running
  <2>2. seen \in [Decks -> SomeEntry]
    BY <1>1 DEF DeckStates
  <2>3. jobs' = [jobs EXCEPT ![1] = j]
    BY <1>1, <1>2, <2>1 DEF SearchSees, JobRecords
  <2> HIDE DEF seen
  <2>4. j \in JobRecords /\ j.kind = "search" /\ j.live = jobs[1].live /\ j.e = jobs[1].e
    BY <2>1, <2>2 DEF JobRecords, Stages
  <2>5. JobAimed(j)
    BY <2>1, <2>4 DEF JobAimed
  <2> HIDE DEF j
  <2>6. LineInv' 
    BY <1>1, <1>2, <2>1, <2>3, <2>4, <2>5, HeadAdvances DEF SearchSees
  <2>7. QED
    BY <1>1, <1>2, <2>6 DEF SearchSees
<1>3. CASE SearchReconciles
  <2> DEFINE empty == {d \in Decks : ctl.deck[d].track = NoEntry}
             d == CASE DeckA \in empty -> DeckA [] empty = {DeckB} -> DeckB [] OTHER -> NoDeck
             moved == (row' # row)
             j == [jobs[1] EXCEPT !.at = "choosing", !.changed = moved, !.d = d]
  <2>1. jobs # << >> /\ jobs[1].kind = "search" /\ jobs[1] \in JobRecords /\ JobAimed(jobs[1])
    BY <1>3, HeadIs DEF SearchReconciles, Running
  <2>2. d \in SomeDeck
    BY DEF SomeDeck, Decks
  <2>3. row' \in Rows
    BY <1>1, <1>3, ReconciledIs DEF SearchReconciles
  <2>4. jobs' = [jobs EXCEPT ![1].at = "choosing", ![1].changed = moved, ![1].d = d]
    BY <1>3 DEF SearchReconciles
  <2>5. moved \in BOOLEAN
    OBVIOUS
  <2> HIDE DEF d, moved
  <2>6. jobs' = [jobs EXCEPT ![1] = j]
    BY <1>1, <2>1, <2>4 DEF JobRecords
  <2>7. j \in JobRecords /\ j.kind = "search" /\ j.live = jobs[1].live /\ j.e = jobs[1].e
    BY <2>1, <2>2, <2>5 DEF JobRecords, Stages
  <2>8. JobAimed(j)
    BY <2>1, <2>7 DEF JobAimed
  <2> HIDE DEF j
  <2>9. LineInv'
    BY <1>3, <2>1, <2>3, <2>6, <2>7, <2>8, HeadAdvances DEF SearchReconciles
  <2>10. QED
    BY <1>1, <1>3, <2>9 DEF SearchReconciles
<1>4. CASE SearchFinds
  <2> DEFINE waiting == {x \in Entries : row[x].status = "waiting"}
             v == Event("found", jobs[1])
  <2>1. jobs # << >> /\ jobs[1].kind = "search" /\ jobs[1] \in JobRecords /\ JobAimed(jobs[1])
    BY <1>4, HeadIs DEF SearchFinds, Running
  <2>2. /\ v \in EventRecords /\ v.kind = "found" /\ v.e = NoEntry /\ v.d = jobs[1].d /\ v.live = jobs[1].live
    BY <2>1, EventIs DEF EventKinds, JobAimed
  <2>3. PICK u : /\ events' = Append(events, u)
                 /\ \/ u = v
                    \/ jobs[1].d # NoDeck /\ \E x \in Entries : u = [v EXCEPT !.e = x]
    BY <1>4 DEF SearchFinds, Publishes
  <2> HIDE DEF v
  <2>4. jobs[1].d # NoDeck => jobs[1].d \in Decks
    BY <2>1 DEF JobRecords, SomeDeck
  <2>5. u \in EventRecords /\ u.kind = "found" /\ u.live = jobs[1].live /\ EventAimed(u)
    BY <2>2, <2>3, <2>4 DEF EventRecords, EventAimed, SomeEntry
  <2>6. u.live => Current(jobs[1])
    BY <2>1, <2>5 DEF Current
  <2>7. QED
    BY <1>1, <1>4, <2>1, <2>3, <2>5, <2>6, HeadEnds DEF SearchFinds, Ends
<1>5. CASE SearchRejects
  <2>1. PICK x \in Entries, target \in {"skipped", "failed"} :
            row[x].status = "waiting" /\ row' = Moved(row, x, target, NoDeck)
    BY <1>5 DEF SearchRejects
  <2>2. row' \in Rows /\ \A e \in Entries : e # x => row'[e] = row[e]
    BY <1>1, <2>1, MovedIs DEF Statuses, SomeDeck
  <2>3. LineInv'
    BY <1>1, <1>5, <2>1, <2>2, RowsKeep DEF SearchRejects, pipe
  <2>4. QED
    BY <1>1, <1>5, <2>3 DEF SearchRejects, pipe
<1>6. QED
  BY <1>2, <1>3, <1>4, <1>5

LEMMA LoadKeeps ==
  ASSUME LineInv, Validate \/ MarkPreparing \/ Prepare
  PROVE  LineInv' /\ Len(events') >= Len(events)
<1>1. row \in Rows /\ events \in Seq(EventRecords) /\ Len(events) \in Nat
  BY StateIs
<1>2. jobs # << >> /\ jobs[1].kind = "load" /\ jobs[1] \in JobRecords /\ JobAimed(jobs[1])
  BY HeadIs DEF Validate, MarkPreparing, Prepare, Running
<1>3. jobs[1].e \in Entries /\ jobs[1].d \in Decks
  BY <1>2 DEF JobAimed
<1>4. CASE Validate
  <2>1. CASE Advances("validated") /\ UNCHANGED <<row, ctl, events, timer, commits>>
    BY <1>1, <1>2, <2>1, AdvancesKeeps DEF Stages
  <2>2. CASE Publishes(Event("unavailable", jobs[1])) /\ Ends /\ UNCHANGED <<row, ctl, timer, commits>>
    BY <1>1, <1>2, <2>2, PublishKeeps DEF EventKinds
  <2>3. QED
    BY <1>4, <2>1, <2>2 DEF Validate
<1>5. CASE MarkPreparing
  <2>1. CASE /\ row' = Moved(row, jobs[1].e, "preparing", jobs[1].d) /\ Advances("marked")
             /\ UNCHANGED <<ctl, events, timer, commits>>
    <3>1. row' \in Rows
      BY <1>1, <1>3, <2>1, MovedIs DEF Statuses, SomeDeck
    <3>2. row'[jobs[1].e] = [status |-> "preparing", deck |-> jobs[1].d]
      <4>1. DeckAfter(row, jobs[1].e, "preparing", jobs[1].d) = jobs[1].d
        BY <1>3, PreloadAssumption DEF DeckAfter
      <4>2. QED
        BY <1>1, <1>3, <2>1, <4>1 DEF Moved, Rows
    <3>3. QED
      BY <1>1, <1>2, <2>1, <3>1, <3>2, AdvancesKeeps DEF Stages
  <2>2. CASE Publishes(Event("failed", jobs[1])) /\ Ends /\ UNCHANGED <<row, ctl, timer, commits>>
    BY <1>1, <1>2, <2>2, PublishKeeps DEF EventKinds
  <2>3. QED
    BY <1>5, <2>1, <2>2 DEF MarkPreparing
<1>6. CASE Prepare
  <2>1. Ends /\ UNCHANGED <<row, ctl, timer, commits>> /\ jobs[1].at = "marked"
    BY <1>6 DEF Prepare, Running
  <2>2. CASE Publishes(Event("complete", jobs[1]))
    BY <1>1, <1>2, <2>1, <2>2, PublishKeeps DEF EventKinds
  <2>3. CASE Publishes(Event("failed", jobs[1]))
    BY <1>1, <1>2, <2>1, <2>3, PublishKeeps DEF EventKinds
  <2>4. QED
    BY <1>6, <2>2, <2>3 DEF Prepare
<1>7. QED
  BY <1>4, <1>5, <1>6

LEMMA PersistKeeps ==
  ASSUME LineInv, PersistReleases \/ PersistChecks \/ PersistMarksLoaded
  PROVE  LineInv' /\ Len(events') >= Len(events)
<1>1. row \in Rows /\ events \in Seq(EventRecords) /\ Len(events) \in Nat
  BY StateIs
<1>2. jobs # << >> /\ jobs[1].kind = "persist" /\ jobs[1] \in JobRecords /\ JobAimed(jobs[1])
  BY HeadIs DEF PersistReleases, PersistChecks, PersistMarksLoaded, Running
<1>3. jobs[1].e \in Entries /\ jobs[1].d \in Decks
  BY <1>2 DEF JobAimed
<1>4. ASSUME Ends, UNCHANGED <<row, ctl, events, timer, commits>>
      PROVE  LineInv' /\ Len(events') >= Len(events)
  BY <1>1, <1>2, <1>4, HeadEnds DEF Ends
<1>5. CASE PersistReleases
  <2>1. CASE /\ row' = Released(row, jobs[1].d, jobs[1].e) /\ Advances("released")
             /\ UNCHANGED <<ctl, events, timer, commits>>
    <3>1. row' \in Rows
      BY <1>1, <2>1, ReleasedIs
    <3>2. QED
      BY <1>1, <1>2, <2>1, <3>1, AdvancesKeeps DEF Stages
  <2>2. QED
    BY <1>4, <1>5, <2>1 DEF PersistReleases
<1>6. CASE PersistChecks
  <2>1. CASE Advances("checked") /\ UNCHANGED <<row, ctl, events, timer, commits>>
    BY <1>1, <1>2, <2>1, AdvancesKeeps DEF Stages
  <2>2. QED
    BY <1>4, <1>6, <2>1 DEF PersistChecks
<1>7. CASE PersistMarksLoaded
  <2>1. Ends /\ UNCHANGED <<ctl, timer, commits>>
    BY <1>7 DEF PersistMarksLoaded
  <2>2. CASE row' = Moved(row, jobs[1].e, "ready", jobs[1].d) /\ Publishes(Event("followup", jobs[1]))
    <3>1. row' \in Rows
      BY <1>1, <1>3, <2>2, MovedIs DEF Statuses, SomeDeck
    <3>2. QED
      BY <1>1, <1>2, <2>1, <2>2, <3>1, PublishKeeps DEF EventKinds
  <2>3. CASE row' = row /\ Publishes(Event("persistFailed", jobs[1]))
    BY <1>1, <1>2, <2>1, <2>3, PublishKeeps DEF EventKinds
  <2>4. QED
    BY <1>7, <2>2, <2>3 DEF PersistMarksLoaded
<1>8. QED
  BY <1>5, <1>6, <1>7

LEMMA WorkerKeeps ==
  ASSUME LineInv, Worker \/ SearchRejects \/ Prepare
  PROVE  LineInv' /\ Len(events') >= Len(events)
<1>1. CASE Cleanup
  <2>1. jobs # << >> /\ row \in Rows /\ Len(events) \in Nat
    BY <1>1, StateIs DEF Cleanup, Running
  <2>2. QED
    BY <1>1, <2>1, HeadEnds DEF Cleanup, Ends
<1>2. QED
  BY <1>1, SearchKeeps, LoadKeeps, PersistKeeps DEF Worker
----------------------------------------------------------------------------
(* The callbacks.                                                          *)

LEMMA ArrivedIs ==
  ASSUME LineInv, NEW kind, Arrived(kind)
  PROVE  /\ events[1] \in EventRecords /\ EventAimed(events[1]) /\ events[1].kind = kind
         /\ Len(events) \in Nat \ {0} /\ events # << >>
         /\ Inv(Processed) /\ Processed.row = row /\ Processed.ctl = ctl /\ Processed.jobs = jobs
         /\ Len(Processed.events) = Len(events) - 1
         /\ events[1].live => Idled(Processed)
<1>1. /\ Inv(G) /\ Base(G) /\ events \in Seq(EventRecords) /\ events # << >> /\ events[1].kind = kind
      /\ jobs \in Seq(JobRecords) /\ Len(jobs) \in Nat
  BY StateIs DEF Arrived
<1>2. /\ Len(events) \in Nat \ {0} /\ 1 \in 1..Len(events) /\ events[1] \in EventRecords
      /\ Tail(events) \in Seq(EventRecords) /\ Len(Tail(events)) = Len(events) - 1
      /\ \A i \in 1..Len(events) - 1 : Tail(events)[i] = events[i + 1]
  BY <1>1, Rest
<1>3. EventAimed(events[1])
  BY <1>1, <1>2, GIs DEF Base
<1>4. /\ Processed.row = row /\ Processed.ctl = ctl /\ Processed.jobs = jobs /\ Processed.events = Tail(events)
      /\ Processed.timer = timer /\ Processed.commits = commits /\ Processed \in States
  <2>1. G \in States
    BY <1>1 DEF Base
  <2>2. /\ Processed.row = G.row /\ Processed.ctl = G.ctl /\ Processed.jobs = G.jobs
        /\ Processed.events = Tail(events) /\ Processed.timer = G.timer /\ Processed.commits = G.commits
        /\ Processed \in States
    BY <1>2, <2>1, GIs DEF Processed, States
  <2>3. QED
    BY <2>2, GIs
<1>5. \A i \in 1..Len(events) - 1 : i + 1 \in 1..Len(events) /\ i + 1 # 1
  BY <1>2
<1>6. Base(Processed)
  BY <1>1, <1>2, <1>4, <1>5, GIs DEF Base
<1>7. /\ \A i \in 1..Len(jobs) : Current(jobs[i]) =>
           /\ \A j \in 1..Len(jobs) : j > i => jobs[j].kind = "cleanup"
           /\ \A k \in 1..Len(events) : ~events[k].live
      /\ \A i \in 1..Len(events) : events[i].live =>
           /\ \A j \in 1..Len(jobs) : jobs[j].kind = "cleanup"
           /\ \A k \in 1..Len(events) : k # i => ~events[k].live
  BY <1>1, GIs DEF Inv, OneLine
<1>8. OneLine(Processed)
  <2>1. \A i \in 1..Len(jobs) : Current(jobs[i]) =>
           /\ \A j \in 1..Len(jobs) : j > i => jobs[j].kind = "cleanup"
           /\ \A k \in 1..Len(events) - 1 : ~Tail(events)[k].live
    BY <1>2, <1>5, <1>7
  <2>2. \A i \in 1..Len(events) - 1 : Tail(events)[i].live =>
           /\ \A j \in 1..Len(jobs) : jobs[j].kind = "cleanup"
           /\ \A k \in 1..Len(events) - 1 : k # i => ~Tail(events)[k].live
    <3>1. \A i, k \in 1..Len(events) - 1 : k # i => k + 1 # i + 1
      BY <1>2
    <3>2. QED
      BY <1>2, <1>5, <1>7, <3>1
  <2>3. QED
    BY <1>2, <1>4, <2>1, <2>2 DEF OneLine
<1>9. Marked(Processed)
  <2>1. \A e, d : Prepared(G, e, d) => Prepared(Processed, e, d)
    BY <1>4, GIs DEF Prepared
  <2>2. QED
    BY <1>1, <1>2, <1>4, <1>5, <2>1, GIs DEF Inv, Marked
<1>10. events[1].live => /\ \A i \in 1..Len(events) - 1 : ~Tail(events)[i].live
                         /\ \A i \in 1..Len(jobs) : ~Current(jobs[i])
  BY <1>2, <1>5, <1>7 DEF Current
<1>11. events[1].live => Idled(Processed)
  BY <1>2, <1>4, <1>10 DEF Idled
<1>12. QED
  BY <1>1, <1>2, <1>3, <1>4, <1>6, <1>8, <1>9, <1>11 DEF Inv

\* A callback that has been processed leaves one less.
Consumes == LineInv' /\ Len(events') = Len(events) - 1

LEMMA IgnoredKeeps ==
  ASSUME LineInv, NEW kind, Arrived(kind), Ignored
  PROVE  Consumes
<1>1. Inv(Processed) /\ Len(Processed.events) = Len(events) - 1 /\ Processed.row = row
      /\ Processed.ctl = ctl /\ Processed.jobs = jobs
  BY ArrivedIs
<1>2. Done(Processed)
  <2>1. G \in States
    BY StateIs, Typed
  <2>2. Processed.events = Tail(events) /\ Processed.timer = timer /\ Processed.commits = commits
    BY <2>1, GIs DEF Processed, States
  <2>3. QED
    BY <1>1, <2>2 DEF Ignored, Done
<1>3. QED
  BY <1>1, <1>2, DoneKeeps DEF Consumes

\* The preload is over: the flag is cleared, and with it, if the result came too late, the
\* handover.
LEMMA IdleKeeps ==
  ASSUME NEW g, Inv(g)
  PROVE  /\ Inv(Idle(g)) /\ Idle(g).events = g.events /\ Idle(g).row = g.row
         /\ Inv(TooLate(g)) /\ TooLate(g).events = g.events /\ TooLate(g).row = g.row
<1> DEFINE c1 == [g.ctl EXCEPT !.busy = FALSE]
           c2 == [g.ctl EXCEPT !.busy = FALSE, !.mix = NoMix]
<1>1. g \in States /\ g.ctl \in Ctls
  BY Typed DEF Inv
<1>2. NoMix \in Mixes
  BY DEF NoMix, Mixes, SomeDeck, SomeEntry
<1>3. c1 \in Ctls /\ c1.cache = g.ctl.cache /\ c2 \in Ctls /\ c2.cache = g.ctl.cache
  BY <1>1, <1>2 DEF Ctls
<1>4. Idle(g) = [g EXCEPT !.ctl = c1]
  BY <1>1 DEF Idle, States
<1>5. TooLate(g) = [g EXCEPT !.ctl = c2]
  BY <1>1 DEF TooLate, States, Ctls
<1> HIDE DEF c1, c2
<1>6. QED
  BY <1>3, <1>4, <1>5, FlagsKeep

LEMMA FoundKeeps ==
  ASSUME LineInv, OnFound
  PROVE  Consumes
<1> DEFINE ev == events[1]
           seen == IF ev.changed THEN Refresh(Idle(Processed)) ELSE Idle(Processed)
<1>1. Arrived("found") /\ Inv(Processed) /\ Len(Processed.events) = Len(events) - 1
      /\ ev \in EventRecords /\ EventAimed(ev) /\ ev.kind = "found"
  BY ArrivedIs DEF OnFound
<1>2. CASE ~ev.live
  BY <1>1, <1>2, IgnoredKeeps DEF OnFound
<1>3. CASE ev.live
  <2>1. Inv(seen) /\ seen.events = Processed.events
    BY <1>1, IdleKeeps, RefreshKeeps
  <2>2. \/ Done(StartPreload(seen, ev.e, ev.d)) /\ ev.e # NoEntry
        \/ Done(Pause(seen))
        \/ Done(seen)
    BY <1>3 DEF OnFound
  <2> HIDE DEF seen
  <2>3. CASE Done(StartPreload(seen, ev.e, ev.d)) /\ ev.e # NoEntry
    <3>1. ev.e \in Entries /\ ev.d \in Decks
      BY <1>1, <2>3 DEF EventAimed
    <3>2. QED
      BY <1>1, <2>1, <2>3, <3>1, StartPreloadKeeps, DoneKeeps DEF Consumes
  <2>4. CASE Done(Pause(seen))
    BY <1>1, <2>1, <2>4, PauseIs, DoneKeeps DEF Consumes, Inv
  <2>5. CASE Done(seen)
    BY <1>1, <2>1, <2>5, DoneKeeps DEF Consumes
  <2>6. QED
    BY <2>2, <2>3, <2>4, <2>5
<1>4. QED
  BY <1>2, <1>3

\* An entry in preparation whose preload has ended may move: nothing is outstanding.
LEMMA MovesIdled ==
  ASSUME NEW g, Base(g), Idled(g), NEW r \in Rows
  PROVE  Inv([g EXCEPT !.row = r]) /\ [g EXCEPT !.row = r].events = g.events
         /\ Idled([g EXCEPT !.row = r])
<1> DEFINE h == [g EXCEPT !.row = r]
<1>1. g \in States
  BY Typed
<1>2. h \in States /\ h.jobs = g.jobs /\ h.events = g.events
  BY <1>1 DEF States
<1> HIDE DEF h
<1>3. Base(h) /\ Idled(h)
  BY <1>2, SamePipe
<1>4. QED
  BY <1>2, <1>3, IdleIsInv DEF h

LEMMA RejectedKeeps ==
  ASSUME LineInv, OnUnavailable \/ OnFailed
  PROVE  Consumes
<1> DEFINE ev == events[1]
           g == Idle(Processed)
           Kinds == {"unavailable", "failed"}
<1>1. PICK kind \in Kinds : Arrived(kind) /\ Rejected({"skipped", "failed"})
  BY DEF OnUnavailable, OnFailed, Rejected
<1>2. /\ Inv(Processed) /\ Len(Processed.events) = Len(events) - 1 /\ Processed.row = row
      /\ ev.live => Idled(Processed)
      /\ ev \in EventRecords /\ EventAimed(ev) /\ ev.kind # "found"
  BY <1>1, ArrivedIs
<1>3. ev.e \in Entries /\ ev.d \in Decks
  BY <1>2 DEF EventAimed
<1>4. CASE ~ev.live
  BY <1>1, <1>4, IgnoredKeeps DEF Rejected
<1>5. CASE ev.live
  <2>1. Inv(g) /\ g.events = Processed.events /\ g.row = row
    BY <1>2, IdleKeeps
  <2>2. Base(g) /\ Idled(g) /\ row \in Rows
    <3>1. Processed.jobs = g.jobs
      <4>1. Processed \in States
        BY <1>2, Typed DEF Inv
      <4>2. QED
        BY <4>1 DEF Idle, States
    <3>2. QED
      BY <1>2, <1>5, <2>1, <3>1, StateIs DEF Inv, Idled
  <2>3. CASE row[ev.e].status \in {"waiting", "preparing"}
    <3> HIDE DEF g
    <3>1. PICK target \in {"skipped", "failed"} :
             Done(ContinueAfterFailure(Refresh([g EXCEPT !.row = Moved(@, ev.e, target, NoDeck)])))
      BY <1>1, <1>5, <2>3 DEF Rejected, g
    <3> DEFINE r == Moved(g.row, ev.e, target, NoDeck)
               h == [g EXCEPT !.row = r]
    <3>2. r \in Rows
      <4>1. g.row \in Rows /\ target \in Statuses /\ NoDeck \in SomeDeck
        BY <2>1, <2>2 DEF Statuses, SomeDeck
      <4>2. QED
        BY <1>3, <4>1, MovedIs
    <3>3. Done(ContinueAfterFailure(Refresh(h)))
      BY <3>1
    <3> HIDE DEF r
    <3>4. Inv(h) /\ h.events = g.events
      BY <2>2, <3>2, MovesIdled
    <3> HIDE DEF h
    <3>5. Inv(Refresh(h)) /\ Refresh(h).events = g.events
      BY <3>4, RefreshKeeps
    <3>6. QED
      BY <1>2, <2>1, <3>3, <3>5, ContinueKeeps, DoneKeeps DEF Consumes
  <2>4. CASE row[ev.e].status \notin {"waiting", "preparing"}
    <3>1. Done(AutoLoad(Refresh(TooLate(g)), FALSE))
      BY <1>1, <1>5, <2>4 DEF Rejected
    <3>2. Inv(TooLate(g)) /\ TooLate(g).events = g.events
      BY <2>1, IdleKeeps
    <3>3. Inv(Refresh(TooLate(g))) /\ Refresh(TooLate(g)).events = g.events
      BY <3>2, RefreshKeeps
    <3>4. QED
      BY <1>2, <2>1, <3>1, <3>3, AutoLoadKeeps, DoneKeeps DEF Consumes
  <2>5. QED
    BY <2>3, <2>4
<1>6. QED
  BY <1>4, <1>5

LEMMA NoMixIs == NoMix \in Mixes
BY DEF NoMix, Mixes, SomeDeck, SomeEntry

\* What a deck holds.
OnDeck(g, d, k) == [g EXCEPT !.ctl.deck[d] = k]

LEMMA DeckIs ==
  ASSUME NEW g, NEW d, NEW k, Base(g), k \in DeckStates
  PROVE  /\ OnDeck(g, d, k) \in States
         /\ OnDeck(g, d, k).jobs = g.jobs /\ OnDeck(g, d, k).events = g.events
         /\ OnDeck(g, d, k).row = g.row /\ OnDeck(g, d, k).ctl.cache = g.ctl.cache
         /\ OnDeck(g, d, k).timer = g.timer /\ OnDeck(g, d, k).commits = g.commits
<1> DEFINE dd == [g.ctl.deck EXCEPT ![d] = k]
           c == [g.ctl EXCEPT !.deck = dd]
           h == OnDeck(g, d, k)
<1>1. g \in States /\ g.ctl \in Ctls /\ g.ctl.deck \in [Decks -> DeckStates]
  BY Typed
<1>2. dd \in [Decks -> DeckStates]
  BY <1>1
<1>3. h = [g EXCEPT !.ctl = c]
  BY <1>1 DEF OnDeck, States, Ctls
<1> HIDE DEF dd
<1>4. c \in Ctls /\ c.cache = g.ctl.cache
  BY <1>1, <1>2 DEF Ctls
<1> HIDE DEF c
<1>5. /\ h \in States /\ h.jobs = g.jobs /\ h.events = g.events /\ h.row = g.row /\ h.ctl = c
      /\ h.timer = g.timer /\ h.commits = g.commits
  BY <1>1, <1>3, <1>4 DEF States
<1>6. QED
  BY <1>4, <1>5

LEMMA DeckKeeps ==
  ASSUME NEW g, NEW d, NEW k, Inv(g), k \in DeckStates
  PROVE  Inv(OnDeck(g, d, k))
<1> DEFINE h == OnDeck(g, d, k)
<1>1. Base(g)
  BY DEF Inv
<1>2. h \in States /\ h.jobs = g.jobs /\ h.events = g.events /\ h.row = g.row /\ h.ctl.cache = g.ctl.cache
  BY <1>1, DeckIs
<1> HIDE DEF h
<1>3. Inv(h)
  BY <1>1, <1>2, FlagsAside, AsideKeeps
<1>4. QED
  BY <1>3 DEF h

LEMMA EmptyDeckIs == EmptyDeck \in DeckStates
BY DEF EmptyDeck, DeckStates, SomeEntry

LEMMA LoadedIs ==
  ASSUME NEW e \in Entries
  PROVE  [track |-> e, phase |-> "loaded", queue |-> e] \in DeckStates
BY DEF DeckStates, SomeEntry

LEMMA CompleteKeeps ==
  ASSUME LineInv, OnComplete
  PROVE  Consumes
<1> DEFINE ev == events[1]
           P == Processed
<1>1. /\ Arrived("complete") /\ Inv(P) /\ Len(P.events) = Len(events) - 1
      /\ ev \in EventRecords /\ EventAimed(ev) /\ ev.kind = "complete"
      /\ ev.live => Idled(P)
  BY ArrivedIs DEF OnComplete
<1>2. ev.e \in Entries /\ ev.d \in Decks /\ ev.e \in SomeEntry /\ ev.d \in SomeDeck
  BY <1>1 DEF EventAimed, SomeEntry, SomeDeck
<1>3. CASE ~ev.live
  BY <1>1, <1>3, IgnoredKeeps DEF OnComplete
<1>4. CASE ev.live
  <2>1. Done(TooLate(P)) \/ Done(Adopted(P, ev.e, ev.d)) \/ Done(Idle(P))
    BY <1>4 DEF OnComplete
  <2>2. Base(P) /\ Idled(P)
    BY <1>1, <1>4 DEF Inv
  <2> HIDE DEF P
  <2>3. CASE Done(TooLate(P)) \/ Done(Idle(P))
    BY <1>1, <2>3, IdleKeeps, DoneKeeps DEF Consumes
  <2>4. CASE Done(Adopted(P, ev.e, ev.d))
    <3> DEFINE k == [track |-> ev.e, phase |-> "loaded", queue |-> ev.e]
               h == OnDeck(P, ev.d, k)
               job == Job("persist", ev.e, ev.d)
               s == Submit(h, job)
    <3>1. k \in DeckStates
      BY <1>2, LoadedIs
    <3>2. job \in JobRecords /\ JobAimed(job) /\ job.at = "start"
      BY <1>2, JobIs DEF JobAimed, JobKinds
    <3>3. Adopted(P, ev.e, ev.d) = s
      BY DEF Adopted, OnDeck
    <3> HIDE DEF k, job
    <3>4. h \in States /\ h.jobs = P.jobs /\ h.events = P.events
      BY <1>2, <2>2, <3>1, DeckIs
    <3> HIDE DEF h
    <3>5. Base(h) /\ Idled(h)
      BY <2>2, <3>4, SamePipe
    <3>6. Inv(s) /\ s.events = h.events
      BY <3>2, <3>5, SubmitsFirst
    <3> HIDE DEF s
    <3>7. QED
      BY <1>1, <2>4, <3>3, <3>4, <3>6, DoneKeeps DEF Consumes
  <2>5. QED
    BY <2>1, <2>3, <2>4
<1>5. QED
  BY <1>3, <1>4

LEMMA FollowupKeeps ==
  ASSUME LineInv, OnFollowup \/ OnPersistFailed
  PROVE  Consumes
<1> DEFINE P == Processed
           g == Idle(P)
           n == StartNext(Refresh(g))
<1>1. CASE OnFollowup
  <2>1. Arrived("followup") /\ Inv(P) /\ Len(P.events) = Len(events) - 1
    BY <1>1, ArrivedIs DEF OnFollowup
  <2>2. CASE ~events[1].live
    BY <1>1, <2>1, <2>2, IgnoredKeeps DEF OnFollowup
  <2>3. CASE events[1].live
    <3>1. Done(AutoLoad(n, FALSE))
      BY <1>1, <2>3 DEF OnFollowup
    <3> HIDE DEF P
    <3>2. Inv(g) /\ g.events = P.events
      BY <2>1, IdleKeeps
    <3> HIDE DEF g
    <3>3. Inv(Refresh(g)) /\ Refresh(g).events = g.events
      BY <3>2, RefreshKeeps
    <3>4. Inv(n) /\ n.events = Refresh(g).events
      BY <3>3, StartNextKeeps
    <3> HIDE DEF n
    <3>5. QED
      BY <2>1, <3>1, <3>2, <3>3, <3>4, AutoLoadKeeps, DoneKeeps DEF Consumes
  <2>4. QED
    BY <2>2, <2>3
<1>2. CASE OnPersistFailed
  <2>1. Arrived("persistFailed") /\ Inv(P) /\ Len(P.events) = Len(events) - 1 /\ Done(g)
    BY <1>2, ArrivedIs DEF OnPersistFailed
  <2> HIDE DEF P
  <2>2. QED
    BY <2>1, IdleKeeps, DoneKeeps DEF Consumes
<1>3. QED
  BY <1>1, <1>2

LEMMA CallbackKeeps ==
  ASSUME LineInv, Callback
  PROVE  Consumes
BY FoundKeeps, RejectedKeeps, CompleteKeeps, FollowupKeeps DEF Callback
----------------------------------------------------------------------------
(* The rest of the GUI thread.                                             *)

\* What the GUI thread does beside its callbacks leaves their number alone.
Keeps == LineInv' /\ Len(events') = Len(events)

LEMMA DoneIs ==
  ASSUME NEW h, Inv(h), Done(h), Len(h.events) = Len(events)
  PROVE  Keeps
BY DoneKeeps DEF Keeps

LEMMA TimeoutKeeps ==
  ASSUME LineInv, TimeoutFires
  PROVE  Keeps
<1> DEFINE g == Outdate(G)
           r == Moved(g.row, timer.e, "failed", NoDeck)
           h == [g EXCEPT !.row = r]
<1>1. timer # NoTimer /\ (Done(ContinueAfterFailure(Refresh(h))) \/ Done(g))
  BY DEF TimeoutFires, TimerIsDue
<1>2. timer.e \in Entries
  BY <1>1, StateIs DEF Timers
<1>3. Base(g) /\ Idled(g) /\ g.row = row /\ Len(g.events) = Len(events)
  BY StateIs, GIs, OutdateIs
<1> HIDE DEF g
<1>4. r \in Rows
  <2>1. g.row \in Rows /\ "failed" \in Statuses /\ NoDeck \in SomeDeck
    BY <1>3, StateIs DEF Statuses, SomeDeck
  <2>2. QED
    BY <1>2, <2>1, MovedIs
<1> HIDE DEF r
<1>5. Inv(h) /\ h.events = g.events
  BY <1>3, <1>4, MovesIdled
<1> HIDE DEF h
<1>6. Inv(Refresh(h)) /\ Refresh(h).events = g.events
  BY <1>5, RefreshKeeps
<1>7. QED
  BY <1>1, <1>3, <1>6, IdleIsInv, ContinueKeeps, DoneIs

LEMMA TickKeeps ==
  ASSUME LineInv, Tick
  PROVE  Keeps
<1> DEFINE c == [G.ctl EXCEPT !.streak = 0]
           h == [G EXCEPT !.ctl = c]
<1>1. PICK g \in {G, [G EXCEPT !.ctl.streak = 0]} : Done(StartNext(AutoLoad(g, FALSE)))
  BY DEF Tick
<1>2. Inv(G) /\ G \in States /\ G.ctl \in Ctls /\ G.events = events
  BY StateIs, Typed, GIs
<1>3. [G EXCEPT !.ctl.streak = 0] = h
  BY <1>2 DEF States
<1>4. c \in Ctls /\ c.cache = G.ctl.cache
  <2>1. 0 \in 0..MaximumFailures
    BY DEF MaximumFailures
  <2>2. QED
    BY <1>2, <2>1 DEF Ctls
<1> HIDE DEF c
<1>5. Inv(h) /\ h.events = events
  BY <1>2, <1>4, FlagsKeep
<1> HIDE DEF h
<1>6. Inv(g) /\ g.events = events
  BY <1>1, <1>2, <1>3, <1>5
<1>7. Inv(AutoLoad(g, FALSE)) /\ Len(AutoLoad(g, FALSE).events) = Len(events)
  BY <1>6, AutoLoadKeeps
<1>8. QED
  BY <1>1, <1>7, StartNextKeeps, DoneIs

LEMMA MixKeeps ==
  ASSUME NEW g, Inv(g), NEW m \in Mixes
  PROVE  /\ Inv([g EXCEPT !.ctl.mix = m]) /\ [g EXCEPT !.ctl.mix = m].events = g.events
         /\ [g EXCEPT !.ctl.mix = m].row = g.row /\ [g EXCEPT !.ctl.mix = m].jobs = g.jobs
<1> DEFINE c == [g.ctl EXCEPT !.mix = m]
           h == [g EXCEPT !.ctl.mix = m]
<1>1. g \in States /\ g.ctl \in Ctls
  BY Typed DEF Inv
<1>2. h = [g EXCEPT !.ctl = c]
  BY <1>1 DEF States
<1>3. c \in Ctls /\ c.cache = g.ctl.cache
  BY <1>1 DEF Ctls
<1> HIDE DEF c
<1>4. Inv(h) /\ h.events = g.events /\ h.row = g.row
  BY <1>2, <1>3, FlagsKeep
<1>5. h.jobs = g.jobs
  BY <1>1, <1>2 DEF States
<1>6. QED
  BY <1>4, <1>5

LEMMA BegunKeeps ==
  ASSUME NEW g, Inv(g), NEW d \in Decks
  PROVE  Inv(Begun(g, d)) /\ Begun(g, d).events = g.events
<1> DEFINE m == [deck |-> d, track |-> g.ctl.deck[d].track, queue |-> g.ctl.deck[d].queue]
<1>1. g.ctl.deck[d] \in DeckStates
  BY Typed DEF Inv
<1>2. m \in Mixes
  BY <1>1 DEF Mixes, DeckStates, SomeDeck
<1>3. Begun(g, d) = [g EXCEPT !.ctl.mix = m]
  BY DEF Begun
<1> HIDE DEF m
<1>4. QED
  BY <1>2, <1>3, MixKeeps

LEMMA OtherIs ==
  ASSUME NEW d
  PROVE  Other(d) \in Decks
BY DEF Other, Decks

LEMMA CrossfadeKeeps ==
  ASSUME LineInv, NEW d \in Decks, Crossfade(d) \/ AbortTransition
  PROVE  Keeps
<1> DEFINE s == StartDeck(G, Other(d))
<1>1. Inv(G) /\ G.events = events
  BY StateIs, GIs
<1>2. \/ Done(Begun(s, d))
      \/ Done(Begun(G, d))
      \/ Done([G EXCEPT !.ctl.mix = NoMix])
  BY DEF Crossfade, AbortTransition
<1>3. Inv(s) /\ s.events = events
  BY <1>1, OtherIs, StartDeckKeeps
<1> HIDE DEF s
<1>4. Inv(Begun(s, d)) /\ Begun(s, d).events = events /\ Inv(Begun(G, d)) /\ Begun(G, d).events = events
  BY <1>1, <1>3, BegunKeeps
<1>5. Inv([G EXCEPT !.ctl.mix = NoMix]) /\ [G EXCEPT !.ctl.mix = NoMix].events = events
  BY <1>1, NoMixIs, MixKeeps
<1>6. QED
  BY <1>2, <1>4, <1>5, DoneIs

\* The incoming entry was PLAYING, so nothing prepares it.
LEMMA WithdrawnKeeps ==
  ASSUME LineInv, NEW target \in {"ready", "skipped"}
  PROVE  Inv(Withdrawn(G, target)) /\ Withdrawn(G, target).events = events
<1> DEFINE d == Other(G.ctl.mix.deck)
           q == G.ctl.deck[d].queue
           k == IF target = "skipped" THEN EmptyDeck ELSE G.ctl.deck[d]
           r == Moved(G.row, q, target, d)
           less == {c \in G.commits : c.e # q}
           D == OnDeck(G, d, k)
           h == [D EXCEPT !.row = r, !.commits = less]
<1>1. Inv(G) /\ Base(G) /\ G.row \in Rows /\ G.events = events /\ G.commits \subseteq EndRecords
      /\ G.ctl.deck \in [Decks -> DeckStates] /\ G \in States
  BY StateIs, GIs, Typed
<1>2. CASE q = NoEntry \/ G.row[q].status # "playing"
  BY <1>1, <1>2 DEF Withdrawn
<1>3. CASE q # NoEntry /\ G.row[q].status = "playing"
  <2>1. d \in Decks /\ d \in SomeDeck
    BY OtherIs DEF SomeDeck
  <2>2. q \in Entries
    BY <1>1, <1>3, <2>1 DEF DeckStates, SomeEntry
  <2>3. k \in DeckStates
    BY <1>1, <2>1, EmptyDeckIs
  <2>4. /\ D \in States /\ D.jobs = G.jobs /\ D.events = G.events /\ D.row = G.row
        /\ D.ctl.cache = G.ctl.cache /\ D.commits = G.commits
    <3> HIDE DEF k, d
    <3>1. QED
      BY <1>1, <2>3, DeckIs
  <2>5. Withdrawn(G, target) = h
    <3>1. Withdrawn(G, target) = [G EXCEPT !.row = r, !.commits = less, !.ctl.deck[d] = k]
      BY <1>3 DEF Withdrawn
    <3>2. h = [G EXCEPT !.row = r, !.commits = less, !.ctl.deck[d] = k]
      <4> HIDE DEF r, less, k, d
      <4>1. QED
        BY <1>1 DEF States, OnDeck
    <3>3. QED
      BY <3>1, <3>2
  <2>6. r \in Rows /\ \A x \in Entries : x # q => r[x] = G.row[x]
    <3>1. target \in Statuses
      BY DEF Statuses
    <3>2. QED
      BY <1>1, <2>1, <2>2, <3>1, MovedIs
  <2>7. less \subseteq EndRecords
    BY <1>1
  <2>8. /\ h \in States /\ h.jobs = G.jobs /\ h.events = G.events /\ h.row = r
        /\ h.ctl.cache = G.ctl.cache
    <3> HIDE DEF D, r, less
    <3>1. QED
      BY <2>4, <2>6, <2>7 DEF States
  <2> HIDE DEF h, r
  <2>9. Aside(G, h)
    BY <1>3, <2>6, <2>8 DEF Aside
  <2>10. QED
    BY <1>1, <2>5, <2>8, <2>9, AsideKeeps
<1>4. QED
  BY <1>2, <1>3

LEMMA LostKeeps ==
  ASSUME LineInv, LoseIncoming \/ SkipIncoming
  PROVE  Keeps
<1>1. CASE LoseIncoming
  <2> DEFINE w == Withdrawn(G, "ready")
  <2>1. Done(Refresh(Pause(w)))
    BY <1>1 DEF LoseIncoming
  <2>2. Inv(w) /\ w.events = events
    BY WithdrawnKeeps
  <2> HIDE DEF w
  <2>3. Inv(Pause(w)) /\ Len(Pause(w).events) = Len(events)
    BY <2>2, PauseIs DEF Inv
  <2>4. QED
    BY <2>1, <2>3, RefreshKeeps, DoneIs
<1>2. CASE SkipIncoming
  <2> DEFINE w == Withdrawn(G, "skipped")
             g == Outdate(w)
             c == [g.ctl EXCEPT !.running = TRUE, !.paused = FALSE, !.mix = NoMix]
             h == [g EXCEPT !.ctl = c]
             a == AutoLoad(h, FALSE)
  <2>1. Done(Refresh(AutoLoad([g EXCEPT !.ctl.running = TRUE, !.ctl.paused = FALSE, !.ctl.mix = NoMix], FALSE)))
    BY <1>2 DEF SkipIncoming
  <2>2. Inv(w) /\ w.events = events
    BY WithdrawnKeeps
  <2> HIDE DEF w
  <2>3. Base(g) /\ Idled(g) /\ Len(g.events) = Len(events)
    BY <2>2, OutdateIs DEF Inv
  <2> HIDE DEF g
  <2>4. Inv(g) /\ g \in States /\ g.ctl \in Ctls
    BY <2>3, IdleIsInv, Typed
  <2>5. [g EXCEPT !.ctl.running = TRUE, !.ctl.paused = FALSE, !.ctl.mix = NoMix] = h
    BY <2>4 DEF States, Ctls
  <2>6. c \in Ctls /\ c.cache = g.ctl.cache
    BY <2>4, NoMixIs DEF Ctls
  <2> HIDE DEF c
  <2>7. Inv(h) /\ h.events = g.events
    BY <2>4, <2>6, FlagsKeep
  <2>8. Done(Refresh(a))
    BY <2>1, <2>5
  <2> HIDE DEF h
  <2>9. Inv(a) /\ Len(a.events) = Len(g.events)
    BY <2>7, AutoLoadKeeps
  <2> HIDE DEF a
  <2>10. QED
    BY <2>3, <2>9, <2>8, RefreshKeeps, DoneIs
<1>3. QED
  BY <1>1, <1>2

LEMMA FinishKeeps ==
  ASSUME LineInv, NEW d \in Decks, FinishDeck(d)
  PROVE  Keeps
<1> DEFINE queue == ctl.deck[d].queue
           g == Ended(G, d, queue, TRUE)
           k == [g.ctl.deck[d] EXCEPT !.phase = "finished"]
<1>1. Inv(G) /\ Base(G) /\ G.events = events /\ queue \in SomeEntry
  <2>1. ctl.deck[d] \in DeckStates
    BY StateIs
  <2>2. QED
    BY <2>1, StateIs, GIs DEF DeckStates
<1>2. \/ Done(OnDeck(g, d, EmptyDeck))
      \/ Done([g EXCEPT !.ctl.deck[d].phase = "finished"])
  BY DEF FinishDeck, OnDeck
<1> HIDE DEF queue
<1>3. Aside(G, g) /\ g.events = events
  BY <1>1, EndedAside
<1> HIDE DEF g
<1>4. Inv(g) /\ Base(g)
  BY <1>1, <1>3, AsideKeeps DEF Inv
<1>5. k \in DeckStates
  BY <1>4, Typed DEF DeckStates
<1>6. [g EXCEPT !.ctl.deck[d].phase = "finished"] = OnDeck(g, d, k)
  BY <1>4, Typed DEF States, Ctls, OnDeck
<1> HIDE DEF k
<1>7. Inv(OnDeck(g, d, k)) /\ OnDeck(g, d, k).events = events
  BY <1>3, <1>4, <1>5, DeckIs, DeckKeeps
<1>8. Inv(OnDeck(g, d, EmptyDeck)) /\ OnDeck(g, d, EmptyDeck).events = events
  BY <1>3, <1>4, EmptyDeckIs, DeckIs, DeckKeeps
<1>9. QED
  BY <1>2, <1>6, <1>7, <1>8, DoneIs

LEMMA TransitionKeeps ==
  ASSUME LineInv, CompleteTransition
  PROVE  Keeps
<1> DEFINE m == ctl.mix
           q == ctl.mix.queue
           d == ctl.mix.deck
           en == Ended(G, d, q, FALSE)
           g == [en EXCEPT !.ctl.mix = NoMix]
           em == OnDeck(g, d, EmptyDeck)
           job == Job("cleanup", NoEntry, d)
           s == Submit(em, job)
<1>1. Inv(G) /\ Base(G) /\ G.events = events /\ q \in SomeEntry /\ d \in Decks /\ d \in SomeDeck
  <2>1. ctl.mix \in Mixes /\ ctl.mix # NoMix
    BY StateIs, GIs DEF Ctls, CompleteTransition, Mixing
  <2>2. QED
    BY <2>1, StateIs, GIs DEF Mixes, SomeDeck
<1>2. Done(s) \/ Done(g)
  BY DEF CompleteTransition, OnDeck
<1> HIDE DEF q, d
<1>3. Aside(G, en) /\ en.events = events
  BY <1>1, EndedAside
<1> HIDE DEF en
<1>4. Inv(en) /\ Base(en)
  BY <1>1, <1>3, AsideKeeps DEF Inv
<1>5. Inv(g) /\ g.events = events
  BY <1>3, <1>4, NoMixIs, MixKeeps
<1> HIDE DEF g
<1>6. Inv(em) /\ em.events = events
  BY <1>5, EmptyDeckIs, DeckIs, DeckKeeps DEF Inv
<1> HIDE DEF em
<1>7. Inv(s) /\ s.events = events
  BY <1>1, <1>6, CleanupKeeps
<1> HIDE DEF s
<1>8. QED
  BY <1>2, <1>5, <1>7, DoneIs

LEMMA CommitKeeps ==
  ASSUME LineInv, NEW c \in commits, Commit(c)
  PROVE  Keeps
<1>1. row \in Rows /\ commits \subseteq EndRecords
  BY StateIs
<1>2. c.e \in Entries /\ commits' \subseteq EndRecords /\ UNCHANGED <<ctl, jobs, events, timer>>
  BY <1>1 DEF Commit, EndRecords, pipe
<1>3. row' = IF row[c.e] = [status |-> "playing", deck |-> c.d]
             THEN [row EXCEPT ![c.e] = [status |-> "played", deck |-> NoDeck]] ELSE row
  BY DEF Commit
<1>4. [status |-> "played", deck |-> NoDeck] \in Assignments
  BY DEF Assignments, Statuses, SomeDeck
<1>5. row' \in Rows
  BY <1>1, <1>2, <1>3, <1>4 DEF Rows, Assignments, SomeDeck
<1>6. ASSUME NEW e \in Entries, row[e].status \in {"preparing", "skipped", "removed"}
      PROVE  row'[e] = row[e]
  BY <1>1, <1>2, <1>3, <1>6 DEF Rows
<1>7. QED
  BY <1>2, <1>5, <1>6, RowsKeep DEF Keeps
----------------------------------------------------------------------------
(* The operator.                                                           *)

\* A step that leaves the pipeline alone and keeps what is prepared prepared.
LEMMA PreparedKeeps ==
  ASSUME NEW g, NEW h, Inv(g), h \in States, h.jobs = g.jobs, h.events = g.events,
         \A e \in Entries : \A d : Prepared(g, e, d) => Prepared(h, e, d)
  PROVE  Inv(h)
<1>1. Base(h)
  BY DEF Inv, Base
<1>2. OneLine(h)
  BY DEF Inv, OneLine
<1>3. /\ \A i \in 1..Len(g.jobs) : g.jobs[i].kind = "load" => g.jobs[i].e \in Entries
      /\ \A i \in 1..Len(g.events) : g.events[i].kind = "complete" => g.events[i].e \in Entries
  BY DEF Inv, Base, JobAimed, EventAimed
<1>4. Marked(h)
  BY <1>3 DEF Inv, Marked
<1>5. QED
  BY <1>1, <1>2, <1>4 DEF Inv

\* An entry that nothing prepares changes its row, and the cache is refreshed.
LEMMA RowMoves ==
  ASSUME NEW g, Inv(g), NEW e \in Entries, NEW x \in Assignments,
         \/ Idled(g)
         \/ g.row[e].status \notin {"preparing", "skipped", "removed"}
         \/ g.row[e].status # "removed" /\ x.status = "skipped" /\ "skip" \in Operators
         \/ g.row[e].status = "skipped" /\ x.status = "removed" /\ "remove" \in Operators
  PROVE  /\ Inv(Refresh([g EXCEPT !.row = [g.row EXCEPT ![e] = x]]))
         /\ Refresh([g EXCEPT !.row = [g.row EXCEPT ![e] = x]]).events = g.events
<1> DEFINE r == [g.row EXCEPT ![e] = x]
           c == [g.ctl EXCEPT !.cache = r]
           h == [g EXCEPT !.row = r, !.ctl = c]
<1>1. g \in States /\ g.row \in Rows /\ g.ctl \in Ctls
  BY Typed DEF Inv
<1>2. r \in Rows /\ r[e] = x /\ \A y \in Entries : y # e => r[y] = g.row[y]
  BY <1>1 DEF Rows, Assignments, SomeDeck
<1> HIDE DEF r
<1>3. Refresh([g EXCEPT !.row = r]) = h
  BY <1>1 DEF Refresh, States
<1>4. c \in Ctls /\ c.cache = r
  BY <1>1, <1>2 DEF Ctls
<1> HIDE DEF c
<1>5. h \in States /\ h.jobs = g.jobs /\ h.events = g.events /\ h.row = r /\ h.ctl = c
  BY <1>1, <1>2, <1>4 DEF States
<1> HIDE DEF h
<1>6. ASSUME Idled(g)
      PROVE  Inv(h)
  BY <1>5, <1>6, SamePipe, IdleIsInv DEF Inv
<1>7. ASSUME ~Idled(g)
      PROVE  Inv(h)
  <2>1. ASSUME NEW y \in Entries, NEW d, Prepared(g, y, d)
        PROVE  Prepared(h, y, d)
    <3>1. CASE y # e
      BY <1>2, <1>4, <1>5, <2>1, <3>1 DEF Prepared
    <3>2. CASE y = e
      BY <1>2, <1>4, <1>5, <1>7, <2>1, <3>2 DEF Prepared
    <3>3. QED
      BY <3>1, <3>2
  <2>2. QED
    BY <1>5, <2>1, PreparedKeeps
<1>8. QED
  BY <1>3, <1>5, <1>6, <1>7 DEF r

LEMMA EmptiedKeeps ==
  ASSUME NEW g, Inv(g), NEW d
  PROVE  Inv(Emptied(g, d)) /\ Emptied(g, d).events = g.events /\ Emptied(g, d).row = g.row
<1>1. Base(g)
  BY DEF Inv
<1>2. QED
  BY <1>1, EmptyDeckIs, DeckIs, DeckKeeps DEF Emptied, OnDeck

LEMMA LoadByHandKeeps ==
  ASSUME LineInv, NEW e \in Entries, NEW d \in Decks, Load(e, d)
  PROVE  Keeps
<1> DEFINE o == Override(G)
           k == [track |-> e, phase |-> "loaded", queue |-> e]
           D == OnDeck(o, d, k)
           r == Released(D.row, d, e)
           g == [D EXCEPT !.row = r]
           m == Moved(g.row, e, "ready", d)
           h == [g EXCEPT !.row = m]
<1>1. Base(o) /\ Idled(o) /\ Inv(o) /\ o.row = row /\ Len(o.events) = Len(events)
  BY StateIs, GIs, OverrideIs
<1>2. \/ Done(Refresh(h))
      \/ Done(g)
      \/ Done(o)
  <2>1. [o EXCEPT !.ctl.deck[d] = k, !.row = Released(@, d, e)] = g
    <3> HIDE DEF o
    <3>1. QED
      BY <1>1, Typed DEF States, OnDeck
  <2> DEFINE f == [o EXCEPT !.ctl.deck[d] = k, !.row = Released(@, d, e)]
  <2>2. \/ Done(IF CanMove(f.row, e, "ready", d)
                THEN Refresh([f EXCEPT !.row = Moved(@, e, "ready", d)]) ELSE f)
        \/ Done(o)
    BY DEF Load
  <2> HIDE DEF f, g
  <2>3. QED
    BY <2>1, <2>2 DEF f
<1> HIDE DEF o
<1>3. k \in DeckStates
  BY LoadedIs
<1> HIDE DEF k
<1>4. D \in States /\ D.jobs = o.jobs /\ D.events = o.events /\ D.row = row
  <2>1. Base(o) /\ o.row = row
    BY <1>1
  <2>2. QED
    BY <1>3, <2>1, DeckIs
<1> HIDE DEF D
<1>5. Base(D) /\ Idled(D) /\ D.row \in Rows
  BY <1>1, <1>4, SamePipe, Typed
<1>6. r \in Rows
  BY <1>5, ReleasedIs
<1> HIDE DEF r
<1>7. Inv(g) /\ Idled(g) /\ g.events = D.events
  BY <1>5, <1>6, MovesIdled
<1> HIDE DEF g
<1>8. m \in Rows
  <2>1. g.row \in Rows /\ "ready" \in Statuses /\ d \in SomeDeck
    BY <1>7, Typed DEF Inv, Statuses, SomeDeck
  <2>2. QED
    BY <2>1, MovedIs
<1> HIDE DEF m
<1>9. Inv(h) /\ h.events = g.events
  BY <1>7, <1>8, MovesIdled DEF Inv
<1> HIDE DEF h
<1>10. Inv(Refresh(h)) /\ Refresh(h).events = h.events
  BY <1>9, RefreshKeeps
<1>11. QED
  BY <1>1, <1>2, <1>4, <1>7, <1>9, <1>10, DoneIs

LEMMA RunKeeps ==
  ASSUME LineInv, PauseQueue \/ Resume \/ \E d \in Decks : Play(d)
  PROVE  Keeps
<1>1. Inv(G) /\ Base(G) /\ G.events = events /\ G \in States /\ G.ctl \in Ctls
  BY StateIs, GIs, Typed
<1>2. CASE PauseQueue
  BY <1>1, <1>2, PauseIs, DoneIs DEF PauseQueue
<1>3. CASE \E d \in Decks : Play(d)
  <2>1. PICK d \in Decks : Done(StartDeck(Override(G), d))
    BY <1>3 DEF Play
  <2>2. Inv(Override(G)) /\ Len(Override(G).events) = Len(events)
    BY <1>1, OverrideIs
  <2>3. QED
    BY <2>1, <2>2, StartDeckKeeps, DoneIs
<1>4. CASE Resume
  <2> DEFINE c == [G.ctl EXCEPT !.paused = FALSE, !.running = TRUE]
             h == [G EXCEPT !.ctl = c]
             a == AutoLoad(h, FALSE)
  <2>1. Done(StartNext(AutoLoad([G EXCEPT !.ctl.paused = FALSE, !.ctl.running = TRUE], FALSE)))
    BY <1>4 DEF Resume
  <2>2. [G EXCEPT !.ctl.paused = FALSE, !.ctl.running = TRUE] = h
    BY <1>1 DEF States, Ctls
  <2>3. c \in Ctls /\ c.cache = G.ctl.cache
    BY <1>1 DEF Ctls
  <2> HIDE DEF c
  <2>4. Inv(h) /\ h.events = events
    BY <1>1, <2>3, FlagsKeep
  <2>5. Done(StartNext(a))
    BY <2>1, <2>2
  <2> HIDE DEF h
  <2>6. Inv(a) /\ Len(a.events) = Len(events)
    BY <2>4, AutoLoadKeeps
  <2> HIDE DEF a
  <2>7. QED
    BY <2>5, <2>6, StartNextKeeps, DoneIs
<1>5. QED
  BY <1>2, <1>3, <1>4

\* The queue cache is refreshed, the next search may start.
LEMMA EditKeeps ==
  ASSUME NEW g, Inv(g), Len(g.events) = Len(events), NEW e \in Entries, NEW x \in Assignments,
         \/ Idled(g)
         \/ g.row[e].status \notin {"preparing", "skipped", "removed"}
         \/ g.row[e].status # "removed" /\ x.status = "skipped" /\ "skip" \in Operators
         \/ g.row[e].status = "skipped" /\ x.status = "removed" /\ "remove" \in Operators,
         NEW f, f = Refresh([g EXCEPT !.row = [g.row EXCEPT ![e] = x]]),
         Done(f) \/ Done(AutoLoad(f, FALSE))
  PROVE  Keeps
<1>1. Inv(f) /\ f.events = g.events
  BY RowMoves
<1>2. QED
  BY <1>1, AutoLoadKeeps, DoneIs

LEMMA SkipKeeps ==
  ASSUME LineInv, NEW e \in Entries, Skip(e), "skip" \in Operators
  PROVE  Keeps
<1> DEFINE x == [status |-> "skipped", deck |-> NoDeck]
<1>1. Inv(G) /\ G.events = events /\ G.row = row
  BY StateIs, GIs
<1>2. PICK g \in {Emptied(G, row[e].deck), G} :
         Done(AutoLoad(Refresh([g EXCEPT !.row = Moved(@, e, "skipped", NoDeck)]), FALSE))
  BY DEF Skip
<1>3. Inv(g) /\ g.events = events /\ g.row = row
  BY <1>1, <1>2, EmptiedKeeps
<1>4. row[e].status # "removed"
  BY DEF Skip, CanMove, AllowedTransitions
<1>5. x \in Assignments /\ x.status = "skipped"
  BY DEF Assignments, Statuses, SomeDeck
<1>6. Moved(g.row, e, "skipped", NoDeck) = [g.row EXCEPT ![e] = x]
  BY DEF Moved, DeckAfter
<1> DEFINE f == Refresh([g EXCEPT !.row = [g.row EXCEPT ![e] = x]])
<1>7. Done(AutoLoad(f, FALSE))
  BY <1>2, <1>6
<1> HIDE DEF x
<1>8. f = Refresh([g EXCEPT !.row = [g.row EXCEPT ![e] = x]])
  OBVIOUS
<1> HIDE DEF f
<1>9. QED
  BY <1>3, <1>4, <1>5, <1>7, <1>8, EditKeeps

\* What the operator takes away from the preload is no longer prepared by it.
LEMMA ReleasedPreparedIs ==
  ASSUME LineInv, NEW e \in Entries, MayRelease(e)
  PROVE  /\ Inv(ReleasedPrepared(e)) /\ Len(ReleasedPrepared(e).events) = Len(events)
         /\ ReleasedPrepared(e).row = row
         /\ Idled(ReleasedPrepared(e)) \/ row[e].status = "ready"
<1>1. Inv(G) /\ Base(G) /\ G.events = events /\ G.row = row /\ row \in Rows
  BY StateIs, GIs
<1>2. CASE row[e].status = "preparing"
  <2> DEFINE o == Outdate(G)
             h == [o EXCEPT !.ctl.mix = NoMix]
  <2>1. ReleasedPrepared(e) = h
    BY <1>2 DEF ReleasedPrepared
  <2>2. Base(o) /\ Idled(o) /\ Inv(o) /\ o.row = row /\ Len(o.events) = Len(events)
    BY <1>1, OutdateIs, IdleIsInv
  <2> HIDE DEF o
  <2>3. Inv(h) /\ h.events = o.events /\ h.row = o.row /\ h.jobs = o.jobs
    BY <2>2, NoMixIs, MixKeeps
  <2> HIDE DEF h
  <2>4. Idled(h)
    BY <2>2, <2>3 DEF Idled
  <2>5. QED
    BY <2>1, <2>2, <2>3, <2>4
<1>3. CASE row[e].status # "preparing"
  <2> DEFINE m == Emptied(G, row[e].deck)
             job == Job("cleanup", NoEntry, row[e].deck)
  <2>1. row[e].status = "ready" /\ ReleasedPrepared(e) = Submit(m, job)
    BY <1>3 DEF MayRelease, ReleasedPrepared
  <2>2. Inv(m) /\ m.events = events /\ m.row = row
    BY <1>1, EmptiedKeeps
  <2>3. row[e].deck \in SomeDeck
    BY <1>1 DEF Rows, SomeDeck
  <2> HIDE DEF m
  <2>4. Inv(Submit(m, job)) /\ Submit(m, job).events = events
    BY <2>2, <2>3, CleanupKeeps
  <2>5. Submit(m, job).row = row
    <3>1. m \in States
      BY <2>2, Typed DEF Inv
    <3> HIDE DEF job
    <3>2. QED
      BY <2>2, <3>1 DEF Submit, States
  <2>6. QED
    BY <2>1, <2>4, <2>5
<1>4. QED
  BY <1>2, <1>3

LEMMA RemoveKeeps ==
  ASSUME LineInv, NEW e \in Entries, Remove(e), "remove" \in Operators
  PROVE  Keeps
<1> DEFINE x == [status |-> "removed", deck |-> NoDeck]
           g == IF MayRelease(e) THEN ReleasedPrepared(e) ELSE G
           f == Refresh([g EXCEPT !.row = [g.row EXCEPT ![e] = x]])
<1>1. Inv(G) /\ G.events = events /\ G.row = row
  BY StateIs, GIs
<1>2. Done(AutoLoad(Refresh([g EXCEPT !.row = Moved(@, e, "removed", NoDeck)]), FALSE))
  BY DEF Remove
<1>3. /\ Inv(g) /\ Len(g.events) = Len(events) /\ g.row = row
      /\ Idled(g) \/ row[e].status \in {"ready", "waiting", "played", "skipped", "failed"}
  BY <1>1, ReleasedPreparedIs DEF Remove
<1> HIDE DEF g
<1>4. x \in Assignments /\ x.status = "removed"
  BY DEF Assignments, Statuses, SomeDeck
<1>5. Moved(g.row, e, "removed", NoDeck) = [g.row EXCEPT ![e] = x]
  BY DEF Moved, DeckAfter
<1>6. Done(AutoLoad(f, FALSE))
  BY <1>2, <1>5
<1> HIDE DEF x
<1>7. f = Refresh([g EXCEPT !.row = [g.row EXCEPT ![e] = x]])
  OBVIOUS
<1> HIDE DEF f
<1>8. QED
  BY <1>3, <1>4, <1>6, <1>7, EditKeeps

LEMMA ResetKeeps ==
  ASSUME LineInv, NEW e \in Entries, Move(e) \/ Retry(e)
  PROVE  Keeps
<1> DEFINE x == [status |-> "waiting", deck |-> NoDeck]
<1>1. Inv(G) /\ G.events = events /\ G.row = row
  BY StateIs, GIs
<1>2. x \in Assignments
  BY DEF Assignments, Statuses, SomeDeck
<1>3. PICK g : /\ Inv(g) /\ Len(g.events) = Len(events) /\ g.row = row
               /\ Idled(g) \/ row[e].status \in {"ready", "failed"}
               /\ \/ Done(Refresh([g EXCEPT !.row = Reset(@, e)]))
                  \/ Done(AutoLoad(Refresh([g EXCEPT !.row = Reset(@, e)]), FALSE))
  <2>1. CASE Move(e)
    <3>1. MayRelease(e) /\ Done(Refresh([ReleasedPrepared(e) EXCEPT !.row = Reset(@, e)]))
      BY <2>1 DEF Move
    <3>2. QED
      BY <3>1, ReleasedPreparedIs
  <2>2. CASE Retry(e)
    <3>1. row[e].status = "failed" /\ Done(AutoLoad(Refresh([G EXCEPT !.row = Reset(@, e)]), FALSE))
      BY <2>2 DEF Retry
    <3>2. QED
      BY <1>1, <3>1
  <2>3. QED
    BY <2>1, <2>2
<1> DEFINE f == Refresh([g EXCEPT !.row = [g.row EXCEPT ![e] = x]])
<1>4. Done(f) \/ Done(AutoLoad(f, FALSE))
  BY <1>3 DEF Reset
<1> HIDE DEF x
<1>5. f = Refresh([g EXCEPT !.row = [g.row EXCEPT ![e] = x]])
  OBVIOUS
<1> HIDE DEF f
<1>6. QED
  BY <1>2, <1>3, <1>4, <1>5, EditKeeps

LEMMA OperatorKeeps ==
  ASSUME LineInv, Operator
  PROVE  Keeps
<1>1. CASE \E e \in Entries, d \in Decks : Load(e, d)
  BY <1>1, LoadByHandKeeps
<1>2. CASE PauseQueue \/ Resume \/ \E d \in Decks : Play(d)
  BY <1>2, RunKeeps
<1>3. CASE "skip" \in Operators /\ \E e \in Entries : Skip(e)
  BY <1>3, SkipKeeps
<1>4. CASE "remove" \in Operators /\ \E e \in Entries : Remove(e)
  BY <1>4, RemoveKeeps
<1>5. CASE \E e \in Entries : Move(e) \/ Retry(e)
  BY <1>5, ResetKeeps
<1>6. QED
  BY <1>1, <1>2, <1>3, <1>4, <1>5 DEF Operator
----------------------------------------------------------------------------
(* The whole specification.                                                *)

LEMMA InitKeeps ==
  ASSUME Init
  PROVE  LineInv
<1> DEFINE none == [status |-> "waiting", deck |-> NoDeck]
<1>1. none \in Assignments
  BY DEF Assignments, Statuses, SomeDeck
<1>2. row \in Rows
  BY <1>1 DEF Init, Rows, Assignments, SomeDeck
<1>3. ctl \in Ctls
  <2>1. [d \in Decks |-> EmptyDeck] \in [Decks -> DeckStates]
    BY EmptyDeckIs
  <2>2. 0 \in 0..MaximumFailures
    BY DEF MaximumFailures
  <2> DEFINE ds == [d \in Decks |-> EmptyDeck]
  <2>3. ctl = [deck |-> ds, cache |-> row, running |-> TRUE,
               paused |-> FALSE, streak |-> 0, busy |-> FALSE, mix |-> NoMix]
    BY DEF Init
  <2> HIDE DEF ds
  <2>4. QED
    BY <1>2, <2>1, <2>2, <2>3, NoMixIs DEF Ctls, ds
<1>4. /\ jobs = << >> /\ events = << >> /\ timer \in Timers /\ commits = {}
  BY DEF Init, Timers
<1>5. G \in States /\ G.jobs = << >> /\ G.events = << >>
  BY <1>2, <1>3, <1>4 DEF G, States
<1>6. 0 <= Capacity /\ Len(<< >>) = 0
  BY PreloadAssumption
<1>7. Base(G) /\ Idled(G)
  BY <1>5, <1>6 DEF Base, Idled
<1>8. QED
  BY <1>7, IdleIsInv DEF LineInv

\* Only a callback shortens the queue of callbacks.
LEMMA NextKeeps ==
  ASSUME LineInv, Next
  PROVE  LineInv' /\ (Len(events') < Len(events) => Callback)
<1>1. Len(events) \in Nat
  BY StateIs
<1>2. CASE Worker \/ SearchRejects \/ Prepare
  BY <1>1, <1>2, WorkerKeeps DEF Keeps
<1>3. CASE Callback
  BY <1>3, CallbackKeeps DEF Consumes
<1>4. CASE TimeoutFires \/ Tick \/ Operator \/ CompleteTransition \/ AbortTransition \/ LoseIncoming \/ SkipIncoming
  <2>1. DeckA \in Decks
    BY DEF Decks
  <2>2. Keeps
    BY <1>4, <2>1, TimeoutKeeps, TickKeeps, OperatorKeeps, TransitionKeeps, CrossfadeKeeps, LostKeeps
  <2>3. QED
    BY <1>1, <2>2 DEF Keeps
<1>5. CASE \E d \in Decks : Crossfade(d) \/ FinishDeck(d)
  BY <1>1, <1>5, CrossfadeKeeps, FinishKeeps DEF Keeps
<1>6. CASE \E c \in commits : Commit(c)
  BY <1>1, <1>6, CommitKeeps DEF Keeps
<1>7. QED
  BY <1>2, <1>3, <1>4, <1>5, <1>6 DEF Next

LEMMA StutterKeeps ==
  ASSUME LineInv, UNCHANGED vars
  PROVE  LineInv'
<1>1. G' = G
  BY DEF G, vars
<1>2. QED
  BY <1>1 DEF LineInv

\* The preload is one line of work: whatever the worker, the operator, the timers and
\* playback do in between, at most one job or callback of the current generation is
\* outstanding, nothing but the stopping of emptied decks waits behind it, and while it
\* prepares a medium its entry is PREPARING for that deck (_preload_generation,
\* main_controller.py).
THEOREM LineInvariant == Spec => []LineInv
<1>1. Init => LineInv
  BY InitKeeps
<1>2. LineInv /\ [Next]_vars => LineInv'
  BY NextKeeps, StutterKeeps
<1>3. QED
  BY <1>1, <1>2, PTL DEF Spec

\* Rows, decks and the controller's own state keep their types, and the preload executor never
\* holds more jobs than it has room for.
THEOREM PreloadTypes == Spec => []TypeOK
<1>1. ASSUME LineInv
      PROVE  TypeOK
  <2>1. Base(G)
    BY <1>1, StateIs
  <2>2. row \in Rows /\ ctl \in Ctls /\ ctl.deck \in [Decks -> DeckStates] /\ Len(jobs) <= Capacity
    BY <1>1, <2>1, StateIs, GIs DEF Base
  <2>3. ctl.mix \in Mixes /\ (ctl.mix = NoMix => ctl.mix.deck = NoDeck)
    BY <2>2 DEF Ctls, NoMix
  <2>4. ctl.mix.deck \in Decks \cup {NoDeck}
    BY <2>3 DEF Mixes
  <2>5. QED
    BY <2>2, <2>4 DEF TypeOK, Ctls, DeckStates, SomeEntry
<1>2. QED
  BY <1>1, LineInvariant, PTL

\* What is adopted is what is prepared for that deck.
LEMMA AdoptsPrepared ==
  ASSUME LineInv, Next, NEW d \in Decks, NEW e \in Entries, Arrived("complete"),
         ctl.deck[d].track # e, ctl'.deck[d].track = e, Len(events') < Len(events)
  PROVE  \/ row[e] = [status |-> "preparing", deck |-> d]
         \/ ({"skip", "remove"} \subseteq Operators) /\ row[e].status = "removed"
<1> DEFINE ev == events[1]
           P == Processed
           k == [track |-> ev.e, phase |-> "loaded", queue |-> ev.e]
           h == OnDeck(P, ev.d, k)
           job == Job("persist", ev.e, ev.d)
<1>1. OnComplete
  BY NextKeeps DEF Callback, OnFound, OnUnavailable, OnFailed, OnFollowup, OnPersistFailed, Arrived
<1>2. /\ ev \in EventRecords /\ EventAimed(ev) /\ ev.kind = "complete" /\ Inv(P) /\ P.ctl = ctl
      /\ Len(events) \in Nat \ {0}
  BY ArrivedIs
<1>3. ev.e \in Entries /\ ev.d \in Decks /\ ev.e \in SomeEntry /\ ev.d \in SomeDeck
  BY <1>2 DEF EventAimed, SomeEntry, SomeDeck
<1>4. P \in States /\ P.ctl \in Ctls /\ ctl.deck \in [Decks -> DeckStates] /\ Base(P)
  BY <1>2, StateIs, Typed DEF Inv
<1>5. ctl' # ctl
  OBVIOUS
<1>6. /\ ev.live
      /\ \/ Done(TooLate(P))
         \/ /\ ~CacheConflicts(ev.e)
            /\ Done(Idle(P)) \/ Done(Adopted(P, ev.e, ev.d))
  <2>1. ev.live
    BY <1>1, <1>5 DEF OnComplete, Ignored
  <2>2. IF CacheConflicts(ev.e) \/ ctl.deck[ev.d].track # NoEntry
        THEN Done(TooLate(P))
        ELSE \/ Done(Adopted(P, ev.e, ev.d))
             \/ "adopt" \in Failing /\ Done(Idle(P))
    BY <1>1, <2>1 DEF OnComplete
  <2> HIDE DEF P
  <2>3. QED
    BY <2>1, <2>2
<1>7. ~Done(TooLate(P)) /\ ~Done(Idle(P))
  <2> HIDE DEF P
  <2>1. TooLate(P).ctl.deck = ctl.deck /\ Idle(P).ctl.deck = ctl.deck
    BY <1>2, <1>4 DEF TooLate, Idle, States, Ctls
  <2>2. QED
    BY <2>1 DEF Done
<1>8. ctl'.deck = [ctl.deck EXCEPT ![ev.d] = k]
  <2> HIDE DEF P
  <2>1. ctl' = Submit(h, job).ctl
    BY <1>6, <1>7 DEF Done, Adopted, OnDeck
  <2> HIDE DEF job, k
  <2>2. h \in States /\ h.ctl.deck = [ctl.deck EXCEPT ![ev.d] = k]
    <3>1. k \in DeckStates
      BY <1>3, LoadedIs DEF k
    <3>2. h \in States
      BY <1>3, <1>4, <3>1, DeckIs
    <3>3. h.ctl.deck = [ctl.deck EXCEPT ![ev.d] = k]
      BY <1>2, <1>4 DEF OnDeck, States, Ctls
    <3>4. QED
      BY <3>2, <3>3
  <2> HIDE DEF h
  <2>3. Submit(h, job).ctl = h.ctl
    BY <2>2 DEF Submit, States
  <2>4. QED
    BY <2>1, <2>2, <2>3
<1>9. d = ev.d /\ e = ev.e
  <2> HIDE DEF P, h, job
  <2>1. QED
    BY <1>3, <1>4, <1>8
<1>10. Prepared(G, ev.e, ev.d)
  <2>1. Marked(G) /\ G.events = events /\ 1 \in 1..Len(events)
    BY <1>2, StateIs, GIs DEF Inv
  <2>2. QED
    BY <1>2, <1>6, <2>1 DEF Marked
<1>11. QED
  BY <1>6, <1>7, <1>9, <1>10, GIs DEF Prepared, CacheConflicts

\* The same without a restriction of the operator: what is adopted is PREPARING for that deck,
\* or it was removed from the queue while it was prepared.
AdoptsPreparingOrRemoved ==
  [][\A d \in Decks, e \in Entries :
       Arrived("complete") /\ ctl.deck[d].track # e /\ ctl'.deck[d].track = e /\ Len(events') < Len(events)
         => row[e] = [status |-> "preparing", deck |-> d] \/ row[e].status = "removed"]_vars

\* Whatever the operator does, a medium is adopted only for an entry that is PREPARING for that
\* deck, or for one that was removed while its cached row hid it (complete, _preload_cache_conflicts).
THEOREM AdoptsPreparedOnly == Spec => AdoptsPreparingOrRemoved
<1>1. ASSUME LineInv, [Next]_vars
      PROVE  [\A d \in Decks, e \in Entries :
                Arrived("complete") /\ ctl.deck[d].track # e /\ ctl'.deck[d].track = e /\ Len(events') < Len(events)
                  => row[e] = [status |-> "preparing", deck |-> d] \/ row[e].status = "removed"]_vars
  BY <1>1, AdoptsPrepared
<1>2. QED
  BY <1>1, LineInvariant, PTL DEF Spec, AdoptsPreparingOrRemoved

\* An operator who does not both skip and remove entries never has a medium adopted for an
\* entry that is not PREPARING for that deck.
THEOREM NothingStaleIsAdopted ==
  ASSUME ~({"skip", "remove"} \subseteq Operators)
  PROVE  Spec => AdoptsOnlyPreparing
<1>1. ASSUME LineInv, [Next]_vars
      PROVE  [\A d \in Decks, e \in Entries :
                Arrived("complete") /\ ctl.deck[d].track # e /\ ctl'.deck[d].track = e /\ Len(events') < Len(events)
                  => row[e] = [status |-> "preparing", deck |-> d]]_vars
  BY <1>1, AdoptsPrepared
<1>2. QED
  BY <1>1, LineInvariant, PTL DEF Spec, AdoptsOnlyPreparing
----------------------------------------------------------------------------
(* A session in which the operator skips titles and resumes the run, the   *)
(* preparation may be slow and media may fail, and the preload executor    *)
(* has two places at least.  What rows, decks and the queue cache say of a *)
(* title (Titles), and what the one line of work may rely on (Pipe).       *)

Session == /\ Operators \subseteq {"skip", "resume"} /\ Slow \subseteq {"prepare"}
           /\ Failing \subseteq {"media"} /\ Capacity >= 2

Past == {"playing", "played", "skipped", "failed", "removed"}
Gone == {"skipped", "failed", "removed"}
Early == {"waiting", "skipped", "failed", "removed"}

\* PLAYING on d, or past it.
Started(g, x, d) == g.row[x].status \in Past /\ (g.row[x].status = "playing" => g.row[x].deck = d)

\* A deck shows nothing, or one title that is its queue entry: loaded, it is PREPARING or READY
\* for the deck; played, it is PLAYING; finished, it is past READY for good.
DeckShows(g, d) ==
  LET k == g.ctl.deck[d]
  IN  /\ k.track = k.queue
      /\ k.phase = "empty" <=> k.queue = NoEntry
      /\ k.phase = "loaded" => g.row[k.queue].status \in {"preparing", "ready"} /\ g.row[k.queue].deck = d
      /\ k.phase \in {"playing", "finished"} => Started(g, k.queue, d) /\ g.row[k.queue].status \notin Gone
      /\ k.phase = "playing" => g.row[k.queue].status = "playing"

Shows(g) ==
  \A d \in Decks : /\ DeckShows(g, d)
                   /\ g.ctl.deck[d].queue # NoEntry => g.ctl.deck[Other(d)].queue # g.ctl.deck[d].queue

\* What is READY is loaded; what is PLAYING plays, or its end is on the way to the queue.
OnItsDeck(g, x, phase) ==
  g.row[x].deck \in Decks /\ g.ctl.deck[g.row[x].deck].queue = x /\ g.ctl.deck[g.row[x].deck].phase = phase
Rowed(g) ==
  \A x \in Entries :
    /\ g.row[x].status = "ready" => OnItsDeck(g, x, "loaded")
    /\ g.row[x].status = "playing" =>
         OnItsDeck(g, x, "playing") \/ (\E c \in g.commits : c.e = x /\ c.d = g.row[x].deck)

\* An end on the way to the queue is that of a title that no deck plays.
Committed(g) ==
  \A c \in g.commits : /\ Started(g, c.e, c.d)
                       /\ \A d \in Decks : g.ctl.deck[d].queue = c.e => g.ctl.deck[d].phase = "finished"

\* What is mixed out has been started, on that deck.
Mixed(g) ==
  Mixing(g) => LET m == g.ctl.mix
               IN  /\ m.deck \in Decks /\ m.track \in Entries /\ m.queue = m.track
                   /\ Started(g, m.track, m.deck) /\ g.ctl.deck[Other(m.deck)].queue # m.track

\* The queue cache knows what waits, and of what is prepared that it is not over.
Cached(g) ==
  \A x \in Entries :
    /\ g.row[x].status = "waiting" => g.ctl.cache[x].status = "waiting"
    /\ g.row[x].status = "preparing" => g.ctl.cache[x].status \in {"waiting", "preparing"}

Titles(g) == Shows(g) /\ Rowed(g) /\ Committed(g) /\ Mixed(g) /\ Cached(g)

\* What is PREPARING is what the timer is for, and nothing else is under way.
Preparing(g) ==
  \A x \in Entries : g.row[x].status = "preparing" =>
    /\ g.ctl.busy /\ g.row[x].deck \in Decks /\ g.timer.e = x /\ g.timer.d = g.row[x].deck
    /\ \A i \in 1..Len(g.jobs) : g.jobs[i].kind = "cleanup" \/ (g.jobs[i].live /\ g.jobs[i].kind \in {"load", "persist"})
    /\ \A i \in 1..Len(g.events) : g.events[i].live /\ g.events[i].kind \in {"complete", "failed"}

\* While the preload the timer is for is under way, its entry has not been started, and once it
\* is on the deck its commit is outstanding.
Timed(g) ==
  g.ctl.busy /\ g.timer # NoTimer =>
    /\ g.row[g.timer.e].status \in Early \cup {"preparing", "ready"}
    /\ g.row[g.timer.e].status = "ready" => g.row[g.timer.e].deck = g.timer.d
    /\ g.ctl.deck[g.timer.d].queue = g.timer.e => ~Idled(g)

\* Cleanups that may wait behind a preload: the one of the handover under way.
Room(g) == IF Mixing(g) THEN 0 ELSE 1

\* The deck of a preload is free, in the queue too.
FreeFor(g, d) == \A x \in Entries : g.row[x].deck = d => g.row[x].status \notin {"ready", "playing"}

Aimed(g, j) == g.ctl.busy /\ g.timer.e = j.e /\ g.timer.d = j.d
Alone(g, i) == /\ g.events = << >>
               /\ \A k \in 1..Len(g.jobs) : k # i => g.jobs[k].kind = "cleanup"

\* What a job found, and what it holds while it is the current one.
Saw(g, j) == \A x \in Entries : g.row[x].status = "ready" => j.seen[g.row[x].deck] = x

SearchHolds(g, j) ==
  j.kind = "search" =>
    /\ j.live => g.timer = NoTimer /\ (j.at = "choosing" /\ j.d # NoDeck => g.ctl.deck[j.d].queue = NoEntry)
    /\ j.at = "seen" => Saw(g, j)

LoadHolds(g, j, i) ==
  j.kind = "load" =>
    /\ j.live => /\ Aimed(g, j) /\ Alone(g, i) /\ FreeFor(g, j.d) /\ g.ctl.deck[j.d].queue = NoEntry
                 /\ Len(g.jobs) <= i + Room(g)
                 /\ j.at \in {"start", "validated"} => g.row[j.e].status \in Early
    /\ ~j.live /\ j.at = "validated" => g.row[j.e].status \in Gone

PersistHolds(g, j, i) ==
  j.kind = "persist" =>
    /\ j.live => /\ Aimed(g, j) /\ Alone(g, i) /\ FreeFor(g, j.d)
                 /\ \/ /\ g.row[j.e].status = "preparing" /\ g.row[j.e].deck = j.d
                       /\ g.ctl.deck[j.d].queue = j.e /\ g.ctl.deck[j.d].phase = "loaded"
                    \/ g.row[j.e].status \in Gone
    /\ ~j.live => g.row[j.e].status \in Gone

JobHolds(g, i) ==
  SearchHolds(g, g.jobs[i]) /\ LoadHolds(g, g.jobs[i], i) /\ PersistHolds(g, g.jobs[i], i)

\* A callback of the current generation is the last one.
EventHolds(g, i) ==
  LET v == g.events[i]
  IN  v.live =>
        /\ i = Len(g.events)
        /\ v.kind = "found" => /\ g.timer = NoTimer
                               /\ v.d # NoDeck => g.ctl.deck[v.d].queue = NoEntry
                               /\ v.e # NoEntry => g.row[v.e].status \in Early
        /\ v.kind # "found" => i = 1 /\ Aimed(g, v)
        /\ v.kind \in {"unavailable", "failed", "complete"} => g.ctl.deck[v.d].queue = NoEntry
        /\ v.kind = "complete" => FreeFor(g, v.d) /\ Len(g.jobs) <= Room(g)

Lined(g) == /\ \A i \in 1..Len(g.jobs) : JobHolds(g, i)
            /\ \A i \in 1..Len(g.events) : EventHolds(g, i)

Pipe(g) == Preparing(g) /\ Timed(g) /\ Lined(g)

Agrees(g) == Inv(g) /\ Titles(g) /\ Pipe(g)
SessionInv == Agrees(G)
----------------------------------------------------------------------------
(* What the functions on g leave of it.                                    *)

\* Rows, decks and commits stay; cache, flag and handover are as given.
Alters(g, h, cache, busy, mix) ==
  /\ h \in States /\ h.row = g.row /\ h.commits = g.commits /\ h.ctl.deck = g.ctl.deck
  /\ h.ctl.cache = cache /\ h.ctl.busy = busy /\ h.ctl.mix = mix

InLine(g, h) == h.jobs = g.jobs /\ h.events = g.events /\ h.timer = g.timer

\* Everything outstanding is of an older generation.
OutOfLine(g, h) ==
  /\ h.timer = NoTimer /\ Len(h.jobs) = Len(g.jobs) /\ Len(h.events) = Len(g.events)
  /\ \A i \in 1..Len(g.jobs) : /\ h.jobs[i].kind = g.jobs[i].kind /\ h.jobs[i].e = g.jobs[i].e
                               /\ h.jobs[i].d = g.jobs[i].d /\ h.jobs[i].at = g.jobs[i].at
                               /\ h.jobs[i].seen = g.jobs[i].seen /\ ~h.jobs[i].live
  /\ \A i \in 1..Len(g.events) : ~h.events[i].live

WithCtl(g, c) == [g EXCEPT !.ctl = c]

LEMMA CtlIs ==
  ASSUME NEW g, NEW c, g \in States, c \in Ctls
  PROVE  /\ WithCtl(g, c) \in States /\ WithCtl(g, c).ctl = c /\ WithCtl(g, c).row = g.row
         /\ WithCtl(g, c).commits = g.commits /\ WithCtl(g, c).jobs = g.jobs
         /\ WithCtl(g, c).events = g.events /\ WithCtl(g, c).timer = g.timer
BY DEF WithCtl, States

LEMMA CtlAlters ==
  ASSUME NEW g, NEW c, g \in States, c \in Ctls, c.deck = g.ctl.deck
  PROVE  Alters(g, WithCtl(g, c), c.cache, c.busy, c.mix) /\ InLine(g, WithCtl(g, c))
BY CtlIs DEF Alters, InLine

LEMMA RefreshIs ==
  ASSUME NEW g, Base(g)
  PROVE  Alters(g, Refresh(g), g.row, g.ctl.busy, g.ctl.mix) /\ InLine(g, Refresh(g))
<1> DEFINE c == [g.ctl EXCEPT !.cache = g.row]
<1>1. g \in States /\ g.ctl \in Ctls /\ g.row \in Rows
  BY Typed
<1>2. /\ c \in Ctls /\ c.deck = g.ctl.deck /\ c.cache = g.row /\ c.busy = g.ctl.busy /\ c.mix = g.ctl.mix
  BY <1>1 DEF Ctls
<1>3. Refresh(g) = WithCtl(g, c)
  BY <1>1 DEF Refresh, WithCtl, States
<1> HIDE DEF c
<1>4. QED
  BY <1>1, <1>2, <1>3, CtlAlters

LEMMA IdleIs ==
  ASSUME NEW g, Base(g)
  PROVE  /\ Alters(g, Idle(g), g.ctl.cache, FALSE, g.ctl.mix) /\ InLine(g, Idle(g))
         /\ Alters(g, TooLate(g), g.ctl.cache, FALSE, NoMix) /\ InLine(g, TooLate(g))
<1> DEFINE c1 == [g.ctl EXCEPT !.busy = FALSE]
           c2 == [g.ctl EXCEPT !.busy = FALSE, !.mix = NoMix]
<1>1. g \in States /\ g.ctl \in Ctls
  BY Typed
<1>2. c1 \in Ctls /\ c1.deck = g.ctl.deck /\ c1.cache = g.ctl.cache /\ c1.busy = FALSE /\ c1.mix = g.ctl.mix
  BY <1>1 DEF Ctls
<1>3. c2 \in Ctls /\ c2.deck = g.ctl.deck /\ c2.cache = g.ctl.cache /\ c2.busy = FALSE /\ c2.mix = NoMix
  BY <1>1, NoMixIs DEF Ctls
<1>4. Idle(g) = WithCtl(g, c1)
  BY <1>1 DEF Idle, WithCtl, States
<1>5. TooLate(g) = WithCtl(g, c2)
  BY <1>1 DEF TooLate, WithCtl, States, Ctls
<1> HIDE DEF c1, c2
<1>6. Alters(g, Idle(g), g.ctl.cache, FALSE, g.ctl.mix) /\ InLine(g, Idle(g))
  BY <1>1, <1>2, <1>4, CtlAlters
<1>7. Alters(g, TooLate(g), g.ctl.cache, FALSE, NoMix) /\ InLine(g, TooLate(g))
  BY <1>1, <1>3, <1>5, CtlAlters
<1>8. QED
  BY <1>6, <1>7

LEMMA StaleSeen ==
  ASSUME NEW s \in Seq(JobRecords)
  PROVE  \A i \in 1..Len(s) : Stale(s)[i].seen = s[i].seen
<1>1. DOMAIN s = 1..Len(s) /\ \A i \in 1..Len(s) : s[i] \in JobRecords
  OBVIOUS
<1>2. \A i \in 1..Len(s) : Stale(s)[i] = [s[i] EXCEPT !.live = FALSE]
  BY <1>1 DEF Stale
<1>3. QED
  BY <1>1, <1>2 DEF JobRecords

LEMMA OutdateAlters ==
  ASSUME NEW g, Base(g)
  PROVE  Alters(g, Outdate(g), g.ctl.cache, FALSE, g.ctl.mix) /\ OutOfLine(g, Outdate(g))
<1> DEFINE c == [g.ctl EXCEPT !.busy = FALSE]
           h == Outdate(g)
<1>1. g \in States /\ g.ctl \in Ctls /\ g.jobs \in Seq(JobRecords) /\ g.events \in Seq(EventRecords)
  BY Typed
<1>2. c.deck = g.ctl.deck /\ c.cache = g.ctl.cache /\ c.busy = FALSE /\ c.mix = g.ctl.mix
  BY <1>1 DEF Ctls
<1>3. h.ctl = c /\ h.row = g.row /\ h.commits = g.commits /\ h \in States
  BY OutdateIs, Typed
<1>4. h.jobs = Stale(g.jobs) /\ h.events = Stale(g.events) /\ h.timer = NoTimer
  BY <1>1 DEF Outdate, States
<1> HIDE DEF c, h
<1>5. Alters(g, h, g.ctl.cache, FALSE, g.ctl.mix)
  BY <1>2, <1>3 DEF Alters
<1>6. OutOfLine(g, h)
  BY <1>1, <1>4, StaleJobs, StaleEvents, StaleSeen DEF OutOfLine
<1>7. QED
  BY <1>5, <1>6 DEF h

LEMMA PauseAlters ==
  ASSUME NEW g, Base(g)
  PROVE  Alters(g, Pause(g), g.ctl.cache, FALSE, NoMix) /\ OutOfLine(g, Pause(g))
<1> DEFINE o == Outdate(g)
           c == [o.ctl EXCEPT !.running = FALSE, !.paused = TRUE, !.mix = NoMix]
<1>1. Alters(g, o, g.ctl.cache, FALSE, g.ctl.mix) /\ OutOfLine(g, o) /\ Base(o)
  BY OutdateAlters, OutdateIs
<1>2. Pause(g) = [o EXCEPT !.ctl.running = FALSE, !.ctl.paused = TRUE, !.ctl.mix = NoMix]
  BY DEF Pause
<1> HIDE DEF o
<1>3. o \in States /\ o.ctl \in Ctls
  BY <1>1, Typed
<1>4. c \in Ctls /\ c.deck = o.ctl.deck /\ c.cache = o.ctl.cache /\ c.busy = o.ctl.busy /\ c.mix = NoMix
  BY <1>3, NoMixIs DEF Ctls
<1>5. Pause(g) = WithCtl(o, c)
  BY <1>2, <1>3 DEF WithCtl, States, Ctls
<1> HIDE DEF c
<1>6. Alters(o, Pause(g), o.ctl.cache, o.ctl.busy, NoMix) /\ InLine(o, Pause(g))
  BY <1>3, <1>4, <1>5, CtlAlters
<1>7. QED
  BY <1>1, <1>6 DEF Alters, InLine, OutOfLine
----------------------------------------------------------------------------
(* Frames.                                                                 *)

LEMMA TitlesSame ==
  ASSUME NEW g, NEW h, Titles(g), NEW cache \in {g.ctl.cache, g.row}, NEW busy, NEW mix \in {g.ctl.mix, NoMix},
         Alters(g, h, cache, busy, mix)
  PROVE  Titles(h)
<1>1. /\ h.row = g.row /\ h.commits = g.commits /\ h.ctl.deck = g.ctl.deck
      /\ h.ctl.cache = cache /\ h.ctl.mix = mix
  BY DEF Alters
<1>2. Shows(h)
  <2>1. ASSUME NEW d \in Decks, DeckShows(g, d)
        PROVE  DeckShows(h, d)
    BY <1>1, <2>1 DEF DeckShows, Started
  <2> QED  BY <1>1, <2>1 DEF Titles, Shows
<1>3. Rowed(h)
  <2>1. \A x \in Entries : \A p : OnItsDeck(g, x, p) => OnItsDeck(h, x, p)
    BY <1>1 DEF OnItsDeck
  <2> QED  BY <1>1, <2>1 DEF Titles, Rowed
<1>4. Committed(h)
  BY <1>1 DEF Titles, Committed, Started
<1>5. Mixed(h)
  BY <1>1 DEF Titles, Mixed, Mixing, Started
<1>6. Cached(h)
  BY <1>1 DEF Titles, Cached
<1>7. QED
  BY <1>2, <1>3, <1>4, <1>5, <1>6 DEF Titles

\* What a step beside the pipeline may do to rows and decks.
RowsEase(g, h) ==
  \A x \in Entries :
    /\ h.row[x].status = "ready" => h.row[x] = g.row[x]
    /\ h.row[x].status = "preparing" => h.row[x] = g.row[x]
    /\ g.row[x].status = "preparing" => h.row[x] = g.row[x] \/ h.row[x].status \in Gone
    /\ g.row[x].status = "ready" /\ g.ctl.busy => h.row[x] = g.row[x] \/ h.row[x].status \in Gone
    /\ g.row[x].status \in Early => h.row[x].status \in Early
    /\ g.row[x].status \in Gone => h.row[x].status \in Gone
    /\ \A d \in Decks : h.row[x].deck = d /\ h.row[x].status \in {"ready", "playing"}
                           => g.row[x].deck = d /\ g.row[x].status \in {"ready", "playing"}

DecksEase(g, h) ==
  \A d \in Decks :
    /\ h.ctl.deck[d].queue = g.ctl.deck[d].queue \/ h.ctl.deck[d].queue = NoEntry
    /\ g.ctl.deck[d].phase = "loaded" => \/ h.ctl.deck[d] = g.ctl.deck[d]
                                         \/ h.row[g.ctl.deck[d].queue].status # "preparing"

Eases(g, h) == /\ h \in States /\ InLine(g, h) /\ h.ctl.busy = g.ctl.busy /\ (Mixing(h) => Mixing(g))
               /\ RowsEase(g, h) /\ DecksEase(g, h)

LEMMA JobOf ==
  ASSUME NEW g, Base(g), NEW i \in 1..Len(g.jobs)
  PROVE  /\ g.jobs[i] \in JobRecords /\ JobAimed(g.jobs[i])
         /\ g.jobs[i].kind \in {"load", "persist"} => g.jobs[i].e \in Entries /\ g.jobs[i].d \in Decks
         /\ g.jobs[i].d # NoDeck => g.jobs[i].d \in Decks
<1>1. g.jobs[i] \in JobRecords /\ JobAimed(g.jobs[i])
  BY Typed DEF Base
<1>2. QED
  BY <1>1 DEF JobAimed, JobRecords, SomeDeck

LEMMA EventOf ==
  ASSUME NEW g, Base(g), NEW i \in 1..Len(g.events)
  PROVE  /\ g.events[i] \in EventRecords
         /\ g.events[i].kind # "found" => g.events[i].e \in Entries /\ g.events[i].d \in Decks
         /\ g.events[i].e # NoEntry => g.events[i].e \in Entries
         /\ g.events[i].d # NoDeck => g.events[i].d \in Decks
<1>1. g.events[i] \in EventRecords /\ EventAimed(g.events[i])
  BY Typed DEF Base
<1>2. QED
  BY <1>1 DEF EventAimed, EventRecords, SomeDeck, SomeEntry

LEMMA TimerOf ==
  ASSUME NEW g, Base(g)
  PROVE  /\ g.timer # NoTimer => g.timer.e \in Entries /\ g.timer.d \in Decks
         /\ \A e \in Entries : g.timer.e = e => g.timer # NoTimer
<1>1. g.timer \in Timers
  BY Typed
<1>2. QED
  BY <1>1, PreloadAssumption DEF Timers, NoTimer

LEMMA EasesKeeps ==
  ASSUME NEW g, NEW h, Base(g), Pipe(g), Eases(g, h)
  PROVE  Pipe(h)
<1>1. /\ h.jobs = g.jobs /\ h.events = g.events /\ h.timer = g.timer /\ h.ctl.busy = g.ctl.busy
      /\ RowsEase(g, h) /\ DecksEase(g, h)
  BY DEF Eases, InLine
<1>2. Preparing(h)
  BY <1>1 DEF Pipe, Preparing, RowsEase
<1>3. Timed(h)
  <2> SUFFICES ASSUME g.ctl.busy, g.timer # NoTimer
               PROVE  /\ h.row[g.timer.e].status \in Early \cup {"preparing", "ready"}
                      /\ h.row[g.timer.e].status = "ready" => h.row[g.timer.e].deck = g.timer.d
                      /\ h.ctl.deck[g.timer.d].queue = g.timer.e => ~Idled(h)
    BY <1>1 DEF Timed
  <2>1. /\ g.timer.e \in Entries /\ g.timer.d \in Decks /\ g.timer.e # NoEntry
        /\ g.row[g.timer.e].status \in Early \cup {"preparing", "ready"}
        /\ g.row[g.timer.e].status = "ready" => g.row[g.timer.e].deck = g.timer.d
        /\ g.ctl.deck[g.timer.d].queue = g.timer.e => ~Idled(g)
    BY TimerOf, PreloadAssumption DEF Pipe, Timed
  <2>2. h.row[g.timer.e].status \in Early \cup {"preparing", "ready"}
    BY <1>1, <2>1 DEF RowsEase, Early, Gone
  <2>3. h.row[g.timer.e].status = "ready" => h.row[g.timer.e].deck = g.timer.d
    BY <1>1, <2>1 DEF RowsEase
  <2>4. h.ctl.deck[g.timer.d].queue = g.timer.e => ~Idled(h)
    BY <1>1, <2>1 DEF DecksEase, Idled
  <2> QED  BY <2>2, <2>3, <2>4
<1>4. Room(g) <= Room(h) /\ Room(g) \in Nat /\ Room(h) \in Nat
  BY DEF Room, Eases
<1>5. \A d \in Decks : FreeFor(g, d) => FreeFor(h, d)
  BY <1>1 DEF FreeFor, RowsEase
<1>6. \A d \in Decks : g.ctl.deck[d].queue = NoEntry => h.ctl.deck[d].queue = NoEntry
  BY <1>1 DEF DecksEase
<1>7. Len(g.jobs) \in Nat
  BY Typed
<1>8. ASSUME NEW i \in 1..Len(g.jobs)
      PROVE  JobHolds(h, i)
  <2> DEFINE j == g.jobs[i]
  <2>1. JobHolds(g, i)
    BY <1>8 DEF Pipe, Lined
  <2>2. /\ j.kind \in {"load", "persist"} => j.e \in Entries /\ j.d \in Decks
        /\ j.d # NoDeck => j.d \in Decks
    BY <1>8, JobOf
  <2>3. (Aimed(g, j) => Aimed(h, j)) /\ (Alone(g, i) => Alone(h, i))
    BY <1>1 DEF Aimed, Alone
  <2>4. Saw(g, j) => Saw(h, j)
    BY <1>1 DEF Saw, RowsEase
  <2> HIDE DEF j
  <2>5. SearchHolds(g, j) => SearchHolds(h, j)
    BY <1>1, <1>6, <2>2, <2>4 DEF SearchHolds
  <2>6. LoadHolds(g, j, i) => LoadHolds(h, j, i)
    <3>1. j.kind = "load" => /\ g.row[j.e].status \in Early => h.row[j.e].status \in Early
                             /\ g.row[j.e].status \in Gone => h.row[j.e].status \in Gone
      BY <1>1, <2>2 DEF RowsEase
    <3>2. Len(g.jobs) <= i + Room(g) => Len(h.jobs) <= i + Room(h)
      BY <1>1, <1>4, <1>7, <1>8
    <3> QED  BY <1>5, <1>6, <2>2, <2>3, <3>1, <3>2 DEF LoadHolds
  <2>7. PersistHolds(g, j, i) => PersistHolds(h, j, i)
    <3>1. j.kind = "persist" /\ g.row[j.e].status \in Gone => h.row[j.e].status \in Gone
      BY <1>1, <2>2 DEF RowsEase
    <3>2. j.kind = "persist" /\ g.row[j.e].status = "preparing" =>
             h.row[j.e].status \in Gone \/ h.row[j.e] = g.row[j.e]
      BY <1>1, <2>2 DEF RowsEase
    <3>3. /\ j.kind = "persist" /\ g.ctl.deck[j.d].queue = j.e /\ g.ctl.deck[j.d].phase = "loaded" /\ h.row[j.e].status = "preparing"
          => h.ctl.deck[j.d] = g.ctl.deck[j.d]
      BY <1>1, <2>2 DEF DecksEase
    <3> QED  BY <1>5, <2>2, <2>3, <3>1, <3>2, <3>3 DEF PersistHolds
  <2> QED  BY <1>1, <2>1, <2>5, <2>6, <2>7 DEF JobHolds, j
<1>9. ASSUME NEW i \in 1..Len(g.events)
      PROVE  EventHolds(h, i)
  <2> DEFINE v == g.events[i]
  <2>1. EventHolds(g, i)
    BY <1>9 DEF Pipe, Lined
  <2>2. /\ v.kind # "found" => v.e \in Entries /\ v.d \in Decks
        /\ v.e # NoEntry => v.e \in Entries
        /\ v.d # NoDeck => v.d \in Decks
    BY <1>9, EventOf
  <2>3. Aimed(g, v) => Aimed(h, v)
    BY <1>1 DEF Aimed
  <2>4. v.e # NoEntry => (g.row[v.e].status \in Early => h.row[v.e].status \in Early)
    BY <1>1, <2>2 DEF RowsEase
  <2>5. Len(g.jobs) <= Room(g) => Len(g.jobs) <= Room(h)
    BY <1>4, <1>7
  <2> QED  BY <1>1, <1>5, <1>6, <2>1, <2>2, <2>3, <2>4, <2>5 DEF EventHolds
<1>10. Lined(h)
  BY <1>1, <1>8, <1>9 DEF Lined
<1> QED  BY <1>2, <1>3, <1>10 DEF Pipe
----------------------------------------------------------------------------
(* A new generation.                                                       *)

\* Nothing that is outstanding counts on a title any more.
Resting(g) ==
  /\ \A x \in Entries : g.row[x].status # "preparing"
  /\ \A i \in 1..Len(g.jobs) :
       /\ g.jobs[i].kind = "search" /\ g.jobs[i].at = "seen" => Saw(g, g.jobs[i])
       /\ g.jobs[i].kind = "load" /\ g.jobs[i].at = "validated" => g.row[g.jobs[i].e].status \in Gone
       /\ g.jobs[i].kind = "persist" => g.row[g.jobs[i].e].status \in Gone

LEMMA IdleRests ==
  ASSUME NEW g, Base(g), Pipe(g), ~g.ctl.busy
  PROVE  Resting(g)
<1>1. \A x \in Entries : g.row[x].status # "preparing"
  BY DEF Pipe, Preparing
<1>2. ASSUME NEW i \in 1..Len(g.jobs)
      PROVE  JobHolds(g, i) /\ g.jobs[i].live \in BOOLEAN
  BY <1>2, JobOf DEF Pipe, Lined, JobRecords
<1> QED
  BY <1>1, <1>2 DEF Resting, JobHolds, SearchHolds, LoadHolds, PersistHolds, Aimed

LEMMA RestingOutdated ==
  ASSUME NEW g, NEW h, Resting(g), OutOfLine(g, h), h.row = g.row
  PROVE  Pipe(h) /\ Resting(h)
<1>1. /\ h.timer = NoTimer /\ Len(h.jobs) = Len(g.jobs) /\ Len(h.events) = Len(g.events) /\ h.row = g.row
      /\ \A i \in 1..Len(g.jobs) : /\ h.jobs[i].kind = g.jobs[i].kind /\ h.jobs[i].e = g.jobs[i].e
                                   /\ h.jobs[i].at = g.jobs[i].at
                                   /\ h.jobs[i].seen = g.jobs[i].seen /\ ~h.jobs[i].live
      /\ \A i \in 1..Len(g.events) : ~h.events[i].live
  BY DEF OutOfLine
<1>2. Resting(h)
  BY <1>1 DEF Resting, Saw
<1>3. Preparing(h)
  BY <1>2 DEF Resting, Preparing
<1>4. Timed(h)
  BY <1>1 DEF Timed
<1>5. ASSUME NEW i \in 1..Len(h.jobs)
      PROVE  JobHolds(h, i)
  BY <1>1, <1>2, <1>5 DEF Resting, JobHolds, SearchHolds, LoadHolds, PersistHolds
<1>6. \A i \in 1..Len(h.events) : EventHolds(h, i)
  BY <1>1 DEF EventHolds
<1> QED  BY <1>2, <1>3, <1>4, <1>5, <1>6 DEF Pipe, Lined

LEMMA OutdateAgrees ==
  ASSUME NEW g, Base(g), Titles(g), Resting(g)
  PROVE  Agrees(Outdate(g)) /\ Resting(Outdate(g))
<1>1. Alters(g, Outdate(g), g.ctl.cache, FALSE, g.ctl.mix) /\ OutOfLine(g, Outdate(g))
  BY OutdateAlters
<1>2. Titles(Outdate(g))
  BY <1>1, TitlesSame
<1>3. Inv(Outdate(g))
  BY OutdateIs, IdleIsInv
<1>4. Pipe(Outdate(g)) /\ Resting(Outdate(g))
  BY <1>1, RestingOutdated DEF Alters
<1> QED  BY <1>2, <1>3, <1>4 DEF Agrees

LEMMA PauseAgrees ==
  ASSUME NEW g, Base(g), Titles(g), Resting(g)
  PROVE  Agrees(Pause(g))
<1>1. Alters(g, Pause(g), g.ctl.cache, FALSE, NoMix) /\ OutOfLine(g, Pause(g))
  BY PauseAlters
<1>2. Titles(Pause(g))
  BY <1>1, TitlesSame
<1>3. Inv(Pause(g))
  BY PauseIs
<1>4. Pipe(Pause(g))
  BY <1>1, RestingOutdated DEF Alters
<1> QED  BY <1>2, <1>3, <1>4 DEF Agrees

LEMMA SubmitIs ==
  ASSUME NEW g, NEW job, g \in States, job \in JobRecords
  PROVE  /\ Submit(g, job).row = g.row /\ Submit(g, job).ctl = g.ctl /\ Submit(g, job).events = g.events
         /\ Submit(g, job).timer = g.timer /\ Submit(g, job).commits = g.commits /\ Submit(g, job) \in States
         /\ Submit(g, job).jobs = IF HasRoom(g) THEN Append(g.jobs, job) ELSE g.jobs
<1>1. g.jobs \in Seq(JobRecords)
  BY DEF States
<1>2. Append(g.jobs, job) \in Seq(JobRecords)
  BY <1>1
<1> QED  BY <1>2 DEF Submit, States

\* A search is the first job of its generation.
LEMMA FirstSearch ==
  ASSUME NEW o, NEW h, NEW job, Base(o), Idled(o), Pipe(o), o.timer = NoTimer, h.row = o.row, h.ctl.deck = o.ctl.deck,
         h.events = o.events, h.timer = NoTimer, job \in JobRecords, job.kind = "search", job.at = "start",
         h.jobs = o.jobs \/ h.jobs = Append(o.jobs, job)
  PROVE  Pipe(h)
<1>1. \A x \in Entries : o.row[x].status # "preparing"
  BY TimerOf DEF Pipe, Preparing
<1>2. Preparing(h) /\ Timed(h)
  BY <1>1 DEF Preparing, Timed
<1>3. \A i \in 1..Len(o.events) : ~o.events[i].live
  BY DEF Idled
<1>4. \A i \in 1..Len(h.events) : EventHolds(h, i)
  BY <1>3 DEF EventHolds
<1>5. o.jobs \in Seq(JobRecords) /\ Len(o.jobs) \in Nat
  BY Typed
<1>6. ASSUME NEW i \in 1..Len(h.jobs)
      PROVE  JobHolds(h, i)
  <2>1. CASE i \in 1..Len(o.jobs)
    <3>1. h.jobs[i] = o.jobs[i]
      BY <1>5, <2>1, Appended
    <3>2. JobHolds(o, i) /\ ~Current(o.jobs[i])
      BY <2>1 DEF Pipe, Lined, Idled
    <3>3. Saw(o, o.jobs[i]) => Saw(h, h.jobs[i])
      BY <3>1 DEF Saw
    <3> QED  BY <3>1, <3>2, <3>3 DEF JobHolds, SearchHolds, LoadHolds, PersistHolds, Current
  <2>2. CASE i \notin 1..Len(o.jobs)
    <3>1. h.jobs[i] = job
      BY <1>5, <1>6, <2>2, Appended
    <3> QED  BY <3>1 DEF JobHolds, SearchHolds, LoadHolds, PersistHolds
  <2> QED  BY <2>1, <2>2
<1> QED  BY <1>2, <1>4, <1>6 DEF Pipe, Lined

LEMMA AutoLoadAgrees ==
  ASSUME NEW g, NEW recovery \in BOOLEAN, Agrees(g)
  PROVE  Agrees(AutoLoad(g, recovery))
<1> DEFINE o == Outdate(g)
           job == [Job("search", NoEntry, NoDeck) EXCEPT !.recovery = recovery]
           s == Submit(o, job)
           c == [s.ctl EXCEPT !.busy = HasRoom(g)]
           h == [s EXCEPT !.ctl.busy = HasRoom(g)]
<1>1. Base(g) /\ Titles(g) /\ Pipe(g)
  BY DEF Agrees, Inv
<1>2. Inv(AutoLoad(g, recovery))
  BY AutoLoadKeeps DEF Agrees
<1>3. AutoLoad(g, recovery) = g \/ (~g.ctl.busy /\ AutoLoad(g, recovery) \in {Pause(g), h})
  BY DEF AutoLoad
<1>4. SUFFICES ASSUME ~g.ctl.busy
               PROVE  Agrees(Pause(g)) /\ Titles(h) /\ Pipe(h)
  BY <1>1, <1>2, <1>3 DEF Agrees
<1>5. Resting(g)
  BY <1>1, <1>4, IdleRests
<1>6. Agrees(Pause(g))
  BY <1>1, <1>5, PauseAgrees
<1>7. Agrees(o) /\ Base(o) /\ Idled(o) /\ o.timer = NoTimer
  BY <1>1, <1>5, OutdateAgrees, OutdateIs, OutdateAlters DEF OutOfLine
<1>8. job \in JobRecords /\ job.kind = "search" /\ job.at = "start"
  <2>1. Job("search", NoEntry, NoDeck) \in JobRecords /\ Job("search", NoEntry, NoDeck).kind = "search"
        /\ Job("search", NoEntry, NoDeck).at = "start"
    BY JobIs DEF JobKinds, SomeEntry, SomeDeck
  <2> QED  BY <2>1 DEF JobRecords
<1> HIDE DEF o, job
<1>9. o \in States /\ o.ctl \in Ctls
  BY <1>7, Typed
<1>10. /\ s.row = o.row /\ s.ctl = o.ctl /\ s.events = o.events /\ s.timer = o.timer /\ s.commits = o.commits
       /\ s \in States /\ (s.jobs = o.jobs \/ s.jobs = Append(o.jobs, job))
  BY <1>8, <1>9, SubmitIs
<1> HIDE DEF s
<1>11. HasRoom(g) \in BOOLEAN
  BY DEF HasRoom
<1>12. c \in Ctls /\ c.deck = s.ctl.deck /\ c.cache = s.ctl.cache /\ c.mix = s.ctl.mix
  BY <1>9, <1>10, <1>11 DEF Ctls
<1>13. h = WithCtl(s, c)
  BY <1>10 DEF WithCtl, States
<1> HIDE DEF c, h
<1>14. Alters(s, h, s.ctl.cache, c.busy, s.ctl.mix) /\ InLine(s, h)
  BY <1>10, <1>12, <1>13, CtlAlters
<1>15. Alters(o, h, o.ctl.cache, c.busy, o.ctl.mix)
  BY <1>10, <1>14 DEF Alters
<1>16. Titles(h)
  BY <1>7, <1>15, TitlesSame DEF Agrees
<1>17. Pipe(h)
  BY <1>7, <1>8, <1>10, <1>14, FirstSearch DEF Agrees, Alters, InLine
<1> QED  BY <1>6, <1>16, <1>17

LEMMA FlagsAgree ==
  ASSUME NEW g, NEW c, Agrees(g), c \in Ctls, c.deck = g.ctl.deck, c.cache = g.ctl.cache, c.busy = g.ctl.busy,
         c.mix \in {g.ctl.mix, NoMix}
  PROVE  Agrees(WithCtl(g, c))
<1>1. Base(g) /\ g \in States /\ Titles(g) /\ Pipe(g)
  BY Typed DEF Agrees, Inv
<1>2. Alters(g, WithCtl(g, c), c.cache, c.busy, c.mix) /\ InLine(g, WithCtl(g, c))
  BY <1>1, CtlAlters
<1>3. Titles(WithCtl(g, c))
  BY <1>1, <1>2, TitlesSame
<1>4. Eases(g, WithCtl(g, c))
  BY <1>2 DEF Eases, Alters, RowsEase, DecksEase, Mixing
<1>5. Pipe(WithCtl(g, c))
  BY <1>1, <1>4, EasesKeeps
<1>6. Inv(WithCtl(g, c))
  BY FlagsKeep DEF Agrees, WithCtl
<1> QED  BY <1>3, <1>5, <1>6 DEF Agrees

LEMMA RefreshAgrees ==
  ASSUME NEW g, Agrees(g)
  PROVE  Agrees(Refresh(g)) /\ Refresh(g).ctl.busy = g.ctl.busy
<1>1. Base(g) /\ Titles(g) /\ Pipe(g)
  BY DEF Agrees, Inv
<1>2. Alters(g, Refresh(g), g.row, g.ctl.busy, g.ctl.mix) /\ InLine(g, Refresh(g))
  BY <1>1, RefreshIs
<1>3. Titles(Refresh(g))
  BY <1>1, <1>2, TitlesSame
<1>4. Eases(g, Refresh(g))
  BY <1>2 DEF Eases, Alters, RowsEase, DecksEase, Mixing
<1>5. Pipe(Refresh(g))
  BY <1>1, <1>4, EasesKeeps
<1>6. Inv(Refresh(g))
  BY RefreshKeeps DEF Agrees
<1> QED  BY <1>2, <1>3, <1>5, <1>6 DEF Agrees, Alters

LEMMA ContinueAgrees ==
  ASSUME NEW g, Agrees(g), ~g.ctl.busy
  PROVE  Agrees(ContinueAfterFailure(g))
<1> DEFINE n == IF g.ctl.streak < MaximumFailures THEN g.ctl.streak + 1 ELSE g.ctl.streak
           c == [g.ctl EXCEPT !.streak = n]
           counted == [g EXCEPT !.ctl.streak = IF @ < MaximumFailures THEN @ + 1 ELSE @]
<1>1. g \in States /\ g.ctl \in Ctls /\ Base(g)
  BY Typed DEF Agrees, Inv
<1>2. n \in 0..MaximumFailures
  <2>1. g.ctl.streak \in 0..MaximumFailures
    BY <1>1 DEF Ctls
  <2> QED  BY <2>1 DEF MaximumFailures
<1>3. counted = WithCtl(g, c)
  BY <1>1 DEF States, WithCtl
<1> HIDE DEF n
<1>4. c \in Ctls /\ c.cache = g.ctl.cache /\ c.deck = g.ctl.deck /\ c.busy = g.ctl.busy /\ c.mix = g.ctl.mix
  BY <1>1, <1>2 DEF Ctls
<1> HIDE DEF c
<1>5. Agrees(WithCtl(g, c)) /\ WithCtl(g, c).ctl = c
  BY <1>1, <1>4, FlagsAgree, CtlIs
<1>6. ContinueAfterFailure(g) \in {Pause(counted), AutoLoad(counted, TRUE)}
  BY DEF ContinueAfterFailure
<1> HIDE DEF counted
<1>7. Agrees(counted) /\ ~counted.ctl.busy
  BY <1>3, <1>4, <1>5
<1>8. Base(counted) /\ Titles(counted) /\ Resting(counted)
  BY <1>7, IdleRests DEF Agrees, Inv
<1> QED  BY <1>6, <1>7, <1>8, PauseAgrees, AutoLoadAgrees

\* Where nothing is outstanding and nothing PREPARING, nothing is relied on.
LEMMA IdledPipe ==
  ASSUME NEW g, NEW h, Idled(g), \A i \in 1..Len(g.jobs) : JobHolds(g, i), Base(g),
         h.jobs = g.jobs, h.events = g.events, ~h.ctl.busy,
         \A x \in Entries : /\ h.row[x].status # "preparing"
                            /\ h.row[x].status = "ready" => h.row[x] = g.row[x]
                            /\ g.row[x].status \in Gone => h.row[x].status \in Gone
  PROVE  Pipe(h)
<1>1. Preparing(h) /\ Timed(h)
  BY DEF Preparing, Timed
<1>2. \A i \in 1..Len(h.events) : EventHolds(h, i)
  BY DEF Idled, EventHolds
<1>3. ASSUME NEW i \in 1..Len(h.jobs)
      PROVE  JobHolds(h, i)
  <2>1. JobHolds(g, i) /\ ~Current(g.jobs[i])
    BY <1>3 DEF Idled
  <2>2. Saw(g, g.jobs[i]) => Saw(h, g.jobs[i])
    BY DEF Saw
  <2>3. g.jobs[i].kind \in {"load", "persist"} => g.jobs[i].e \in Entries
    BY <1>3, JobOf
  <2> QED  BY <2>1, <2>2, <2>3 DEF JobHolds, SearchHolds, LoadHolds, PersistHolds, Current
<1> QED  BY <1>1, <1>2, <1>3 DEF Pipe, Lined

\* A preload that is over, and whose entry is no longer PREPARING, leaves nothing behind.
LEMMA IdleAgrees ==
  ASSUME NEW g, Inv(g), Titles(g), Idled(g), \A i \in 1..Len(g.jobs) : JobHolds(g, i),
         \A x \in Entries : g.row[x].status # "preparing"
  PROVE  Agrees(Idle(g)) /\ Agrees(TooLate(g)) /\ ~Idle(g).ctl.busy /\ ~TooLate(g).ctl.busy
<1>1. Base(g)
  BY DEF Inv
<1>2. /\ Alters(g, Idle(g), g.ctl.cache, FALSE, g.ctl.mix) /\ InLine(g, Idle(g))
      /\ Alters(g, TooLate(g), g.ctl.cache, FALSE, NoMix) /\ InLine(g, TooLate(g))
  BY <1>1, IdleIs
<1>3. Titles(Idle(g)) /\ Titles(TooLate(g))
  BY <1>2, TitlesSame
<1>4. Pipe(Idle(g))
  BY <1>1, <1>2, IdledPipe DEF Alters, InLine
<1>5. Pipe(TooLate(g))
  BY <1>1, <1>2, IdledPipe DEF Alters, InLine
<1> QED  BY <1>2, <1>3, <1>4, <1>5, IdleKeeps DEF Agrees, Alters
----------------------------------------------------------------------------
(* Playback.                                                               *)

LEMMA TwoDecks ==
  ASSUME NEW d \in Decks
  PROVE  /\ Other(d) \in Decks /\ Other(d) # d /\ Other(Other(d)) = d
         /\ \A x \in Decks : x = d \/ x = Other(d)
BY PreloadAssumption DEF Decks, Other

\* A title that is READY on its deck becomes PLAYING.
LEMMA StartDeckIs ==
  ASSUME NEW g, NEW d, NEW q, Base(g), d \in Decks, q \in Entries, g.ctl.deck[d].queue = q,
         g.ctl.deck[d].track = q, g.row[q].status = "ready"
  PROVE  /\ StartDeck(g, d) \in States /\ InLine(g, StartDeck(g, d))
         /\ StartDeck(g, d).row[q].status = "playing" /\ StartDeck(g, d).row[q].deck = g.row[q].deck
         /\ \A x \in Entries : x # q => StartDeck(g, d).row[x] = g.row[x]
         /\ StartDeck(g, d).ctl.deck[d].queue = q /\ StartDeck(g, d).ctl.deck[d].track = q
         /\ StartDeck(g, d).ctl.deck[d].phase = "playing"
         /\ \A x \in Decks : x # d => StartDeck(g, d).ctl.deck[x] = g.ctl.deck[x]
         /\ StartDeck(g, d).commits = {c \in g.commits : c.e # q}
         /\ StartDeck(g, d).ctl.cache = StartDeck(g, d).row /\ StartDeck(g, d).ctl.busy = g.ctl.busy
         /\ StartDeck(g, d).ctl.mix = g.ctl.mix
<1> DEFINE k == g.ctl.deck[d]
           kk == [k EXCEPT !.phase = "playing", !.queue = q]
           dd == [g.ctl.deck EXCEPT ![d] = kk]
           left == {c \in g.commits : c.e # q}
           a == [g.row[q] EXCEPT !.status = "playing"]
           rr == [g.row EXCEPT ![q] = a]
           cc == [g.ctl EXCEPT !.deck = dd]
           s == [g EXCEPT !.ctl = cc, !.commits = left, !.row = rr]
<1>1. g \in States /\ g.row \in Rows /\ g.ctl \in Ctls /\ k \in DeckStates /\ g.commits \subseteq EndRecords
      /\ g.ctl.deck \in [Decks -> DeckStates] /\ g.row[q] \in Assignments
  BY Typed DEF Rows, Assignments, SomeDeck
<1>2. Startable(g, k.queue) /\ q # NoEntry
  BY PreloadAssumption DEF Startable
<1>3. StartDeck(g, d) = Refresh([[g EXCEPT !.ctl.deck[d] = kk, !.commits = left] EXCEPT !.row[q].status = "playing"])
  <2> DEFINE heard == CASE Startable(g, k.queue) -> k.queue
                        [] Startable(g, k.track) /\ g.row[k.track].deck = d -> k.track
                        [] OTHER -> NoEntry
             started == [g EXCEPT !.ctl.deck[d] = [k EXCEPT !.phase = "playing", !.queue = heard],
                                  !.commits = {c \in @ : c.e # k.queue}]
  <2>1. heard = q
    <3>1. k.queue = q /\ k.track = q
      OBVIOUS
    <3> HIDE DEF k
    <3> QED  BY <1>2, <3>1
  <2>2. StartDeck(g, d) = Refresh(IF heard = NoEntry THEN started ELSE [started EXCEPT !.row[heard].status = "playing"])
    BY DEF StartDeck
  <2>3. started = [g EXCEPT !.ctl.deck[d] = kk, !.commits = left]
    BY <2>1
  <2> HIDE DEF heard, started
  <2> QED  BY <1>2, <2>1, <2>2, <2>3
<1>4. kk \in DeckStates /\ kk.queue = q /\ kk.track = k.track /\ kk.phase = "playing"
  BY <1>1 DEF DeckStates, SomeEntry
<1>5. a \in Assignments /\ a.status = "playing" /\ a.deck = g.row[q].deck
  BY <1>1 DEF Assignments, Statuses
<1>6. [[g EXCEPT !.ctl.deck[d] = kk, !.commits = left] EXCEPT !.row[q].status = "playing"] = s
  <2> HIDE DEF kk, left
  <2> QED  BY <1>1 DEF States, Ctls
<1> HIDE DEF kk, a
<1>7. dd \in [Decks -> DeckStates] /\ dd[d] = kk /\ \A x \in Decks : x # d => dd[x] = g.ctl.deck[x]
  BY <1>1, <1>4
<1>8. rr \in Rows /\ rr[q] = a /\ \A x \in Entries : x # q => rr[x] = g.row[x]
  BY <1>1, <1>5 DEF Rows, Assignments, SomeDeck
<1> HIDE DEF dd, rr
<1>9. cc \in Ctls /\ cc.deck = dd /\ cc.busy = g.ctl.busy /\ cc.mix = g.ctl.mix
  BY <1>1, <1>7 DEF Ctls
<1>10. left \subseteq EndRecords
  BY <1>1
<1> HIDE DEF cc, left
<1>11. /\ s \in States /\ s.ctl = cc /\ s.row = rr /\ s.commits = left /\ s.jobs = g.jobs
       /\ s.events = g.events /\ s.timer = g.timer
  BY <1>1, <1>8, <1>9, <1>10 DEF States
<1> HIDE DEF s
<1>12. Base(s)
  BY <1>11, SamePipe
<1>13. Alters(s, Refresh(s), s.row, s.ctl.busy, s.ctl.mix) /\ InLine(s, Refresh(s))
  BY <1>12, RefreshIs
<1>14. StartDeck(g, d) = Refresh(s)
  BY <1>3, <1>6
<1> QED
  BY <1>4, <1>5, <1>7, <1>8, <1>9, <1>11, <1>13, <1>14 DEF Alters, InLine, left

LEMMA ReadyDeckIs ==
  ASSUME NEW g, NEW d \in Decks, Base(g), Shows(g), DeckIsReady(g, d)
  PROVE  /\ g.ctl.deck[d].queue \in Entries /\ g.ctl.deck[d].phase = "loaded"
         /\ g.row[g.ctl.deck[d].queue].status = "ready" /\ g.row[g.ctl.deck[d].queue].deck = d
<1>1. g.ctl.deck[d] \in DeckStates /\ DeckShows(g, d)
  BY Typed DEF Shows
<1> QED  BY <1>1 DEF DeckShows, DeckIsReady, DeckStates, SomeEntry

LEMMA StartDeckAgrees ==
  ASSUME NEW g, NEW d, Agrees(g), d \in Decks, DeckIsReady(g, d), ~g.ctl.busy
  PROVE  Agrees(StartDeck(g, d))
<1> DEFINE q == g.ctl.deck[d].queue
           h == StartDeck(g, d)
<1>1. Base(g) /\ Titles(g) /\ Pipe(g) /\ Shows(g)
  BY DEF Agrees, Inv, Titles
<1>2. /\ q \in Entries /\ g.ctl.deck[d].phase = "loaded" /\ g.row[q].status = "ready" /\ g.row[q].deck = d
      /\ g.ctl.deck[d].track = q
  BY <1>1, ReadyDeckIs DEF Shows, DeckShows
<1>3. /\ h \in States /\ InLine(g, h)
      /\ h.row[q].status = "playing" /\ h.row[q].deck = d
      /\ \A x \in Entries : x # q => h.row[x] = g.row[x]
      /\ h.ctl.deck[d].queue = q /\ h.ctl.deck[d].track = q
      /\ h.ctl.deck[d].phase = "playing"
      /\ \A x \in Decks : x # d => h.ctl.deck[x] = g.ctl.deck[x]
      /\ h.commits = {c \in g.commits : c.e # q}
      /\ h.ctl.cache = h.row /\ h.ctl.busy = g.ctl.busy /\ h.ctl.mix = g.ctl.mix
  <2>1. Base(g) /\ d \in Decks /\ q \in Entries /\ g.ctl.deck[d].queue = q /\ g.ctl.deck[d].track = q
        /\ g.row[q].status = "ready" /\ g.row[q].deck = d
    BY <1>1, <1>2
  <2> QED  BY ONLY <2>1, StartDeckIs
<1> HIDE DEF h
<1>4. /\ \A x \in Decks : x = d \/ x = Other(d)
      /\ Other(d) \in Decks /\ Other(d) # d /\ Other(Other(d)) = d
  BY TwoDecks
<1>5. q # NoEntry /\ g.ctl.deck[Other(d)].queue # q
  BY <1>1, <1>2, PreloadAssumption DEF Shows
<1>6. \A x \in Decks : g.ctl.deck[x] \in DeckStates
  BY <1>1, Typed
<1>7. Shows(h)
  <2>1. DeckShows(h, d)
    BY <1>3, <1>5 DEF DeckShows, Started, Past, Gone
  <2>2. DeckShows(h, Other(d))
    <3>1. h.ctl.deck[Other(d)].queue # NoEntry => h.row[h.ctl.deck[Other(d)].queue] = g.row[h.ctl.deck[Other(d)].queue]
      BY <1>3, <1>4, <1>5, <1>6 DEF DeckStates, SomeEntry
    <3>2. DeckShows(g, Other(d))
      BY <1>1, <1>4 DEF Shows
    <3>3. g.ctl.deck[Other(d)].phase \in {"empty", "loaded", "playing", "finished"}
      BY <1>4, <1>6 DEF DeckStates
    <3> QED  BY <1>3, <1>4, <3>1, <3>2, <3>3 DEF DeckShows, Started
  <2>3. \A x \in Decks : h.ctl.deck[x].queue = g.ctl.deck[x].queue
    BY <1>3
  <2> QED  BY <1>1, <1>4, <2>1, <2>2, <2>3 DEF Shows
<1>8. Rowed(h)
  <2> SUFFICES ASSUME NEW x \in Entries
               PROVE  /\ h.row[x].status = "ready" => OnItsDeck(h, x, "loaded")
                      /\ h.row[x].status = "playing" =>
                           OnItsDeck(h, x, "playing") \/ (\E c \in h.commits : c.e = x /\ c.d = h.row[x].deck)
    BY DEF Rowed
  <2>1. CASE x = q
    BY <1>3, <2>1 DEF OnItsDeck
  <2>2. CASE x # q
    <3>1. h.row[x] = g.row[x]
      BY <1>3, <2>2
    <3>2. \A p : OnItsDeck(g, x, p) => OnItsDeck(h, x, p)
      BY <1>3, <2>2, <3>1 DEF OnItsDeck
    <3> QED  BY <1>1, <1>3, <2>2, <3>1, <3>2 DEF Titles, Rowed
  <2> QED  BY <2>1, <2>2
<1>9. \A x \in Entries, dd \in Decks : Started(g, x, dd) => Started(h, x, dd)
  BY <1>2, <1>3 DEF Started, Past
<1>10. \A c \in g.commits : c.e \in Entries /\ c.d \in Decks
  BY <1>1, Typed DEF EndRecords
<1>11. Committed(h)
  BY <1>1, <1>3, <1>9, <1>10 DEF Titles, Committed
<1>12. Mixed(h)
  <2> SUFFICES ASSUME Mixing(g)
               PROVE  LET m == g.ctl.mix
                      IN  /\ m.deck \in Decks /\ m.track \in Entries /\ m.queue = m.track
                          /\ Started(h, m.track, m.deck) /\ h.ctl.deck[Other(m.deck)].queue # m.track
    BY <1>3 DEF Mixed, Mixing
  <2>1. h.ctl.deck[Other(g.ctl.mix.deck)].queue = g.ctl.deck[Other(g.ctl.mix.deck)].queue
    BY <1>3, OtherIs
  <2> QED  BY <1>1, <1>9, <2>1 DEF Titles, Mixed
<1>13. Cached(h)
  BY <1>3 DEF Cached
<1>14. Eases(g, h)
  <2>1. RowsEase(g, h)
    <3>1. \A x \in Entries : h.row[x] = g.row[x] \/ (x = q /\ h.row[x].status = "playing" /\ h.row[x].deck = d)
      BY <1>3
    <3>2. g.row[q].status = "ready" /\ g.row[q].deck = d /\ ~g.ctl.busy
      BY <1>1, <1>2
    <3> QED  BY <3>1, <3>2 DEF RowsEase, Early, Gone
  <2>2. DecksEase(g, h)
    BY <1>2, <1>3 DEF DecksEase
  <2> QED  BY <1>3, <2>1, <2>2 DEF Eases, Mixing
<1>15. Pipe(h)
  BY <1>1, <1>14, EasesKeeps
<1>16. Inv(h)
  BY StartDeckKeeps DEF h, Agrees
<1>17. Agrees(h)
  BY <1>7, <1>8, <1>11, <1>12, <1>13, <1>15, <1>16 DEF Agrees, Titles
<1> QED  BY <1>17 DEF h

LEMMA StartNextAgrees ==
  ASSUME NEW g, Agrees(g)
  PROVE  Agrees(StartNext(g))
<1> DEFINE c == [g.ctl EXCEPT !.running = FALSE, !.paused = FALSE]
           h == [g EXCEPT !.ctl.running = FALSE, !.ctl.paused = FALSE]
           d == IF DeckA \in ReadyDecks(g) THEN DeckA ELSE DeckB
<1>1. g \in States /\ g.ctl \in Ctls
  BY Typed DEF Agrees, Inv
<1>2. Agrees(h)
  <2>1. c \in Ctls /\ c.cache = g.ctl.cache /\ c.deck = g.ctl.deck /\ c.busy = g.ctl.busy /\ c.mix = g.ctl.mix
    BY <1>1 DEF Ctls
  <2>2. h = WithCtl(g, c)
    BY <1>1 DEF States, Ctls, WithCtl
  <2> HIDE DEF c, h
  <2> QED  BY <2>1, <2>2, FlagsAgree
<1> HIDE DEF h
<1>3. \/ StartNext(g) \in {g, h}
      \/ ~g.ctl.busy /\ ReadyDecks(g) # {} /\ StartNext(g) = StartDeck(g, d)
  BY DEF StartNext, d, h
<1>4. ReadyDecks(g) # {} => d \in Decks /\ DeckIsReady(g, d)
  BY DEF ReadyDecks, Decks
<1> HIDE DEF d
<1> QED  BY <1>2, <1>3, <1>4, StartDeckAgrees
----------------------------------------------------------------------------
(* Titles that leave the queue, and titles that end.                       *)

\* A deck that is not touched, nor the row of its entry.
LEMMA DeckLeft ==
  ASSUME NEW g, NEW h, NEW d \in Decks, DeckShows(g, d), g.ctl.deck[d] \in DeckStates,
         h.ctl.deck[d] = g.ctl.deck[d],
         g.ctl.deck[d].queue # NoEntry => h.row[g.ctl.deck[d].queue] = g.row[g.ctl.deck[d].queue]
  PROVE  DeckShows(h, d)
<1>1. g.ctl.deck[d].phase \in {"empty", "loaded", "playing", "finished"}
  BY DEF DeckStates
<1> QED  BY <1>1 DEF DeckShows, Started

\* An entry that is skipped or fails is on no deck afterwards.
LEMMA RowLeaves ==
  ASSUME NEW g, NEW h, NEW x \in Entries, Base(g), Titles(g),
         h.row[x].status \in Gone, \A y \in Entries : y # x => h.row[y] = g.row[y],
         \A d \in Decks : \/ h.ctl.deck[d] = g.ctl.deck[d] /\ g.ctl.deck[d].queue # x
                          \/ h.ctl.deck[d] = EmptyDeck /\ g.ctl.deck[d].queue = x,
         h.commits = g.commits, h.ctl.mix \in {g.ctl.mix, NoMix}, h.ctl.cache \in {g.ctl.cache, h.row}
  PROVE  Titles(h)
<1>1. \A d \in Decks : /\ g.ctl.deck[d] \in DeckStates /\ h.ctl.deck[d].queue # x
                       /\ h.ctl.deck[d].queue \in {g.ctl.deck[d].queue, NoEntry}
  BY Typed, PreloadAssumption DEF EmptyDeck
<1>2. \A y \in Entries, d \in Decks : Started(g, y, d) => Started(h, y, d)
  BY DEF Started, Past, Gone
<1>3. Shows(h)
  <2>1. ASSUME NEW d \in Decks
        PROVE  DeckShows(h, d)
    <3>1. DeckShows(g, d) /\ g.ctl.deck[d] \in DeckStates
      BY <1>1 DEF Titles, Shows
    <3>2. CASE h.ctl.deck[d] = EmptyDeck
      BY <3>2 DEF DeckShows, EmptyDeck
    <3>3. CASE h.ctl.deck[d] = g.ctl.deck[d] /\ g.ctl.deck[d].queue # x
      <4>1. g.ctl.deck[d].queue # NoEntry => h.row[g.ctl.deck[d].queue] = g.row[g.ctl.deck[d].queue]
        BY <1>1, <3>3 DEF DeckStates, SomeEntry
      <4> QED  BY <3>1, <3>3, <4>1 DEF DeckShows, Started, DeckStates
    <3> QED  BY <2>1, <3>2, <3>3
  <2>2. ASSUME NEW d \in Decks, h.ctl.deck[d].queue # NoEntry
        PROVE  h.ctl.deck[Other(d)].queue # h.ctl.deck[d].queue
    BY <1>1, <2>2, TwoDecks DEF Titles, Shows
  <2> QED  BY <2>1, <2>2 DEF Shows
<1>4. Rowed(h)
  <2> SUFFICES ASSUME NEW y \in Entries
               PROVE  /\ h.row[y].status = "ready" => OnItsDeck(h, y, "loaded")
                      /\ h.row[y].status = "playing" =>
                           OnItsDeck(h, y, "playing") \/ (\E c \in h.commits : c.e = y /\ c.d = h.row[y].deck)
    BY DEF Rowed
  <2>1. CASE y = x
    BY <2>1 DEF Gone
  <2>2. CASE y # x
    <3>1. h.row[y] = g.row[y]
      BY <2>2
    <3>2. \A p : OnItsDeck(g, y, p) => OnItsDeck(h, y, p)
      BY <2>2, <3>1 DEF OnItsDeck
    <3> QED  BY <3>1, <3>2 DEF Titles, Rowed
  <2> QED  BY <2>1, <2>2
<1>5. \A c \in g.commits : c.e \in Entries /\ c.d \in Decks
  BY Typed DEF EndRecords
<1>6. Committed(h)
  BY <1>1, <1>2, <1>5, PreloadAssumption DEF Titles, Committed
<1>7. Mixed(h)
  <2> SUFFICES ASSUME Mixing(h)
               PROVE  LET m == h.ctl.mix
                      IN  /\ m.deck \in Decks /\ m.track \in Entries /\ m.queue = m.track
                          /\ Started(h, m.track, m.deck) /\ h.ctl.deck[Other(m.deck)].queue # m.track
    BY DEF Mixed
  <2>1. h.ctl.mix = g.ctl.mix /\ Mixing(g)
    BY DEF Mixing
  <2> QED  BY <1>1, <1>2, <2>1, OtherIs, PreloadAssumption DEF Titles, Mixed
<1>8. Cached(h)
  BY DEF Titles, Cached, Gone
<1> QED  BY <1>3, <1>4, <1>6, <1>7, <1>8 DEF Titles

\* The end of a title that was started on d.
LEMMA TitleEnds ==
  ASSUME NEW g, NEW h, NEW x \in Entries, NEW d \in Decks, Base(g), Titles(g), Started(g, x, d),
         g.ctl.deck[Other(d)].queue # x, h.row = g.row, h.commits = g.commits \cup {[e |-> x, d |-> d]},
         \A y \in Entries : y # x => h.ctl.cache[y] = g.ctl.cache[y],
         h.ctl.mix \in {g.ctl.mix, NoMix}, h.ctl.deck[Other(d)] = g.ctl.deck[Other(d)],
         \/ h.ctl.deck[d] = g.ctl.deck[d] /\ g.ctl.deck[d].queue # x
         \/ h.ctl.deck[d] = EmptyDeck /\ g.ctl.deck[d].queue = x
         \/ /\ g.ctl.deck[d].queue = x /\ h.ctl.deck[d].queue = x /\ h.ctl.deck[d].track = g.ctl.deck[d].track
            /\ h.ctl.deck[d].phase = "finished"
  PROVE  Titles(h)
<1>1. /\ \A y \in Decks : y = d \/ y = Other(d)
      /\ Other(d) \in Decks /\ Other(d) # d /\ Other(Other(d)) = d
  BY TwoDecks
<1>2. \A y \in Entries, dd \in Decks : Started(h, y, dd) <=> Started(g, y, dd)
  BY DEF Started
<1>3. x # NoEntry /\ g.row[x].status \in Past
  BY PreloadAssumption DEF Started
<1>4. \A dd \in Decks : DeckShows(g, dd) /\ g.ctl.deck[dd] \in DeckStates
  BY Typed DEF Titles, Shows
<1>5. g.ctl.deck[d].queue = x => g.ctl.deck[d].phase # "loaded"
  BY <1>3, <1>4 DEF DeckShows, Past
<1>6. Shows(h)
  <2>1. DeckShows(h, Other(d))
    BY <1>1, <1>4, DeckLeft
  <2>2. DeckShows(h, d)
    <3>1. CASE h.ctl.deck[d] = g.ctl.deck[d]
      BY <1>4, <3>1, DeckLeft
    <3>2. CASE h.ctl.deck[d] = EmptyDeck
      BY <3>2 DEF DeckShows, EmptyDeck
    <3>3. CASE /\ g.ctl.deck[d].queue = x /\ h.ctl.deck[d].queue = x /\ h.ctl.deck[d].track = g.ctl.deck[d].track
               /\ h.ctl.deck[d].phase = "finished"
      <4>1. g.ctl.deck[d].phase \in {"playing", "finished"}
        BY <1>3, <1>4, <1>5, <3>3 DEF DeckShows, DeckStates
      <4>2. Started(h, x, d) /\ h.row[x].status \notin Gone /\ h.ctl.deck[d].track = x
        <5>1. Started(g, x, d) /\ g.row[x].status \notin Gone /\ g.ctl.deck[d].track = x
          BY <1>4, <3>3, <4>1 DEF DeckShows
        <5> QED  BY <1>2, <3>3, <5>1
      <4> QED  BY <1>3, <3>3, <4>2 DEF DeckShows
    <3> QED  BY <3>1, <3>2, <3>3
  <2>3. \A y \in Decks : h.ctl.deck[y].queue \in {g.ctl.deck[y].queue, NoEntry}
    BY <1>1 DEF EmptyDeck
  <2>4. ASSUME NEW y \in Decks, h.ctl.deck[y].queue # NoEntry
        PROVE  h.ctl.deck[Other(y)].queue # h.ctl.deck[y].queue
    BY <2>3, <2>4, TwoDecks DEF Titles, Shows
  <2> QED  BY <1>1, <2>1, <2>2, <2>4 DEF Shows
<1>7. Rowed(h)
  <2> SUFFICES ASSUME NEW y \in Entries
               PROVE  /\ h.row[y].status = "ready" => OnItsDeck(h, y, "loaded")
                      /\ h.row[y].status = "playing" =>
                           OnItsDeck(h, y, "playing") \/ (\E c \in h.commits : c.e = y /\ c.d = h.row[y].deck)
    BY DEF Rowed
  <2>1. CASE y = x
    <3>1. [e |-> x, d |-> d] \in h.commits
      OBVIOUS
    <3> QED  BY <2>1, <3>1 DEF Started, Past
  <2>2. CASE y # x
    <3>1. \A p : OnItsDeck(g, y, p) => OnItsDeck(h, y, p)
      BY <1>1, <2>2 DEF OnItsDeck
    <3> QED  BY <3>1 DEF Titles, Rowed
  <2> QED  BY <2>1, <2>2
<1>8. \A c \in g.commits : c.e \in Entries /\ c.d \in Decks
  BY Typed DEF EndRecords
<1>9. Committed(h)
  <2> SUFFICES ASSUME NEW c \in h.commits
               PROVE  /\ Started(h, c.e, c.d)
                      /\ \A dd \in Decks : h.ctl.deck[dd].queue = c.e => h.ctl.deck[dd].phase = "finished"
    BY DEF Committed
  <2>1. CASE c = [e |-> x, d |-> d]
    <3>1. c.e = x /\ c.d = d
      BY <2>1
    <3>2. h.ctl.deck[Other(d)].queue # x
      OBVIOUS
    <3>3. h.ctl.deck[d].queue = x => h.ctl.deck[d].phase = "finished"
      BY <1>3 DEF EmptyDeck
    <3> QED  BY <1>1, <1>2, <3>1, <3>2, <3>3
  <2>2. CASE c \in g.commits
    <3>1. /\ c.e \in Entries /\ c.d \in Decks /\ Started(g, c.e, c.d) /\ c.e # NoEntry
          /\ \A dd \in Decks : g.ctl.deck[dd].queue = c.e => g.ctl.deck[dd].phase = "finished"
      BY <1>8, <2>2, PreloadAssumption DEF Titles, Committed
    <3>2. h.ctl.deck[d].queue = c.e => h.ctl.deck[d].phase = "finished"
      BY <3>1 DEF EmptyDeck
    <3> QED  BY <1>1, <1>2, <3>1, <3>2
  <2> QED  BY <2>1, <2>2
<1>10. Mixed(h)
  <2> SUFFICES ASSUME Mixing(h)
               PROVE  LET m == h.ctl.mix
                      IN  /\ m.deck \in Decks /\ m.track \in Entries /\ m.queue = m.track
                          /\ Started(h, m.track, m.deck) /\ h.ctl.deck[Other(m.deck)].queue # m.track
    BY DEF Mixed
  <2>1. h.ctl.mix = g.ctl.mix /\ Mixing(g)
    BY DEF Mixing
  <2>2. \A y \in Decks : h.ctl.deck[y].queue \in {g.ctl.deck[y].queue, NoEntry}
    BY <1>1 DEF EmptyDeck
  <2>3. LET m == g.ctl.mix
        IN  /\ m.deck \in Decks /\ m.track \in Entries /\ m.queue = m.track
            /\ Started(g, m.track, m.deck) /\ g.ctl.deck[Other(m.deck)].queue # m.track
    BY <2>1 DEF Titles, Mixed
  <2>4. Started(h, h.ctl.mix.track, h.ctl.mix.deck)
    BY <1>2, <2>1, <2>3
  <2>5. h.ctl.deck[Other(h.ctl.mix.deck)].queue # h.ctl.mix.track
    <3>1. /\ Other(g.ctl.mix.deck) \in Decks /\ g.ctl.mix.track # NoEntry
          /\ g.ctl.deck[Other(g.ctl.mix.deck)].queue # g.ctl.mix.track
      BY <2>3, OtherIs, PreloadAssumption
    <3> QED  BY <2>1, <2>2, <3>1
  <2> QED  BY <2>1, <2>3, <2>4, <2>5
<1>11. Cached(h)
  BY <1>3 DEF Titles, Cached, Past
<1> QED  BY <1>6, <1>7, <1>9, <1>10, <1>11 DEF Titles
----------------------------------------------------------------------------
(* Playback: titles end and are mixed.                                     *)

LEMMA DoneAgrees ==
  ASSUME NEW h, h \in States, Done(h), LineInv', Titles(h), Pipe(h)
  PROVE  SessionInv'
<1>1. h = [row |-> h.row, ctl |-> h.ctl, jobs |-> h.jobs, events |-> h.events,
           timer |-> h.timer, commits |-> h.commits]
  BY DEF States
<1>2. h = G'
  BY <1>1 DEF Done, G
<1>3. Inv(h)
  BY <1>2 DEF LineInv
<1> QED  BY <1>2, <1>3 DEF SessionInv, Agrees

LEMMA AgreesDone ==
  ASSUME NEW h, Agrees(h), Done(h), LineInv'
  PROVE  SessionInv'
BY DoneAgrees, Typed DEF Agrees, Inv

\* On deck d there is k.
LEMMA DeckPut ==
  ASSUME NEW g, NEW d \in Decks, NEW k \in DeckStates, Base(g)
  PROVE  /\ OnDeck(g, d, k) \in States /\ InLine(g, OnDeck(g, d, k)) /\ OnDeck(g, d, k).row = g.row
         /\ OnDeck(g, d, k).commits = g.commits /\ OnDeck(g, d, k).ctl.deck[d] = k
         /\ \A x \in Decks : x # d => OnDeck(g, d, k).ctl.deck[x] = g.ctl.deck[x]
         /\ OnDeck(g, d, k).ctl.cache = g.ctl.cache /\ OnDeck(g, d, k).ctl.busy = g.ctl.busy
         /\ OnDeck(g, d, k).ctl.mix = g.ctl.mix
<1> DEFINE dd == [g.ctl.deck EXCEPT ![d] = k]
           c == [g.ctl EXCEPT !.deck = dd]
<1>1. g \in States /\ g.ctl \in Ctls /\ g.ctl.deck \in [Decks -> DeckStates]
  BY Typed
<1>2. dd \in [Decks -> DeckStates] /\ dd[d] = k /\ \A x \in Decks : x # d => dd[x] = g.ctl.deck[x]
  BY <1>1
<1>3. OnDeck(g, d, k) = WithCtl(g, c)
  BY <1>1 DEF OnDeck, States, Ctls, WithCtl
<1> HIDE DEF dd
<1>4. c \in Ctls /\ c.cache = g.ctl.cache /\ c.deck = dd /\ c.busy = g.ctl.busy /\ c.mix = g.ctl.mix
  BY <1>1, <1>2 DEF Ctls
<1> HIDE DEF c
<1> QED  BY <1>1, <1>2, <1>3, <1>4, CtlIs DEF InLine

\* The end of q on d.
EndedToo(commits0, q, d) == commits0 \cup {[e |-> q, d |-> d]}

EndShows(g, h, q, d) ==
  /\ h \in States /\ InLine(g, h) /\ h.row = g.row /\ h.commits = EndedToo(g.commits, q, d)
  /\ \A y \in Entries : y # q => h.ctl.cache[y] = g.ctl.cache[y]
  /\ h.ctl.deck = g.ctl.deck /\ h.ctl.busy = g.ctl.busy /\ h.ctl.mix = g.ctl.mix

LEMMA EndedIs ==
  ASSUME NEW g, NEW d \in Decks, NEW q \in Entries, NEW keepDeck \in BOOLEAN, Base(g)
  PROVE  EndShows(g, Ended(g, d, q, keepDeck), q, d)
<1> DEFINE more == g.commits \cup {[e |-> q, d |-> d]}
           cache == [x \in Entries |-> IF x \notin {q} THEN g.ctl.cache[x]
                      ELSE [status |-> "played", deck |-> IF keepDeck THEN g.ctl.cache[x].deck ELSE NoDeck]]
           c == [g.ctl EXCEPT !.cache = cache]
           h == [g EXCEPT !.commits = more, !.ctl = c]
           en == Ended(g, d, q, keepDeck)
<1>1. g \in States /\ g.ctl \in Ctls /\ g.ctl.cache \in Rows /\ g.commits \subseteq EndRecords
  BY Typed
<1>2. EndingOn(d, q) = {q} /\ {[e |-> x, d |-> d] : x \in {q}} = {[e |-> q, d |-> d]}
  BY PreloadAssumption DEF EndingOn
<1>3. en = h
  <2>1. g.commits \cup {[e |-> x, d |-> d] : x \in {q}} = more
    BY <1>2
  <2> QED  BY <1>1, <1>2, <2>1 DEF Ended, States, Ctls
<1>4. more \subseteq EndRecords
  BY <1>1 DEF EndRecords
<1>5. \A y \in Entries : y # q => cache[y] = g.ctl.cache[y]
  OBVIOUS
<1>6. q \in SomeEntry
  BY DEF SomeEntry
<1>7. Aside(g, en)
  BY <1>6, EndedAside
<1> HIDE DEF more, cache
<1>8. c.cache = cache /\ c.deck = g.ctl.deck /\ c.busy = g.ctl.busy /\ c.mix = g.ctl.mix
  BY <1>1 DEF Ctls
<1> HIDE DEF c
<1>9. /\ h.commits = more /\ h.ctl = c /\ h.row = g.row /\ h.jobs = g.jobs /\ h.events = g.events
      /\ h.timer = g.timer
  BY <1>1 DEF States
<1> HIDE DEF h, en
<1>10. en \in States
  BY <1>7 DEF Aside
<1>11. QED
  BY <1>3, <1>5, <1>8, <1>9, <1>10 DEF InLine, more, en, EndedToo, EndShows

LEMMA FinishAgrees ==
  ASSUME SessionInv, LineInv', NEW d \in Decks, FinishDeck(d)
  PROVE  SessionInv'
<1> DEFINE q == ctl.deck[d].queue
           g == Ended(G, d, q, TRUE)
           k == [g.ctl.deck[d] EXCEPT !.phase = "finished"]
<1>1. Base(G) /\ Titles(G) /\ Pipe(G) /\ G.ctl = ctl /\ G.row = row
  BY GIs DEF SessionInv, Agrees, Inv
<1>2. ctl.deck[d] \in DeckStates /\ ctl.deck[d].phase = "playing"
  BY <1>1, Typed DEF FinishDeck, Playing
<1>3. /\ q \in Entries /\ Started(G, q, d) /\ G.ctl.deck[Other(d)].queue # q /\ G.ctl.deck[d].track = q
  BY <1>1, <1>2 DEF Titles, Shows, DeckShows, DeckStates, SomeEntry
<1>4. \/ Done(OnDeck(g, d, EmptyDeck))
      \/ Done([g EXCEPT !.ctl.deck[d].phase = "finished"])
  BY DEF FinishDeck, OnDeck
<1>5. G.ctl.deck[d].queue = q /\ G.ctl.deck[d].phase = "playing"
  BY <1>1, <1>2
<1> HIDE DEF q
<1>6. /\ g \in States /\ InLine(G, g) /\ g.row = G.row
      /\ g.commits = EndedToo(G.commits, q, d)
      /\ \A y \in Entries : y # q => g.ctl.cache[y] = G.ctl.cache[y]
      /\ g.ctl.deck = G.ctl.deck /\ g.ctl.busy = G.ctl.busy /\ g.ctl.mix = G.ctl.mix
  <2>1. q \in Entries /\ d \in Decks /\ TRUE \in BOOLEAN /\ Base(G)
    BY <1>1, <1>3
  <2>2. EndShows(G, g, q, d)
    BY ONLY <2>1, EndedIs
  <2> QED  BY <2>2 DEF EndShows
<1> HIDE DEF g
<1>7. Base(g)
  BY <1>1, <1>6, SamePipe DEF InLine
<1>8. k \in DeckStates /\ k.phase = "finished" /\ k.queue = q /\ k.track = q
  BY <1>1, <1>2, <1>3, <1>5, <1>6 DEF DeckStates
<1>9. [g EXCEPT !.ctl.deck[d].phase = "finished"] = OnDeck(g, d, k)
  BY <1>7, Typed DEF States, Ctls, OnDeck
<1> HIDE DEF k
<1>10. ASSUME NEW kk \in {EmptyDeck, k}
       PROVE  OnDeck(g, d, kk) \in States /\ Titles(OnDeck(g, d, kk)) /\ Pipe(OnDeck(g, d, kk))
  <2> DEFINE h == OnDeck(g, d, kk)
  <2>1. kk \in DeckStates
    BY <1>8, EmptyDeckIs
  <2>2. /\ h \in States /\ InLine(g, h) /\ h.row = g.row /\ h.commits = g.commits /\ h.ctl.deck[d] = kk
        /\ \A x \in Decks : x # d => h.ctl.deck[x] = g.ctl.deck[x]
        /\ h.ctl.cache = g.ctl.cache /\ h.ctl.busy = g.ctl.busy /\ h.ctl.mix = g.ctl.mix
    BY <1>7, <2>1, DeckPut
  <2> HIDE DEF h
  <2>3. h.ctl.deck[Other(d)] = G.ctl.deck[Other(d)]
    BY <1>6, <2>2, TwoDecks
  <2>4. \/ h.ctl.deck[d] = EmptyDeck /\ G.ctl.deck[d].queue = q
        \/ /\ G.ctl.deck[d].queue = q /\ h.ctl.deck[d].queue = q /\ h.ctl.deck[d].track = G.ctl.deck[d].track
           /\ h.ctl.deck[d].phase = "finished"
    BY <1>3, <1>5, <1>8, <1>10, <2>2
  <2>5. Titles(h)
    BY <1>1, <1>3, <1>6, <2>2, <2>3, <2>4, TitleEnds DEF EndedToo
  <2>6. DecksEase(G, h)
    <3> SUFFICES ASSUME NEW x \in Decks
                 PROVE  /\ h.ctl.deck[x].queue = G.ctl.deck[x].queue \/ h.ctl.deck[x].queue = NoEntry
                        /\ G.ctl.deck[x].phase = "loaded" => h.ctl.deck[x] = G.ctl.deck[x]
      BY DEF DecksEase
    <3>1. CASE x = d
      BY <1>5, <2>4, <3>1 DEF EmptyDeck
    <3>2. CASE x # d
      BY <1>6, <2>2, <3>2
    <3> QED  BY <3>1, <3>2
  <2>7. Eases(G, h)
    BY <1>6, <2>2, <2>6 DEF Eases, RowsEase, InLine, Mixing
  <2>8. Pipe(h)
    BY <1>1, <2>7, EasesKeeps
  <2> QED  BY <2>2, <2>5, <2>8 DEF h
<1> QED  BY <1>4, <1>9, <1>10, DoneAgrees

\* One cleanup more fits behind a preload once the handover is over.
LEMMA CleanupFits ==
  ASSUME NEW f, NEW h, NEW job, Base(f), Pipe(f), Mixing(f), ~Mixing(h), h.row = f.row, h.ctl.deck = f.ctl.deck,
         h.ctl.busy = f.ctl.busy, h.timer = f.timer, h.events = f.events, job \in JobRecords, job.kind = "cleanup",
         h.jobs = f.jobs \/ h.jobs = Append(f.jobs, job)
  PROVE  Pipe(h)
<1>1. f.jobs \in Seq(JobRecords) /\ Len(f.jobs) \in Nat
  BY Typed
<1>2. /\ Len(h.jobs) \in {Len(f.jobs), Len(f.jobs) + 1}
      /\ \A i \in 1..Len(f.jobs) : h.jobs[i] = f.jobs[i]
      /\ \A i \in 1..Len(h.jobs) : i \in 1..Len(f.jobs) \/ h.jobs[i].kind = "cleanup"
      /\ \A i \in 1..Len(f.jobs) : i \in 1..Len(h.jobs)
  <2>1. CASE h.jobs = f.jobs
    BY <1>1, <2>1
  <2>2. CASE h.jobs = Append(f.jobs, job)
    <3>1. /\ Len(h.jobs) = Len(f.jobs) + 1 /\ \A i \in 1..Len(f.jobs) : h.jobs[i] = f.jobs[i]
          /\ h.jobs[Len(f.jobs) + 1] = job
      BY <1>1, <2>2, Appended
    <3> QED  BY <1>1, <3>1
  <2> QED  BY <2>1, <2>2
<1>3. Idled(h) => Idled(f)
  BY <1>2 DEF Idled, Current
<1>4. Preparing(h)
  BY <1>2 DEF Pipe, Preparing
<1>5. Timed(h)
  BY <1>3 DEF Pipe, Timed
<1>6. Room(f) = 0 /\ Room(h) = 1
  BY DEF Room
<1>7. ASSUME NEW i \in 1..Len(h.jobs)
      PROVE  JobHolds(h, i)
  <2>1. CASE h.jobs[i].kind = "cleanup"
    BY <2>1 DEF JobHolds, SearchHolds, LoadHolds, PersistHolds
  <2>2. CASE i \in 1..Len(f.jobs)
    <3>1. JobHolds(f, i) /\ h.jobs[i] = f.jobs[i]
      BY <1>2, <2>2 DEF Pipe, Lined
    <3>2. Alone(f, i) => Alone(h, i)
      BY <1>2 DEF Alone
    <3>3. Len(f.jobs) <= i + Room(f) => Len(h.jobs) <= i + Room(h)
      BY <1>1, <1>2, <1>6
    <3>4. SearchHolds(h, h.jobs[i])
      BY <3>1 DEF JobHolds, SearchHolds, Saw
    <3>5. LoadHolds(h, h.jobs[i], i)
      BY <3>1, <3>2, <3>3 DEF JobHolds, LoadHolds, Aimed, FreeFor
    <3>6. PersistHolds(h, h.jobs[i], i)
      BY <3>1, <3>2 DEF JobHolds, PersistHolds, Aimed, FreeFor
    <3> QED  BY <3>4, <3>5, <3>6 DEF JobHolds
  <2> QED  BY <1>2, <2>1, <2>2
<1>8. ASSUME NEW i \in 1..Len(h.events)
      PROVE  EventHolds(h, i)
  <2>1. EventHolds(f, i)
    BY <1>8 DEF Pipe, Lined
  <2>2. Len(f.jobs) <= Room(f) => Len(h.jobs) <= Room(h)
    BY <1>1, <1>2, <1>6
  <2> QED  BY <2>1, <2>2 DEF EventHolds, Aimed, FreeFor
<1> QED  BY <1>4, <1>5, <1>7, <1>8 DEF Pipe, Lined

LEMMA CompleteAgrees ==
  ASSUME SessionInv, LineInv', CompleteTransition
  PROVE  SessionInv'
<1> DEFINE q == ctl.mix.queue
           d == ctl.mix.deck
           en == Ended(G, d, q, FALSE)
           g == [en EXCEPT !.ctl.mix = NoMix]
           em == OnDeck(g, d, EmptyDeck)
           ee == OnDeck(en, d, EmptyDeck)
           job == Job("cleanup", NoEntry, d)
           s == Submit(em, job)
           c == [en.ctl EXCEPT !.mix = NoMix]
<1>1. Base(G) /\ Titles(G) /\ Pipe(G) /\ G.ctl = ctl /\ G.row = row
  BY GIs DEF SessionInv, Agrees, Inv
<1>2. Mixing(G)
  BY DEF CompleteTransition
<1>3. /\ d \in Decks /\ q \in Entries /\ ctl.mix.track = q /\ Started(G, q, d)
      /\ G.ctl.deck[Other(d)].queue # q
  BY <1>1, <1>2 DEF Titles, Mixed
<1>4. \/ Done(s) /\ ctl.deck[d].track = q
      \/ Done(g) /\ ctl.deck[d].track # q
  BY <1>3, PreloadAssumption DEF CompleteTransition, OnDeck
<1>5. ctl.deck[d].track = ctl.deck[d].queue
  BY <1>1, <1>3 DEF Titles, Shows, DeckShows
<1> HIDE DEF q, d
<1>6. /\ en \in States /\ InLine(G, en) /\ en.row = G.row
      /\ en.commits = EndedToo(G.commits, q, d)
      /\ \A y \in Entries : y # q => en.ctl.cache[y] = G.ctl.cache[y]
      /\ en.ctl.deck = G.ctl.deck /\ en.ctl.busy = G.ctl.busy /\ en.ctl.mix = G.ctl.mix
  <2>1. q \in Entries /\ d \in Decks /\ FALSE \in BOOLEAN /\ Base(G)
    BY <1>1, <1>3
  <2>2. EndShows(G, en, q, d)
    BY ONLY <2>1, EndedIs
  <2> QED  BY <2>2 DEF EndShows
<1> HIDE DEF en
<1>7. Base(en) /\ en.ctl \in Ctls
  BY <1>1, <1>6, SamePipe, Typed DEF InLine
<1>8. c \in Ctls /\ c.deck = en.ctl.deck /\ c.cache = en.ctl.cache /\ c.busy = en.ctl.busy /\ c.mix = NoMix
  BY <1>7, NoMixIs DEF Ctls
<1>9. g = WithCtl(en, c)
  BY <1>6 DEF States, WithCtl
<1> HIDE DEF c, g
<1>10. /\ g \in States /\ InLine(G, g) /\ g.row = G.row /\ g.commits = en.commits /\ g.ctl.mix = NoMix
       /\ g.ctl.deck = G.ctl.deck /\ g.ctl.cache = en.ctl.cache /\ g.ctl.busy = G.ctl.busy
  BY <1>6, <1>8, <1>9, CtlIs DEF InLine
<1>11. ~Mixing(g)
  BY <1>10 DEF Mixing
<1>12. CASE Done(g) /\ ctl.deck[d].track # q
  <2>2. g.ctl.deck[Other(d)] = G.ctl.deck[Other(d)] /\ g.ctl.deck[d] = G.ctl.deck[d] /\ G.ctl.deck[d].queue # q
    BY <1>1, <1>5, <1>10, <1>12
  <2>3. Titles(g)
    BY <1>1, <1>3, <1>6, <1>10, <2>2, TitleEnds DEF EndedToo
  <2>4. Eases(G, g)
    BY <1>10, <1>11 DEF Eases, RowsEase, DecksEase, InLine
  <2>5. Pipe(g)
    BY <1>1, <2>4, EasesKeeps
  <2> QED  BY <1>10, <1>12, <2>3, <2>5, DoneAgrees
<1>13. CASE Done(s) /\ ctl.deck[d].track = q
  <2>1. Base(g)
    BY <1>1, <1>10, SamePipe DEF InLine
  <2>2. /\ em \in States /\ InLine(g, em) /\ em.row = g.row /\ em.commits = g.commits /\ em.ctl.deck[d] = EmptyDeck
        /\ \A x \in Decks : x # d => em.ctl.deck[x] = g.ctl.deck[x]
        /\ em.ctl.cache = g.ctl.cache /\ em.ctl.busy = g.ctl.busy /\ em.ctl.mix = g.ctl.mix
    BY <1>3, <2>1, EmptyDeckIs, DeckPut
  <2>3. /\ ee \in States /\ InLine(en, ee) /\ ee.row = en.row /\ ee.ctl.deck[d] = EmptyDeck
        /\ \A x \in Decks : x # d => ee.ctl.deck[x] = en.ctl.deck[x]
        /\ ee.ctl.busy = en.ctl.busy /\ ee.ctl.mix = en.ctl.mix
    BY <1>3, <1>7, EmptyDeckIs, DeckPut
  <2> HIDE DEF em, ee
  <2>4. em.ctl.deck = ee.ctl.deck
    <3>1. em.ctl.deck \in [Decks -> DeckStates] /\ ee.ctl.deck \in [Decks -> DeckStates]
      BY <2>2, <2>3 DEF States, Ctls
    <3>2. \A x \in Decks : em.ctl.deck[x] = ee.ctl.deck[x]
      BY <1>6, <1>10, <2>2, <2>3
    <3> QED  BY <3>1, <3>2
  <2>5. job \in JobRecords /\ job.kind = "cleanup"
    BY <1>3, JobIs DEF JobKinds, SomeEntry, SomeDeck
  <2> HIDE DEF job
  <2>6. /\ s.row = em.row /\ s.ctl = em.ctl /\ s.events = em.events
        /\ s.timer = em.timer /\ s.commits = em.commits /\ s \in States
        /\ s.jobs = em.jobs \/ s.jobs = Append(em.jobs, job)
    BY <2>2, <2>5, SubmitIs
  <2> HIDE DEF s
  <2>7. G.ctl.deck[d].queue = q /\ G.ctl.deck[d].phase # "loaded"
    <3>1. G.ctl.deck[d].queue = q /\ DeckShows(G, d)
      BY <1>1, <1>3, <1>5, <1>13 DEF Titles, Shows
    <3> QED  BY <1>3, <3>1 DEF DeckShows, Started, Past
  <2>8. s.ctl.deck[Other(d)] = G.ctl.deck[Other(d)] /\ s.ctl.deck[d] = EmptyDeck
    BY <1>3, <1>10, <2>2, <2>6, TwoDecks
  <2>9. Titles(s)
    BY <1>1, <1>3, <1>6, <1>10, <2>2, <2>6, <2>7, <2>8, TitleEnds DEF EndedToo
  <2>10. DecksEase(G, ee)
    <3> SUFFICES ASSUME NEW x \in Decks
                 PROVE  /\ ee.ctl.deck[x].queue = G.ctl.deck[x].queue \/ ee.ctl.deck[x].queue = NoEntry
                        /\ G.ctl.deck[x].phase = "loaded" => ee.ctl.deck[x] = G.ctl.deck[x]
      BY DEF DecksEase
    <3>1. CASE x = d
      BY <2>3, <2>7, <3>1 DEF EmptyDeck
    <3>2. CASE x # d
      BY <1>6, <2>3, <3>2
    <3> QED  BY <3>1, <3>2
  <2>11. Eases(G, ee)
    BY <1>6, <2>3, <2>10 DEF Eases, RowsEase, InLine, Mixing
  <2>12. Pipe(ee) /\ Base(ee) /\ Mixing(ee)
    <3>1. Pipe(ee)
      BY <1>1, <2>11, EasesKeeps
    <3>2. Base(ee)
      BY <1>7, <2>3, SamePipe DEF InLine
    <3> QED  BY <1>2, <1>6, <2>3, <3>1, <3>2 DEF Mixing
  <2>13. /\ ~Mixing(s) /\ s.row = ee.row /\ s.ctl.deck = ee.ctl.deck /\ s.ctl.busy = ee.ctl.busy
         /\ s.timer = ee.timer /\ s.events = ee.events
         /\ s.jobs = ee.jobs \/ s.jobs = Append(ee.jobs, job)
    BY <1>6, <1>10, <2>2, <2>3, <2>4, <2>6 DEF InLine, Mixing
  <2>14. Pipe(s)
    BY <2>5, <2>12, <2>13, CleanupFits
  <2> QED  BY <1>13, <2>6, <2>9, <2>14, DoneAgrees
<1> QED  BY <1>4, <1>12, <1>13

\* The handover under way, where no preload is.
LEMMA BegunAgrees ==
  ASSUME NEW g, NEW d \in Decks, Agrees(g), ~g.ctl.busy, g.ctl.deck[d].phase = "playing"
  PROVE  Agrees(Begun(g, d))
<1> DEFINE m == [deck |-> d, track |-> g.ctl.deck[d].track, queue |-> g.ctl.deck[d].queue]
           c == [g.ctl EXCEPT !.mix = m]
           h == Begun(g, d)
<1>1. Base(g) /\ g \in States /\ Titles(g) /\ Pipe(g) /\ g.ctl \in Ctls /\ g.ctl.deck[d] \in DeckStates
  BY Typed DEF Agrees, Inv
<1>2. /\ g.ctl.deck[d].queue \in Entries /\ g.ctl.deck[d].track = g.ctl.deck[d].queue
      /\ Started(g, g.ctl.deck[d].queue, d) /\ g.ctl.deck[Other(d)].queue # g.ctl.deck[d].queue
  BY <1>1 DEF Titles, Shows, DeckShows, DeckStates, SomeEntry
<1>3. m \in Mixes
  BY <1>1, <1>2 DEF Mixes, SomeEntry
<1>4. h = WithCtl(g, c)
  BY <1>1 DEF Begun, WithCtl, States
<1>5. /\ m.deck = d /\ m.track = g.ctl.deck[d].queue /\ m.queue = m.track
  BY <1>2
<1> HIDE DEF m
<1>6. c \in Ctls /\ c.cache = g.ctl.cache /\ c.deck = g.ctl.deck /\ c.busy = g.ctl.busy /\ c.mix = m
  BY <1>1, <1>3 DEF Ctls
<1> HIDE DEF c, h
<1>7. Alters(g, h, g.ctl.cache, g.ctl.busy, m) /\ InLine(g, h)
  BY <1>1, <1>4, <1>6, CtlAlters
<1>8. /\ h.row = g.row /\ h.commits = g.commits /\ h.ctl.deck = g.ctl.deck /\ h.ctl.cache = g.ctl.cache
      /\ h.ctl.busy = g.ctl.busy /\ h.ctl.mix = m /\ h.jobs = g.jobs /\ h.events = g.events /\ h.timer = g.timer
  BY <1>7 DEF Alters, InLine
<1>9. Titles(h)
  <2>1. Shows(h)
    <3>1. ASSUME NEW x \in Decks
          PROVE  DeckShows(h, x)
      BY <1>1, <1>8, Typed, DeckLeft DEF Titles, Shows
    <3> QED  BY <1>1, <1>8, <3>1 DEF Titles, Shows
  <2>2. Rowed(h) /\ Committed(h) /\ Cached(h)
    <3>1. Rowed(g) /\ Committed(g) /\ Cached(g)
      BY <1>1 DEF Titles
    <3>2. \A x \in Entries : \A p : OnItsDeck(g, x, p) => OnItsDeck(h, x, p)
      BY <1>8 DEF OnItsDeck
    <3>3. Rowed(h)
      BY <1>8, <3>1, <3>2 DEF Rowed
    <3>4. Committed(h)
      BY <1>8, <3>1 DEF Committed, Started
    <3> QED  BY <1>8, <3>1, <3>3, <3>4 DEF Cached
  <2>3. Mixed(h)
    BY <1>2, <1>5, <1>8 DEF Mixed, Started
  <2> QED  BY <2>1, <2>2, <2>3 DEF Titles
<1>10. Preparing(h) /\ Timed(h)
  BY <1>1, <1>8 DEF Pipe, Preparing, Timed
<1>11. ASSUME NEW i \in 1..Len(h.jobs)
       PROVE  JobHolds(h, i)
  <2>1. JobHolds(g, i)
    BY <1>1, <1>8 DEF Pipe, Lined
  <2>2. SearchHolds(h, h.jobs[i])
    BY <1>8, <2>1 DEF JobHolds, SearchHolds, Saw
  <2>3. LoadHolds(h, h.jobs[i], i)
    BY <1>8, <2>1 DEF JobHolds, LoadHolds, Aimed
  <2>4. PersistHolds(h, h.jobs[i], i)
    BY <1>8, <2>1 DEF JobHolds, PersistHolds, Aimed
  <2> QED  BY <2>2, <2>3, <2>4 DEF JobHolds
<1>12. ASSUME NEW i \in 1..Len(h.events)
       PROVE  EventHolds(h, i)
  <2>1. EventHolds(g, i)
    BY <1>1, <1>8 DEF Pipe, Lined
  <2> QED  BY <1>8, <2>1 DEF EventHolds, Aimed
<1>13. Inv(h)
  BY <1>4, BegunKeeps DEF Agrees, h
<1>14. Agrees(h)
  BY <1>9, <1>10, <1>11, <1>12, <1>13 DEF Agrees, Pipe, Lined
<1> QED  BY <1>14 DEF h

LEMMA CrossfadeAgrees ==
  ASSUME SessionInv, LineInv', NEW d \in Decks, Crossfade(d) \/ AbortTransition
  PROVE  SessionInv'
<1> DEFINE s == StartDeck(G, Other(d))
           a == [G EXCEPT !.ctl.mix = NoMix]
           c == [ctl EXCEPT !.mix = NoMix]
<1>1. Agrees(G) /\ Base(G) /\ Titles(G) /\ G \in States /\ G.ctl = ctl /\ ctl \in Ctls
  BY GIs, Typed DEF SessionInv, Agrees, Inv
<1>2. Other(d) \in Decks /\ Other(d) # d
  BY TwoDecks
<1>3. CASE AbortTransition
  <2>1. c \in Ctls /\ c.cache = ctl.cache /\ c.deck = ctl.deck /\ c.busy = ctl.busy /\ c.mix = NoMix
    BY <1>1, NoMixIs DEF Ctls
  <2>2. a = WithCtl(G, c)
    BY <1>1 DEF WithCtl, States
  <2>3. Done(a)
    BY <1>3 DEF AbortTransition
  <2> HIDE DEF c, a
  <2>4. Agrees(a)
    BY <1>1, <2>1, <2>2, FlagsAgree
  <2> QED  BY <2>3, <2>4, AgreesDone
<1>4. CASE Crossfade(d)
  <2>1. /\ ~ctl.busy
        /\ \/ Playing(G) = {d} /\ Other(d) \in ReadyDecks(G) /\ Done(Begun(s, d))
           \/ Playing(G) = Decks /\ Done(Begun(G, d))
    BY <1>4 DEF Crossfade
  <2>2. ctl.deck[d].phase = "playing"
    BY <1>1, <2>1 DEF Playing
  <2>3. CASE Other(d) \in ReadyDecks(G) /\ Done(Begun(s, d))
    <3>1. DeckIsReady(G, Other(d))
      BY <2>3 DEF ReadyDecks
    <3>2. Agrees(s)
      BY <1>1, <1>2, <2>1, <3>1, StartDeckAgrees
    <3>3. LET q == G.ctl.deck[Other(d)].queue
          IN  q \in Entries /\ G.ctl.deck[Other(d)].track = q /\ G.row[q].status = "ready"
      BY <1>1, <1>2, <3>1, ReadyDeckIs DEF Titles, Shows, DeckShows
    <3>4. /\ \A x \in Decks : x # Other(d) => s.ctl.deck[x] = G.ctl.deck[x]
          /\ s.ctl.busy = G.ctl.busy
      BY <1>1, <1>2, <3>3, StartDeckIs
    <3> HIDE DEF s
    <3>5. ~s.ctl.busy /\ s.ctl.deck[d].phase = "playing"
      BY <1>1, <1>2, <2>1, <2>2, <3>4
    <3> QED  BY <2>3, <3>2, <3>5, BegunAgrees, AgreesDone
  <2>4. CASE Done(Begun(G, d))
    BY <1>1, <2>1, <2>2, <2>4, BegunAgrees, AgreesDone
  <2> QED  BY <2>1, <2>3, <2>4
<1> QED  BY <1>3, <1>4

LEMMA CommitAgrees ==
  ASSUME SessionInv, LineInv', NEW c \in commits, Commit(c)
  PROVE  SessionInv'
<1> DEFINE h == G'
           e == c.e
<1>1. Base(G) /\ Titles(G) /\ Pipe(G) /\ row \in Rows /\ commits \subseteq EndRecords
  BY GIs, Typed DEF SessionInv, Agrees, Inv
<1>2. e \in Entries /\ c.d \in Decks /\ row[e] \in [status : Statuses, deck : SomeDeck]
  BY <1>1 DEF EndRecords, Rows, SomeDeck
<1>3. /\ ctl' = ctl /\ jobs' = jobs /\ events' = events /\ timer' = timer
      /\ commits' = commits \ {c}
      /\ row' = IF row[e] = [status |-> "playing", deck |-> c.d]
                THEN [row EXCEPT ![e] = [status |-> "played", deck |-> NoDeck]] ELSE row
  BY DEF Commit, pipe
<1>4. /\ G.row = row /\ G.ctl = ctl /\ G.jobs = jobs /\ G.events = events /\ G.timer = timer /\ G.commits = commits
      /\ h.row = row' /\ h.ctl = ctl /\ h.jobs = jobs /\ h.events = events /\ h.timer = timer
      /\ h.commits = commits \ {c} /\ h \in States
  BY <1>3, GIs, Typed DEF LineInv, Inv
<1>5. /\ Started(G, e, c.d)
      /\ \A d \in Decks : ctl.deck[d].queue = e => ctl.deck[d].phase = "finished"
  BY <1>1, <1>4 DEF Titles, Committed
<1>6. /\ \A x \in Entries : x # e => h.row[x] = row[x]
      /\ h.row[e] = row[e] \/ (h.row[e].status = "played" /\ row[e].status = "playing")
      /\ h.row[e].status # "playing"
  <2>1. CASE row[e].status = "playing"
    <3>1. row[e] = [status |-> "playing", deck |-> c.d]
      BY <1>2, <1>4, <1>5, <2>1 DEF Started
    <3> QED  BY <1>1, <1>2, <1>3, <1>4, <3>1 DEF Rows
  <2>2. CASE row[e].status # "playing"
    <3>1. row' = row
      BY <1>3, <2>2
    <3> QED  BY <1>4, <2>2, <3>1
  <2> QED  BY <2>1, <2>2
<1> HIDE DEF h
<1>7. \A x \in Entries, d \in Decks : Started(G, x, d) => Started(h, x, d)
  BY <1>4, <1>6 DEF Started, Past
<1>8. \A d \in Decks : h.ctl.deck[d] = G.ctl.deck[d] /\ G.ctl.deck[d] \in DeckStates
  BY <1>1, <1>4, Typed
<1>9. Shows(h)
  <2>1. ASSUME NEW d \in Decks
        PROVE  DeckShows(h, d)
    <3>1. DeckShows(G, d)
      BY <1>1 DEF Titles, Shows
    <3>2. CASE G.ctl.deck[d].queue # e
      <4>1. G.ctl.deck[d].queue # NoEntry => h.row[G.ctl.deck[d].queue] = G.row[G.ctl.deck[d].queue]
        BY <1>4, <1>6, <1>8, <3>2 DEF DeckStates, SomeEntry
      <4> QED  BY <1>8, <3>1, <4>1, DeckLeft
    <3>3. CASE G.ctl.deck[d].queue = e
      <4>1. G.ctl.deck[d].phase = "finished"
        BY <1>4, <1>5, <3>3
      <4>2. Started(h, e, d) /\ h.row[e].status \notin Gone
        BY <1>2, <1>4, <1>6, <1>7, <3>1, <3>3, <4>1 DEF DeckShows, Gone
      <4> QED  BY <1>8, <3>1, <3>3, <4>1, <4>2 DEF DeckShows
    <3> QED  BY <3>2, <3>3
  <2> QED  BY <1>1, <1>4, <2>1 DEF Titles, Shows
<1>10. Rowed(h)
  <2> SUFFICES ASSUME NEW x \in Entries
               PROVE  /\ h.row[x].status = "ready" => OnItsDeck(h, x, "loaded")
                      /\ h.row[x].status = "playing" =>
                           OnItsDeck(h, x, "playing") \/ (\E b \in h.commits : b.e = x /\ b.d = h.row[x].deck)
    BY DEF Rowed
  <2>1. h.row[x].status \in {"ready", "playing"} => h.row[x] = G.row[x]
    BY <1>4, <1>6
  <2>2. \A p : h.row[x] = G.row[x] /\ OnItsDeck(G, x, p) => OnItsDeck(h, x, p)
    BY <1>4 DEF OnItsDeck
  <2>3. h.row[x].status = "playing" => x # e
    BY <1>6
  <2>4. \A b \in G.commits : b.e = x /\ x # e => b \in h.commits
    BY <1>4
  <2> QED  BY <1>1, <2>1, <2>2, <2>3, <2>4 DEF Titles, Rowed
<1>11. Committed(h)
  <2>1. \A b \in h.commits : b \in G.commits /\ b.e \in Entries /\ b.d \in Decks
    BY <1>1, <1>4 DEF EndRecords
  <2> QED  BY <1>1, <1>4, <1>7, <2>1 DEF Titles, Committed
<1>12. Mixed(h)
  BY <1>1, <1>4, <1>7 DEF Titles, Mixed, Mixing
<1>13. Cached(h)
  BY <1>1, <1>4, <1>6 DEF Titles, Cached
<1>14. RowsEase(G, h)
  BY <1>4, <1>6 DEF RowsEase, Early, Gone
<1>15. Eases(G, h)
  BY <1>4, <1>14 DEF Eases, DecksEase, InLine, Mixing
<1>16. Pipe(h)
  BY <1>1, <1>15, EasesKeeps
<1>17. Inv(h)
  BY DEF h, LineInv
<1> QED  BY <1>9, <1>10, <1>11, <1>12, <1>13, <1>16, <1>17 DEF h, SessionInv, Agrees, Titles
----------------------------------------------------------------------------
(* The operator and the timers.                                            *)

RowGone(g, x, target) == [g EXCEPT !.row = Moved(@, x, target, NoDeck)]

LEMMA RowGoneIs ==
  ASSUME NEW g, NEW x \in Entries, NEW target \in {"skipped", "failed"}, Base(g)
  PROVE  /\ RowGone(g, x, target) \in States /\ InLine(g, RowGone(g, x, target))
         /\ RowGone(g, x, target).ctl = g.ctl /\ RowGone(g, x, target).commits = g.commits
         /\ RowGone(g, x, target).row = Moved(g.row, x, target, NoDeck)
         /\ RowGone(g, x, target).row[x].status = target
         /\ \A y \in Entries : y # x => RowGone(g, x, target).row[y] = g.row[y]
<1> DEFINE r == Moved(g.row, x, target, NoDeck)
<1>1. g \in States /\ g.row \in Rows
  BY Typed
<1>2. r \in Rows /\ r[x].status = target /\ \A y \in Entries : y # x => r[y] = g.row[y]
  BY <1>1, MovedIs DEF Statuses, SomeDeck
<1>3. RowGone(g, x, target) = [g EXCEPT !.row = r]
  BY <1>1 DEF RowGone, States
<1>4. r = Moved(g.row, x, target, NoDeck)
  OBVIOUS
<1> HIDE DEF r
<1> QED  BY <1>1, <1>2, <1>3, <1>4 DEF States, InLine

LEMMA RefreshGoneIs ==
  ASSUME NEW g, NEW x \in Entries, NEW target \in {"skipped", "failed"}, Base(g)
  PROVE  /\ Refresh(RowGone(g, x, target)) \in States /\ InLine(g, Refresh(RowGone(g, x, target)))
         /\ Refresh(RowGone(g, x, target)).ctl.deck = g.ctl.deck
         /\ Refresh(RowGone(g, x, target)).ctl.busy = g.ctl.busy
         /\ Refresh(RowGone(g, x, target)).ctl.mix = g.ctl.mix
         /\ Refresh(RowGone(g, x, target)).ctl.cache = Refresh(RowGone(g, x, target)).row
         /\ Refresh(RowGone(g, x, target)).commits = g.commits
         /\ Refresh(RowGone(g, x, target)).row = Moved(g.row, x, target, NoDeck)
         /\ Refresh(RowGone(g, x, target)).row[x].status = target
         /\ \A y \in Entries : y # x => Refresh(RowGone(g, x, target)).row[y] = g.row[y]
<1> DEFINE f == RowGone(g, x, target)
<1>1. /\ f \in States /\ InLine(g, f) /\ f.ctl = g.ctl /\ f.commits = g.commits /\ f.row[x].status = target
      /\ f.row = Moved(g.row, x, target, NoDeck) /\ \A y \in Entries : y # x => f.row[y] = g.row[y]
  BY RowGoneIs
<1> HIDE DEF f
<1>2. Base(f)
  BY <1>1, SamePipe DEF InLine
<1>3. Alters(f, Refresh(f), f.row, f.ctl.busy, f.ctl.mix) /\ InLine(f, Refresh(f))
  BY <1>2, RefreshIs
<1>4. /\ Refresh(f) \in States /\ InLine(g, Refresh(f)) /\ Refresh(f).ctl.deck = g.ctl.deck
      /\ Refresh(f).ctl.busy = g.ctl.busy /\ Refresh(f).ctl.mix = g.ctl.mix
      /\ Refresh(f).ctl.cache = Refresh(f).row /\ Refresh(f).commits = g.commits
      /\ Refresh(f).row = Moved(g.row, x, target, NoDeck) /\ Refresh(f).row[x].status = target
      /\ \A y \in Entries : y # x => Refresh(f).row[y] = g.row[y]
  BY <1>1, <1>3 DEF Alters, InLine
<1> QED  BY <1>4 DEF f

LEMMA SkipAgrees ==
  ASSUME Session, SessionInv, LineInv', NEW e \in Entries, Skip(e), "skip" \in Operators
  PROVE  SessionInv'
<1> DEFINE d == row[e].deck
<1>1. Agrees(G) /\ Inv(G) /\ Base(G) /\ Titles(G) /\ Pipe(G) /\ G.row = row /\ G.ctl = ctl
  BY GIs DEF SessionInv, Agrees, Inv
<1>2. row[e] \in [status : Statuses, deck : SomeDeck] /\ \A x \in Decks : ctl.deck[x] \in DeckStates
  BY <1>1, Typed DEF Rows, SomeDeck
<1>3. row[e].status \in {"waiting", "preparing", "ready", "playing"}
  BY <1>2 DEF Skip, CanMove, AllowedTransitions, Statuses
<1>4. PICK g \in {Emptied(G, d), G} :
        /\ Done(AutoLoad(Refresh(RowGone(g, e, "skipped")), FALSE))
        /\ g = IF d # NoDeck /\ ctl.deck[d].queue = e THEN Emptied(G, d) ELSE G
  BY DEF Skip, RowGone
<1>5. \A x \in Decks : ctl.deck[x].queue = e => d = x
  <2> SUFFICES ASSUME NEW x \in Decks, ctl.deck[x].queue = e
               PROVE  d = x
    OBVIOUS
  <2>1. DeckShows(G, x) /\ ctl.deck[x].phase \in {"empty", "loaded", "playing", "finished"} /\ e # NoEntry
    BY <1>1, <1>2, PreloadAssumption DEF Titles, Shows, DeckStates
  <2> QED  BY <1>1, <1>3, <2>1 DEF DeckShows, Started, Past
<1>6. d \in SomeDeck
  BY <1>2
<1> HIDE DEF d
<1>7. /\ g \in States /\ InLine(G, g) /\ g.row = G.row /\ g.commits = G.commits
      /\ g.ctl.cache = G.ctl.cache /\ g.ctl.busy = G.ctl.busy /\ g.ctl.mix = G.ctl.mix
      /\ \A x \in Decks : \/ g.ctl.deck[x] = G.ctl.deck[x] /\ G.ctl.deck[x].queue # e
                          \/ g.ctl.deck[x] = EmptyDeck /\ G.ctl.deck[x].queue = e
  <2>1. CASE d # NoDeck /\ ctl.deck[d].queue = e
    <3>1. g = OnDeck(G, d, EmptyDeck) /\ d \in Decks
      BY <1>4, <1>6, <2>1 DEF Emptied, OnDeck, SomeDeck
    <3>2. /\ g \in States /\ InLine(G, g) /\ g.row = G.row
          /\ g.commits = G.commits /\ g.ctl.deck[d] = EmptyDeck
          /\ \A x \in Decks : x # d => g.ctl.deck[x] = G.ctl.deck[x]
          /\ g.ctl.cache = G.ctl.cache /\ g.ctl.busy = G.ctl.busy
          /\ g.ctl.mix = G.ctl.mix
      BY <1>1, <3>1, EmptyDeckIs, DeckPut
    <3> QED  BY <1>1, <1>5, <2>1, <3>2
  <2>2. CASE ~(d # NoDeck /\ ctl.deck[d].queue = e)
    <3>1. g = G /\ G \in States
      BY <1>1, <1>4, <2>2, Typed
    <3>2. \A x \in Decks : ctl.deck[x].queue # e
      BY <1>5, <2>2, PreloadAssumption
    <3> QED  BY <1>1, <3>1, <3>2 DEF InLine
  <2> QED  BY <2>1, <2>2
<1>8. Inv(g)
  BY <1>1, <1>4, EmptiedKeeps
<1> DEFINE f == Refresh(RowGone(g, e, "skipped"))
<1>9. /\ f \in States /\ InLine(g, f) /\ f.ctl.deck = g.ctl.deck /\ f.ctl.busy = g.ctl.busy
      /\ f.ctl.mix = g.ctl.mix /\ f.ctl.cache = f.row /\ f.commits = g.commits /\ f.row[e].status = "skipped"
      /\ \A y \in Entries : y # e => f.row[y] = g.row[y]
  BY <1>8, RefreshGoneIs DEF Inv
<1>10. Inv(f)
  <2> DEFINE x == [status |-> "skipped", deck |-> NoDeck]
  <2>1. x \in Assignments /\ x.status = "skipped"
    BY DEF Assignments, Statuses, SomeDeck
  <2>2. f = Refresh([g EXCEPT !.row = [g.row EXCEPT ![e] = x]])
    BY DEF RowGone, Moved, DeckAfter
  <2>3. g.row[e].status # "removed"
    BY <1>1, <1>3, <1>7
  <2> HIDE DEF x, f
  <2> QED  BY <1>8, <2>1, <2>2, <2>3, RowMoves
<1> HIDE DEF f
<1>11. Titles(f)
  <2>1. /\ f.row[e].status \in Gone /\ \A y \in Entries : y # e => f.row[y] = G.row[y]
        /\ \A x \in Decks : \/ f.ctl.deck[x] = G.ctl.deck[x] /\ G.ctl.deck[x].queue # e
                            \/ f.ctl.deck[x] = EmptyDeck /\ G.ctl.deck[x].queue = e
        /\ f.commits = G.commits /\ f.ctl.mix = G.ctl.mix /\ f.ctl.cache = f.row
    BY <1>7, <1>9 DEF Gone
  <2> QED  BY <1>1, <2>1, RowLeaves
<1>12. Eases(G, f)
  <2>1. RowsEase(G, f)
    BY <1>1, <1>3, <1>7, <1>9 DEF RowsEase, Early, Gone
  <2>2. DecksEase(G, f)
    BY <1>7, <1>9 DEF DecksEase, EmptyDeck
  <2> QED  BY <1>7, <1>9, <2>1, <2>2 DEF Eases, InLine, Mixing
<1>13. Pipe(f)
  BY <1>1, <1>12, EasesKeeps
<1>14. Agrees(AutoLoad(f, FALSE))
  BY <1>10, <1>11, <1>13, AutoLoadAgrees DEF Agrees
<1> QED  BY <1>4, <1>14, AgreesDone DEF f

LEMMA ResumeAgrees ==
  ASSUME SessionInv, LineInv', Resume
  PROVE  SessionInv'
<1> DEFINE c == [G.ctl EXCEPT !.paused = FALSE, !.running = TRUE]
           h == [G EXCEPT !.ctl.paused = FALSE, !.ctl.running = TRUE]
<1>1. Agrees(G) /\ G \in States /\ G.ctl \in Ctls
  BY Typed DEF SessionInv, Agrees, Inv
<1>2. Done(StartNext(AutoLoad(h, FALSE)))
  BY DEF Resume
<1>3. h = WithCtl(G, c)
  BY <1>1 DEF States, Ctls, WithCtl
<1>4. c \in Ctls /\ c.cache = G.ctl.cache /\ c.deck = G.ctl.deck /\ c.busy = G.ctl.busy /\ c.mix = G.ctl.mix
  BY <1>1 DEF Ctls
<1> HIDE DEF c, h
<1>5. Agrees(StartNext(AutoLoad(h, FALSE)))
  BY <1>1, <1>3, <1>4, FlagsAgree, AutoLoadAgrees, StartNextAgrees
<1> QED  BY <1>2, <1>5, AgreesDone

LEMMA TickAgrees ==
  ASSUME SessionInv, LineInv', Tick
  PROVE  SessionInv'
<1> DEFINE c == [G.ctl EXCEPT !.streak = 0]
           h == [G EXCEPT !.ctl.streak = 0]
<1>1. Agrees(G) /\ G \in States /\ G.ctl \in Ctls
  BY Typed DEF SessionInv, Agrees, Inv
<1>2. PICK g \in {G, h} : Done(StartNext(AutoLoad(g, FALSE)))
  BY DEF Tick
<1>3. h = WithCtl(G, c)
  BY <1>1 DEF States, WithCtl
<1>4. c \in Ctls /\ c.cache = G.ctl.cache /\ c.deck = G.ctl.deck /\ c.busy = G.ctl.busy /\ c.mix = G.ctl.mix
  <2>1. 0 \in 0..MaximumFailures
    BY DEF MaximumFailures
  <2> QED  BY <1>1, <2>1 DEF Ctls
<1> HIDE DEF c, h
<1>5. Agrees(g)
  BY <1>1, <1>2, <1>3, <1>4, FlagsAgree
<1>6. Agrees(StartNext(AutoLoad(g, FALSE)))
  BY <1>5, AutoLoadAgrees, StartNextAgrees
<1> QED  BY <1>2, <1>6, AgreesDone

\* A preload whose entry is skipped or has failed has nothing that counts on it.
LEMMA AimedRests ==
  ASSUME NEW g, Base(g), Pipe(g), g.timer # NoTimer, g.row[g.timer.e].status \in Gone
  PROVE  Resting(g)
<1>1. \A x \in Entries : g.row[x].status # "preparing"
  BY DEF Pipe, Preparing, Gone
<1>2. ASSUME NEW i \in 1..Len(g.jobs)
      PROVE  JobHolds(g, i) /\ g.jobs[i].live \in BOOLEAN
  BY <1>2, JobOf DEF Pipe, Lined, JobRecords
<1> QED  BY <1>1, <1>2 DEF Resting, JobHolds, SearchHolds, LoadHolds, PersistHolds, Aimed, Gone, Early

LEMMA TimeoutAgrees ==
  ASSUME Session, SessionInv, LineInv', TimeoutFires
  PROVE  SessionInv'
<1> DEFINE x == timer.e
           o == Outdate(G)
           f == RowGone(G, x, "failed")
           h == Refresh(RowGone(o, x, "failed"))
<1>1. /\ Inv(G) /\ Base(G) /\ Titles(G) /\ Pipe(G) /\ G.row = row /\ G.ctl = ctl /\ G.timer = timer /\ G.jobs = jobs
      /\ G.events = events
  BY GIs DEF SessionInv, Agrees, Inv
<1>2. /\ timer # NoTimer /\ ctl.busy
      /\ ~Outstanding \/ ctl.deck[timer.d].queue # x
  BY DEF TimeoutFires, TimerIsDue, Session
<1>3. x \in Entries /\ timer.d \in Decks
  BY <1>1, <1>2, TimerOf
<1>4. ctl.deck[timer.d].queue # x
  <2>1. ~Idled(G) => Outstanding
    BY <1>1, Typed DEF Idled, Current, Outstanding
  <2> QED  BY <1>1, <1>2, <2>1 DEF Pipe, Timed
<1>5. row[x].status \in Early \cup {"preparing"}
  <2>1. row[x].status = "ready" => row[x].deck = timer.d /\ ctl.deck[timer.d].queue = x
    BY <1>1, <1>2, <1>3 DEF Pipe, Timed, Titles, Rowed, OnItsDeck
  <2> QED  BY <1>1, <1>2, <1>4, <2>1 DEF Pipe, Timed
<1>6. \A d \in Decks : ctl.deck[d].queue # x
  <2> SUFFICES ASSUME NEW d \in Decks, ctl.deck[d].queue = x
               PROVE  FALSE
    OBVIOUS
  <2>1. DeckShows(G, d) /\ ctl.deck[d].phase \in {"empty", "loaded", "playing", "finished"} /\ x # NoEntry
    BY <1>1, <1>3, Typed, PreloadAssumption DEF Titles, Shows, DeckStates
  <2>2. row[x].status = "preparing" => row[x].deck = timer.d
    BY <1>1, <1>3 DEF Pipe, Preparing
  <2> QED  BY <1>1, <1>4, <1>5, <2>1, <2>2 DEF DeckShows, Started, Past, Early, Gone
<1>7. \/ CanMove(row, x, "failed", NoDeck) /\ Done(ContinueAfterFailure(h))
      \/ ~CanMove(row, x, "failed", NoDeck) /\ Done(o)
  BY DEF TimeoutFires, RowGone
<1>8. ~CanMove(row, x, "failed", NoDeck) => row[x].status \in Gone
  BY <1>5 DEF CanMove, AllowedTransitions, Active, Early, Gone
<1>9. CASE ~CanMove(row, x, "failed", NoDeck) /\ Done(o)
  <2>1. Resting(G)
    BY <1>1, <1>2, <1>8, <1>9, AimedRests
  <2> QED  BY <1>1, <1>9, <2>1, OutdateAgrees, AgreesDone
<1>10. CASE Done(ContinueAfterFailure(h))
  <2> HIDE DEF x
  <2>1. /\ f \in States /\ InLine(G, f) /\ f.ctl = G.ctl /\ f.commits = G.commits
        /\ f.row = Moved(G.row, x, "failed", NoDeck) /\ f.row[x].status = "failed"
        /\ \A y \in Entries : y # x => f.row[y] = G.row[y]
    BY <1>1, <1>3, RowGoneIs
  <2>2. Base(o) /\ Idled(o) /\ Alters(G, o, G.ctl.cache, FALSE, G.ctl.mix) /\ OutOfLine(G, o)
    BY <1>1, OutdateAlters, OutdateIs
  <2> HIDE DEF f, o
  <2>3. /\ h \in States /\ InLine(o, h) /\ h.ctl.deck = o.ctl.deck
        /\ h.ctl.busy = o.ctl.busy /\ h.ctl.mix = o.ctl.mix /\ h.ctl.cache = h.row
        /\ h.commits = o.commits /\ h.row = Moved(o.row, x, "failed", NoDeck) /\ h.row[x].status = "failed"
        /\ \A y \in Entries : y # x => h.row[y] = o.row[y]
    BY <1>3, <2>2, RefreshGoneIs
  <2>4. Inv(h)
    <3> DEFINE r == Moved(o.row, x, "failed", NoDeck)
    <3>1. r \in Rows
      BY <1>3, <2>2, Typed, MovedIs DEF Statuses, SomeDeck
    <3>2. RowGone(o, x, "failed") = [o EXCEPT !.row = r]
      BY DEF RowGone
    <3> HIDE DEF r, h
    <3>3. Inv(RowGone(o, x, "failed"))
      BY <2>2, <3>1, <3>2, MovesIdled
    <3> QED  BY <3>3, RefreshKeeps DEF h
  <2> HIDE DEF h
  <2>5. h.row = f.row /\ h.ctl.deck = G.ctl.deck /\ h.commits = G.commits /\ h.ctl.mix = G.ctl.mix /\ ~h.ctl.busy
    BY <2>1, <2>2, <2>3 DEF Alters
  <2>6. Titles(h)
    <3>1. /\ h.row[x].status \in Gone /\ \A y \in Entries : y # x => h.row[y] = G.row[y]
          /\ \A d \in Decks : h.ctl.deck[d] = G.ctl.deck[d] /\ G.ctl.deck[d].queue # x
      BY <1>1, <1>6, <2>1, <2>3, <2>5 DEF Gone, x
    <3> QED  BY <1>1, <1>3, <2>3, <2>5, <3>1, RowLeaves DEF x
  <2>7. Eases(G, f)
    <3>1. RowsEase(G, f)
      BY <1>1, <1>5, <2>1 DEF RowsEase, Early, Gone, x
    <3> QED  BY <2>1, <3>1 DEF Eases, DecksEase, Mixing
  <2>8. Base(f) /\ Pipe(f) /\ f.timer = timer
    BY <1>1, <2>1, <2>7, EasesKeeps, SamePipe DEF InLine
  <2>9. Resting(f)
    BY <1>2, <2>1, <2>8, AimedRests DEF Gone, x
  <2>10. OutOfLine(f, h)
    BY <2>1, <2>2, <2>3 DEF OutOfLine, InLine
  <2>11. Pipe(h)
    BY <2>5, <2>9, <2>10, RestingOutdated
  <2>12. Agrees(ContinueAfterFailure(h))
    BY <2>4, <2>5, <2>6, <2>11, ContinueAgrees DEF Agrees
  <2> QED  BY <1>10, <2>12, AgreesDone DEF h
<1> QED  BY <1>7, <1>9, <1>10
----------------------------------------------------------------------------
(* Callbacks.                                                              *)

LEMMA ProcessedIs ==
  ASSUME SessionInv, events # << >>
  PROVE  /\ Processed \in States /\ Processed.row = row /\ Processed.ctl = ctl /\ Processed.jobs = jobs
         /\ Processed.timer = timer /\ Processed.commits = commits /\ Processed.events = Tail(events)
         /\ Titles(Processed)
         /\ Len(events) \in Nat \ {0} /\ Len(Tail(events)) = Len(events) - 1
         /\ \A i \in 1..Len(events) - 1 : Tail(events)[i] = events[i + 1] /\ i + 1 \in 1..Len(events)
<1>1. /\ Inv(G) /\ Base(G) /\ Titles(G) /\ G.row = row /\ G.ctl = ctl /\ G.jobs = jobs /\ G.timer = timer
      /\ G.commits = commits /\ G.events = events /\ G \in States /\ events \in Seq(EventRecords)
  BY GIs, Typed DEF SessionInv, Agrees, Inv
<1>2. /\ Tail(events) \in Seq(EventRecords) /\ Len(Tail(events)) = Len(events) - 1 /\ Len(events) \in Nat \ {0}
      /\ \A i \in 1..Len(events) - 1 : Tail(events)[i] = events[i + 1]
  BY <1>1, Rest
<1>3. /\ Processed.row = G.row /\ Processed.ctl = G.ctl /\ Processed.jobs = G.jobs
      /\ Processed.events = Tail(events) /\ Processed.timer = G.timer /\ Processed.commits = G.commits
      /\ Processed \in States
  BY <1>1, <1>2 DEF Processed, States
<1>4. Alters(G, Processed, G.ctl.cache, G.ctl.busy, G.ctl.mix)
  BY <1>3 DEF Alters
<1>5. Titles(Processed)
  BY <1>1, <1>4, TitlesSame
<1>6. \A i \in 1..Len(events) - 1 : i + 1 \in 1..Len(events)
  BY <1>2
<1> QED  BY <1>1, <1>2, <1>3, <1>5, <1>6

\* A callback of the current generation is all there is of it.
LEMMA LiveArrived ==
  ASSUME SessionInv, NEW kind, Arrived(kind), events[1].live
  PROVE  /\ Inv(Processed) /\ Idled(Processed) /\ Len(events) = 1 /\ EventHolds(G, 1)
         /\ \A i \in 1..Len(jobs) : jobs[i].kind = "cleanup"
         /\ \A i \in 1..Len(jobs) : JobHolds(Processed, i)
         /\ events[1] \in EventRecords /\ EventAimed(events[1]) /\ events[1].kind = kind
<1>1. /\ Inv(G) /\ Pipe(G) /\ G.jobs = jobs /\ G.events = events
  BY GIs DEF SessionInv, Agrees
<1>2. /\ Processed.jobs = jobs /\ Inv(Processed) /\ Idled(Processed) /\ Len(events) \in Nat \ {0}
      /\ events[1] \in EventRecords /\ EventAimed(events[1]) /\ events[1].kind = kind
  BY <1>1, ArrivedIs DEF LineInv
<1>3. 1 \in 1..Len(events)
  BY <1>2
<1>4. EventHolds(G, 1)
  BY <1>1, <1>3 DEF Pipe, Lined
<1>5. Len(events) = 1
  BY <1>1, <1>4 DEF EventHolds
<1>6. \A i \in 1..Len(jobs) : jobs[i].kind = "cleanup"
  BY <1>1, <1>3 DEF Inv, OneLine
<1>7. \A i \in 1..Len(jobs) : JobHolds(Processed, i)
  BY <1>2, <1>6 DEF JobHolds, SearchHolds, LoadHolds, PersistHolds
<1> QED  BY <1>2, <1>4, <1>5, <1>6, <1>7

\* A callback of an older generation is dropped, whatever becomes of the flag.
LEMMA StaleArrived ==
  ASSUME SessionInv, events # << >>, ~events[1].live, NEW h, h.row = row, h.ctl.deck = ctl.deck, h.jobs = jobs,
         h.timer = timer, h.events = Tail(events), h.ctl.busy = ctl.busy \/ ~h.ctl.busy
  PROVE  Pipe(h)
<1>1. /\ Inv(G) /\ Base(G) /\ Pipe(G) /\ G.row = row /\ G.ctl = ctl /\ G.jobs = jobs /\ G.timer = timer
      /\ G.events = events
  BY GIs DEF SessionInv, Agrees, Inv
<1>2. /\ Len(events) \in Nat \ {0} /\ Len(h.events) = Len(events) - 1 /\ 1 \in 1..Len(events)
      /\ \A i \in 1..Len(h.events) : h.events[i] = events[i + 1] /\ i + 1 \in 1..Len(events) /\ i + 1 # 1
  BY ProcessedIs
<1>3. \A x \in Entries : row[x].status # "preparing"
  BY <1>1, <1>2 DEF Pipe, Preparing
<1>4. Preparing(h)
  BY <1>3 DEF Preparing
<1>5. ASSUME Idled(h)
      PROVE  Idled(G)
  <2>1. \A i \in 1..Len(jobs) : ~Current(jobs[i])
    BY <1>5 DEF Idled
  <2>2. ASSUME NEW i \in 1..Len(events)
        PROVE  ~events[i].live
    <3>1. CASE i = 1
      BY <3>1
    <3>2. CASE i # 1
      <4>1. i - 1 \in 1..Len(h.events) /\ i - 1 + 1 = i
        BY <1>2, <3>2
      <4>2. h.events[i - 1] = events[i]
        BY <1>2, <4>1
      <4> QED  BY <1>5, <4>1, <4>2 DEF Idled
    <3> QED  BY <3>1, <3>2
  <2> QED  BY <1>1, <2>1, <2>2 DEF Idled
<1>6. Timed(h)
  BY <1>1, <1>5 DEF Pipe, Timed
<1>7. ASSUME NEW i \in 1..Len(h.jobs)
      PROVE  JobHolds(h, i)
  <2>1. JobHolds(G, i)
    BY <1>1, <1>7 DEF Pipe, Lined
  <2>2. ~Alone(G, i)
    BY <1>1 DEF Alone
  <2>3. SearchHolds(h, h.jobs[i])
    BY <1>1, <2>1 DEF JobHolds, SearchHolds, Saw
  <2>4. LoadHolds(h, h.jobs[i], i)
    BY <1>1, <2>1, <2>2 DEF JobHolds, LoadHolds
  <2>5. PersistHolds(h, h.jobs[i], i)
    BY <1>1, <2>1, <2>2 DEF JobHolds, PersistHolds
  <2> QED  BY <2>3, <2>4, <2>5 DEF JobHolds
<1>8. ASSUME NEW i \in 1..Len(h.events), h.events[i].live
      PROVE  EventHolds(h, i)
  <2>1. EventHolds(G, i + 1) /\ h.events[i] = events[i + 1] /\ i + 1 # 1
    BY <1>1, <1>2, <1>8 DEF Pipe, Lined
  <2>2. h.events[i].kind = "found"
    BY <1>1, <1>8, <2>1 DEF EventHolds
  <2>3. i + 1 = Len(events) => i = Len(h.events)
    <3>1. Len(events) \in Nat \ {0} /\ Len(h.events) = Len(events) - 1
      BY <1>2
    <3>2. i \in Nat
      BY <1>8, <3>1
    <3> QED  BY ONLY <3>1, <3>2
  <2> QED  BY <1>1, <1>8, <2>1, <2>2, <2>3 DEF EventHolds
<1>9. \A i \in 1..Len(h.events) : EventHolds(h, i)
  BY <1>8 DEF EventHolds
<1> QED  BY <1>4, <1>6, <1>7, <1>9 DEF Pipe, Lined

LEMMA IgnoredAgrees ==
  ASSUME SessionInv, LineInv', events # << >>, ~events[1].live, Ignored
  PROVE  SessionInv'
<1>1. /\ Processed \in States /\ Processed.row = row /\ Processed.ctl = ctl /\ Processed.jobs = jobs
      /\ Processed.timer = timer /\ Processed.commits = commits /\ Processed.events = Tail(events)
      /\ Titles(Processed)
  BY ProcessedIs
<1>2. Pipe(Processed)
  BY <1>1, StaleArrived
<1>3. Done(Processed)
  BY <1>1 DEF Ignored, Done
<1> QED  BY <1>1, <1>2, <1>3, DoneAgrees

LEMMA FollowupAgrees ==
  ASSUME SessionInv, LineInv', OnFollowup \/ OnPersistFailed
  PROVE  SessionInv'
<1> DEFINE P == Processed
           i == Idle(P)
<1>1. /\ Inv(G) /\ Pipe(G) /\ G.row = row /\ G.events = events /\ events # << >>
      /\ events[1].kind \in {"followup", "persistFailed"}
  BY GIs DEF SessionInv, Agrees, OnFollowup, OnPersistFailed, Arrived
<1>2. /\ P \in States /\ P.row = row /\ P.ctl = ctl /\ P.jobs = jobs /\ P.timer = timer /\ P.commits = commits
      /\ P.events = Tail(events) /\ Titles(P) /\ Len(events) \in Nat \ {0}
  BY <1>1, ProcessedIs
<1>3. \A x \in Entries : row[x].status # "preparing"
  <2>1. 1 \in 1..Len(events)
    BY <1>2
  <2> QED  BY <1>1, <2>1 DEF Pipe, Preparing
<1>4. CASE events[1].live
  <2>1. Inv(P) /\ Idled(P) /\ \A j \in 1..Len(jobs) : JobHolds(P, j)
    BY <1>1, <1>4, LiveArrived DEF OnFollowup, OnPersistFailed
  <2>2. Done(AutoLoad(StartNext(Refresh(i)), FALSE)) \/ Done(i)
    BY <1>4 DEF OnFollowup, OnPersistFailed
  <2> HIDE DEF P
  <2>3. Agrees(i)
    BY <1>2, <1>3, <2>1, IdleAgrees
  <2> HIDE DEF i
  <2>4. Agrees(AutoLoad(StartNext(Refresh(i)), FALSE))
    BY <2>3, RefreshAgrees, StartNextAgrees, AutoLoadAgrees
  <2> QED  BY <2>2, <2>3, <2>4, AgreesDone
<1>5. CASE ~events[1].live
  <2>1. CASE Ignored
    BY <1>1, <1>5, <2>1, IgnoredAgrees
  <2>2. CASE Done(i)
    <3>1. Inv(P) /\ Base(P)
      <4>1. LineInv /\ \E kind : Arrived(kind)
        BY <1>1 DEF Arrived, LineInv
      <4> QED  BY <4>1, ArrivedIs DEF Inv
    <3> HIDE DEF P
    <3>2. Alters(P, i, P.ctl.cache, FALSE, P.ctl.mix) /\ InLine(P, i)
      BY <3>1, IdleIs
    <3>3. Titles(i)
      BY <1>2, <3>2, TitlesSame
    <3>4. /\ i \in States /\ i.row = row /\ i.ctl.deck = ctl.deck /\ i.jobs = jobs /\ i.timer = timer
          /\ i.events = Tail(events) /\ ~i.ctl.busy
      BY <1>2, <3>2 DEF Alters, InLine
    <3> HIDE DEF i
    <3>5. Pipe(i)
      BY <1>1, <1>5, <3>4, StaleArrived
    <3> QED  BY <2>2, <3>3, <3>4, <3>5, DoneAgrees
  <2>3. Ignored \/ Done(i)
    BY <1>5 DEF OnFollowup, OnPersistFailed
  <2> QED  BY <2>1, <2>2, <2>3
<1> QED  BY <1>4, <1>5

\* The preload of a title that waits, on a deck that is free.
LEMMA StartPreloadAgrees ==
  ASSUME NEW g, NEW e \in Entries, NEW d \in Decks, Agrees(g), \A x \in Entries : g.row[x].status # "preparing",
         \A i \in 1..Len(g.jobs) : g.jobs[i].kind = "cleanup", g.events = << >>, g.commits = {},
         g.ctl.deck[d].queue = NoEntry, g.row[e].status \in Early
  PROVE  Agrees(StartPreload(g, e, d))
<1> DEFINE o == Outdate(g)
           job == Job("load", e, d)
           s == Submit(o, job)
           c == [s.ctl EXCEPT !.busy = TRUE]
           tt == [e |-> e, d |-> d]
           f == WithCtl(s, c)
           h == [f EXCEPT !.timer = tt]
<1>1. Inv(g) /\ Base(g) /\ Titles(g) /\ g.jobs \in Seq(JobRecords) /\ Len(g.jobs) \in Nat
  BY Typed DEF Agrees, Inv
<1>2. Base(o) /\ Alters(g, o, g.ctl.cache, FALSE, g.ctl.mix) /\ OutOfLine(g, o)
  BY <1>1, OutdateAlters, OutdateIs
<1>3. job \in JobRecords /\ job.kind = "load" /\ job.e = e /\ job.d = d /\ job.at = "start" /\ job.live
  <2>1. job \in JobRecords /\ job.kind = "load" /\ job.e = e /\ job.d = d /\ job.at = "start"
    BY JobIs DEF JobKinds, SomeEntry, SomeDeck
  <2>2. job.live
    BY DEF Job
  <2> QED  BY <2>1, <2>2
<1>4. StartPreload(g, e, d) = [s EXCEPT !.ctl.busy = TRUE, !.timer = tt]
  BY DEF StartPreload
<1> HIDE DEF o, job
<1>5. /\ s.row = o.row /\ s.ctl = o.ctl /\ s.events = o.events
      /\ s.timer = o.timer /\ s.commits = o.commits /\ s \in States
      /\ (s.jobs = o.jobs \/ s.jobs = Append(o.jobs, job))
  <2>1. o \in States /\ job \in JobRecords
    BY <1>2, <1>3 DEF Alters
  <2> QED  BY ONLY <2>1, SubmitIs
<1> HIDE DEF s
<1>6. s.ctl \in Ctls
  BY <1>5 DEF States
<1>7. c \in Ctls /\ c.deck = s.ctl.deck /\ c.cache = s.ctl.cache /\ c.busy = TRUE /\ c.mix = s.ctl.mix
  BY <1>6 DEF Ctls
<1>8. StartPreload(g, e, d) = h
  BY <1>4, <1>5 DEF States, WithCtl
<1>9. tt \in Timers /\ tt.e = e /\ tt.d = d
  BY DEF Timers
<1> HIDE DEF c, tt
<1>10. /\ f \in States /\ f.ctl = c /\ f.row = s.row /\ f.commits = s.commits /\ f.jobs = s.jobs
       /\ f.events = s.events
  BY <1>5, <1>7, CtlIs
<1> HIDE DEF f
<1>11. /\ h \in States /\ h.ctl = c /\ h.row = s.row /\ h.commits = s.commits /\ h.jobs = s.jobs
       /\ h.events = s.events /\ h.timer = tt
  BY <1>9, <1>10 DEF States
<1> HIDE DEF h
<1>12. /\ h.row = g.row /\ h.commits = g.commits /\ h.ctl.deck = g.ctl.deck /\ h.ctl.busy = TRUE
       /\ h.timer.e = e /\ h.timer.d = d /\ Alters(g, h, g.ctl.cache, TRUE, g.ctl.mix)
  BY <1>2, <1>5, <1>7, <1>9, <1>11 DEF Alters
<1>13. Titles(h)
  BY <1>1, <1>12, TitlesSame
<1>14. Len(h.events) = 0 /\ h.events = << >>
  <2>1. Len(o.events) = 0 /\ o.events \in Seq(EventRecords)
    BY <1>2, Typed DEF OutOfLine
  <2> QED  BY <1>5, <1>11, <2>1
<1>15. /\ Len(h.jobs) \in Nat
       /\ \A i \in 1..Len(h.jobs) : h.jobs[i].kind = "cleanup" \/ (i = Len(h.jobs) /\ h.jobs[i] = job)
  <2>1. /\ o.jobs \in Seq(JobRecords) /\ Len(o.jobs) \in Nat
        /\ \A i \in 1..Len(o.jobs) : o.jobs[i].kind = "cleanup"
    BY <1>2, Typed DEF OutOfLine
  <2>2. CASE h.jobs = o.jobs
    BY <2>1, <2>2
  <2>3. CASE h.jobs = Append(o.jobs, job)
    <3>1. /\ Len(h.jobs) = Len(o.jobs) + 1 /\ \A i \in 1..Len(o.jobs) : h.jobs[i] = o.jobs[i]
          /\ h.jobs[Len(o.jobs) + 1] = job
      BY <1>3, <2>1, <2>3, Appended
    <3>2. \A i \in 1..Len(o.jobs) + 1 : i = Len(o.jobs) + 1 \/ i \in 1..Len(o.jobs)
      BY <2>1
    <3> QED  BY <2>1, <3>1, <3>2
  <2> QED  BY <1>5, <1>11, <2>2, <2>3
<1>16. FreeFor(h, d)
  <2> SUFFICES ASSUME NEW x \in Entries, g.row[x].deck = d, g.row[x].status \in {"ready", "playing"}
               PROVE  FALSE
    BY <1>12 DEF FreeFor
  <2>1. g.ctl.deck[g.row[x].deck].queue = x
    BY <1>1 DEF Titles, Rowed, OnItsDeck
  <2> QED  BY <2>1, PreloadAssumption
<1>17. ASSUME NEW i \in 1..Len(h.jobs)
       PROVE  JobHolds(h, i)
  <2>1. CASE h.jobs[i].kind = "cleanup"
    BY <2>1 DEF JobHolds, SearchHolds, LoadHolds, PersistHolds
  <2>2. CASE i = Len(h.jobs) /\ h.jobs[i] = job
    <3>1. Alone(h, i)
      BY <1>14, <1>15, <2>2 DEF Alone
    <3>2. Len(h.jobs) <= i + Room(h)
      <4>1. Room(h) \in {0, 1} /\ Len(h.jobs) \in Nat /\ i = Len(h.jobs)
        BY <1>15, <2>2 DEF Room
      <4> QED  BY ONLY <4>1
    <3>3. Aimed(h, job)
      BY <1>3, <1>12 DEF Aimed
    <3>4. LoadHolds(h, job, i)
      BY <1>3, <1>12, <1>16, <3>1, <3>2, <3>3 DEF LoadHolds
    <3> QED  BY <1>3, <2>2, <3>4 DEF JobHolds, SearchHolds, PersistHolds
  <2> QED  BY <1>15, <2>1, <2>2
<1>18. \A i \in 1..Len(h.events) : EventHolds(h, i)
  BY <1>14
<1>19. Preparing(h)
  BY <1>12 DEF Preparing
<1>20. Timed(h)
  BY <1>12, PreloadAssumption DEF Timed, Early, Gone
<1>21. Inv(h)
  BY <1>1, <1>8, StartPreloadKeeps
<1> QED  BY <1>8, <1>13, <1>17, <1>18, <1>19, <1>20, <1>21 DEF Agrees, Pipe, Lined

LEMMA FoundAgrees ==
  ASSUME Session, SessionInv, LineInv', OnFound, GuiMayGoOn
  PROVE  SessionInv'
<1> DEFINE P == Processed
           ev == events[1]
           i == Idle(P)
           seen == IF ev.changed THEN Refresh(i) ELSE i
<1>1. /\ Inv(G) /\ Base(G) /\ Pipe(G) /\ G.row = row /\ G.ctl = ctl /\ G.events = events /\ G.timer = timer
      /\ events # << >> /\ Arrived("found")
  BY GIs DEF SessionInv, Agrees, OnFound, Arrived, Inv
<1>2. /\ P \in States /\ P.row = row /\ P.ctl = ctl /\ P.jobs = jobs /\ P.timer = timer /\ P.commits = commits
      /\ P.events = Tail(events) /\ Titles(P) /\ Len(Tail(events)) = Len(events) - 1
  BY <1>1, ProcessedIs
<1>3. CASE ~ev.live
  <2>1. Ignored
    BY <1>3 DEF OnFound
  <2> QED  BY <1>1, <1>3, <2>1, IgnoredAgrees
<1>4. CASE ev.live
  <2>1. /\ Inv(P) /\ Idled(P) /\ \A j \in 1..Len(jobs) : JobHolds(P, j) /\ jobs[j].kind = "cleanup"
        /\ Len(events) = 1 /\ EventHolds(G, 1) /\ ev \in EventRecords /\ EventAimed(ev) /\ ev.kind = "found"
    BY <1>1, <1>4, LiveArrived
  <2>2. \A x \in Entries : row[x].status # "preparing"
    <3>1. timer = NoTimer
      BY <1>1, <1>4, <2>1 DEF EventHolds
    <3> QED  BY <1>1, <3>1, TimerOf DEF Pipe, Preparing
  <2>3. \/ Done(StartPreload(seen, ev.e, ev.d)) /\ ev.e # NoEntry
        \/ Done(Pause(seen))
        \/ Done(seen)
    BY <1>4 DEF OnFound
  <2>4. P.events = << >>
    <3>1. P.events \in Seq(EventRecords)
      BY <1>2 DEF States
    <3>2. Len(P.events) = 0
      BY <1>2, <2>1
    <3> QED  BY <3>1, <3>2
  <2> HIDE DEF P
  <2>5. Agrees(i) /\ ~i.ctl.busy
    BY <1>2, <2>1, <2>2, IdleAgrees
  <2>6. Alters(P, i, P.ctl.cache, FALSE, P.ctl.mix) /\ InLine(P, i)
    BY <2>1, IdleIs DEF Inv
  <2> HIDE DEF i
  <2>7. Agrees(Refresh(i)) /\ Alters(i, Refresh(i), i.row, i.ctl.busy, i.ctl.mix) /\ InLine(i, Refresh(i))
    BY <2>5, RefreshAgrees, RefreshIs DEF Agrees, Inv
  <2>8. /\ Agrees(seen) /\ ~seen.ctl.busy /\ seen.row = row /\ seen.ctl.deck = ctl.deck /\ seen.jobs = jobs
        /\ seen.events = << >> /\ seen.commits = commits
    BY <1>2, <2>4, <2>5, <2>6, <2>7 DEF Alters, InLine
  <2> HIDE DEF seen
  <2>9. CASE Done(StartPreload(seen, ev.e, ev.d)) /\ ev.e # NoEntry
    <3>1. ev.e \in Entries /\ ev.d \in Decks /\ ev.d # NoDeck
      BY <2>1, <2>9, PreloadAssumption DEF EventAimed
    <3>2. ctl.deck[ev.d].queue = NoEntry /\ row[ev.e].status \in Early
      BY <1>1, <1>4, <2>1, <2>9, <3>1 DEF EventHolds
    <3>3. commits = {}
      BY DEF GuiMayGoOn, Session
    <3>4. Agrees(StartPreload(seen, ev.e, ev.d))
      BY <2>1, <2>2, <2>8, <3>1, <3>2, <3>3, StartPreloadAgrees
    <3> QED  BY <2>9, <3>4, AgreesDone
  <2>10. CASE Done(Pause(seen))
    <3>1. Base(seen) /\ Titles(seen) /\ Resting(seen)
      BY <2>8, IdleRests DEF Agrees, Inv
    <3> QED  BY <2>10, <3>1, PauseAgrees, AgreesDone
  <2>11. CASE Done(seen)
    BY <2>8, <2>11, AgreesDone
  <2> QED  BY <2>3, <2>9, <2>10, <2>11
<1> QED  BY <1>3, <1>4

LEMMA RejectedAgrees ==
  ASSUME SessionInv, LineInv', OnUnavailable \/ OnFailed
  PROVE  SessionInv'
<1> DEFINE P == Processed
           ev == events[1]
           x == events[1].e
           g == Idle(P)
<1>1. PICK kind \in {"unavailable", "failed"} : Arrived(kind) /\ Rejected({"skipped", "failed"})
  BY DEF OnUnavailable, OnFailed, Rejected
<1>2. /\ Inv(G) /\ Base(G) /\ Titles(G) /\ Pipe(G) /\ G.row = row /\ G.ctl = ctl /\ G.events = events
      /\ G.timer = timer /\ G.commits = commits /\ events # << >>
  BY <1>1, GIs DEF SessionInv, Agrees, Arrived, Inv
<1>3. /\ P \in States /\ P.row = row /\ P.ctl = ctl /\ P.jobs = jobs /\ P.timer = timer /\ P.commits = commits
      /\ P.events = Tail(events) /\ Titles(P)
  BY <1>2, ProcessedIs
<1>4. CASE ~ev.live
  <2>1. Ignored
    BY <1>1, <1>4 DEF Rejected
  <2> QED  BY <1>2, <1>4, <2>1, IgnoredAgrees
<1>5. CASE ev.live
  <2>1. /\ Inv(P) /\ Base(P) /\ Idled(P) /\ \A j \in 1..Len(jobs) : JobHolds(P, j)
        /\ EventHolds(G, 1) /\ ev \in EventRecords /\ EventAimed(ev) /\ ev.kind = kind
    BY <1>1, <1>5, LiveArrived DEF Inv
  <2>2. ev.e \in Entries /\ ev.d \in Decks
    BY <1>1, <2>1 DEF EventAimed
  <2>3. timer.e = x /\ timer.d = ev.d /\ ctl.deck[ev.d].queue = NoEntry
    BY <1>1, <1>2, <1>5, <2>1 DEF EventHolds, Aimed
  <2>4. \A y \in Entries : row[y].status = "preparing" => y = x /\ row[y].deck = ev.d
    BY <1>2, <2>3 DEF Pipe, Preparing
  <2> HIDE DEF P
  <2>5. /\ Alters(P, g, P.ctl.cache, FALSE, P.ctl.mix) /\ InLine(P, g)
        /\ Alters(P, TooLate(P), P.ctl.cache, FALSE, NoMix) /\ InLine(P, TooLate(P))
    BY <2>1, IdleIs
  <2>6. Base(g) /\ Idled(g) /\ Inv(g)
    BY <2>1, <2>5, IdleKeeps, SamePipe DEF Alters, InLine, Inv
  <2>7. CASE row[x].status \in {"waiting", "preparing"}
    <3>1. PICK target \in {"skipped", "failed"} : Done(ContinueAfterFailure(Refresh(RowGone(g, x, target))))
      BY <1>1, <1>5, <2>7 DEF Rejected, RowGone, P
    <3> DEFINE h == Refresh(RowGone(g, x, target))
    <3> HIDE DEF g
    <3>2. /\ h \in States /\ InLine(g, h) /\ h.ctl.deck = g.ctl.deck
          /\ h.ctl.busy = g.ctl.busy /\ h.ctl.mix = g.ctl.mix /\ h.ctl.cache = h.row
          /\ h.commits = g.commits /\ h.row[x].status = target
          /\ \A y \in Entries : y # x => h.row[y] = g.row[y]
      BY <2>2, <2>6, RefreshGoneIs
    <3>3. Inv(h)
      <4> DEFINE r == Moved(g.row, x, target, NoDeck)
      <4>1. r \in Rows
        BY <2>2, <2>6, Typed, MovedIs DEF Statuses, SomeDeck
      <4>2. RowGone(g, x, target) = [g EXCEPT !.row = r]
        BY DEF RowGone
      <4> HIDE DEF r, h
      <4>3. Inv(RowGone(g, x, target))
        BY <2>6, <4>1, <4>2, MovesIdled
      <4> QED  BY <4>3, RefreshKeeps DEF h
    <3> HIDE DEF h
    <3>4. /\ h.ctl.deck = ctl.deck /\ ~h.ctl.busy /\ h.ctl.mix = G.ctl.mix /\ h.commits = G.commits
          /\ h.jobs = P.jobs /\ h.events = P.events
          /\ \A y \in Entries : y # x => h.row[y] = row[y]
      BY <1>2, <1>3, <2>5, <3>2 DEF Alters, InLine
    <3>5. \A d \in Decks : ctl.deck[d].queue # x
      <4> SUFFICES ASSUME NEW d \in Decks, ctl.deck[d].queue = x
                   PROVE  FALSE
        OBVIOUS
      <4>1. DeckShows(G, d) /\ ctl.deck[d].phase \in {"empty", "loaded", "playing", "finished"} /\ x # NoEntry
        BY <1>2, <2>2, Typed, PreloadAssumption DEF Titles, Shows, DeckStates
      <4> QED  BY <1>2, <2>2, <2>3, <2>4, <2>7, <4>1 DEF DeckShows, Started, Past
    <3>6. Titles(h)
      <4>1. /\ h.row[x].status \in Gone /\ \A y \in Entries : y # x => h.row[y] = G.row[y]
            /\ \A d \in Decks : h.ctl.deck[d] = G.ctl.deck[d] /\ G.ctl.deck[d].queue # x
        BY <1>2, <3>2, <3>4, <3>5 DEF Gone
      <4> QED  BY <1>2, <2>2, <3>2, <3>4, <4>1, RowLeaves
    <3>7. Pipe(h)
      <4>1. ASSUME NEW y \in Entries
            PROVE  /\ h.row[y].status # "preparing"
                   /\ h.row[y].status = "ready" => h.row[y] = P.row[y]
                   /\ P.row[y].status \in Gone => h.row[y].status \in Gone
        BY <1>3, <2>4, <3>2, <3>4 DEF Gone
      <4> QED  BY <1>3, <2>1, <3>4, <4>1, IdledPipe
    <3>8. Agrees(ContinueAfterFailure(h))
      BY <3>3, <3>4, <3>6, <3>7, ContinueAgrees DEF Agrees
    <3> QED  BY <3>1, <3>8, AgreesDone DEF h
  <2>8. CASE row[x].status \notin {"waiting", "preparing"}
    <3>1. Done(AutoLoad(Refresh(TooLate(g)), FALSE))
      BY <1>1, <1>5, <2>8 DEF Rejected, P
    <3>2. \A y \in Entries : row[y].status # "preparing"
      BY <2>4, <2>8
    <3>3. Agrees(g)
      BY <1>3, <2>1, <3>2, IdleAgrees
    <3>4. /\ g.row = row /\ g.jobs = jobs /\ \A j \in 1..Len(g.jobs) : JobHolds(g, j)
      <4>1. g.row = row /\ g.jobs = jobs
        BY <1>3, <2>5 DEF Alters, InLine
      <4> QED  BY <3>3, <4>1 DEF Agrees, Pipe, Lined
    <3> HIDE DEF g
    <3>5. Agrees(TooLate(g))
      BY <2>6, <3>2, <3>3, <3>4, IdleAgrees DEF Agrees
    <3>6. Agrees(AutoLoad(Refresh(TooLate(g)), FALSE))
      BY <3>5, RefreshAgrees, AutoLoadAgrees
    <3> QED  BY <3>1, <3>6, AgreesDone
  <2> QED  BY <2>7, <2>8
<1> QED  BY <1>4, <1>5

\* The medium of x, in preparation for d, is adopted there.
LEMMA AdoptAgrees ==
  ASSUME Capacity >= 2, NEW g, NEW x \in Entries, NEW d \in Decks, Inv(g), Titles(g), Idled(g), g.events = << >>,
         \A i \in 1..Len(g.jobs) : g.jobs[i].kind = "cleanup", Len(g.jobs) <= 1, g.ctl.busy,
         g.timer.e = x, g.timer.d = d, g.row[x].status = "preparing", g.row[x].deck = d,
         \A y \in Entries : g.row[y].status = "preparing" => y = x,
         g.ctl.deck[d].queue = NoEntry, FreeFor(g, d)
  PROVE  /\ Adopted(g, x, d) \in States /\ Titles(Adopted(g, x, d)) /\ Pipe(Adopted(g, x, d))
<1> DEFINE k == [track |-> x, phase |-> "loaded", queue |-> x]
           f == OnDeck(g, d, k)
           job == Job("persist", x, d)
           h == Submit(f, job)
<1>1. Base(g) /\ g.jobs \in Seq(JobRecords) /\ Len(g.jobs) \in Nat /\ \A y \in Decks : g.ctl.deck[y] \in DeckStates
  BY Typed DEF Inv
<1>2. k \in DeckStates /\ k.track = x /\ k.phase = "loaded" /\ k.queue = x
  BY LoadedIs
<1>3. job \in JobRecords /\ job.kind = "persist" /\ job.e = x /\ job.d = d /\ job.live
  <2>1. job \in JobRecords /\ job.kind = "persist" /\ job.e = x /\ job.d = d
    BY JobIs DEF JobKinds, SomeEntry, SomeDeck
  <2>2. job.live
    BY DEF Job
  <2> QED  BY <2>1, <2>2
<1>4. Adopted(g, x, d) = h
  BY DEF Adopted, OnDeck
<1> HIDE DEF k, job
<1>5. /\ f \in States /\ InLine(g, f) /\ f.row = g.row /\ f.commits = g.commits /\ f.ctl.deck[d] = k
      /\ \A y \in Decks : y # d => f.ctl.deck[y] = g.ctl.deck[y]
      /\ f.ctl.cache = g.ctl.cache /\ f.ctl.busy = g.ctl.busy /\ f.ctl.mix = g.ctl.mix
  <2>1. d \in Decks /\ k \in DeckStates /\ Base(g)
    BY <1>1, <1>2
  <2> QED  BY ONLY <2>1, DeckPut
<1> HIDE DEF f
<1>6. HasRoom(f)
  <2>1. f.jobs = g.jobs /\ Capacity \in Nat
    BY <1>5, PreloadAssumption DEF InLine
  <2>2. Len(g.jobs) < Capacity
    BY <1>1, <2>1
  <2> QED  BY <2>1, <2>2 DEF HasRoom
<1>7. /\ h.row = g.row /\ h.ctl = f.ctl /\ h.events = g.events /\ h.timer = g.timer /\ h.commits = g.commits
      /\ h \in States /\ h.jobs = Append(g.jobs, job)
  <2>1. f \in States /\ job \in JobRecords
    BY <1>3, <1>5
  <2>2. /\ h.row = f.row /\ h.ctl = f.ctl /\ h.events = f.events /\ h.timer = f.timer /\ h.commits = f.commits
        /\ h \in States /\ h.jobs = IF HasRoom(f) THEN Append(f.jobs, job) ELSE f.jobs
    BY ONLY <2>1, SubmitIs
  <2> QED  BY <1>5, <1>6, <2>2 DEF InLine
<1> HIDE DEF h
<1>8. /\ h.ctl.deck[d] = k /\ \A y \in Decks : y # d => h.ctl.deck[y] = g.ctl.deck[y]
      /\ h.ctl.cache = g.ctl.cache /\ h.ctl.busy /\ h.ctl.mix = g.ctl.mix
  BY <1>5, <1>7
<1>9. /\ Len(h.jobs) = Len(g.jobs) + 1 /\ h.jobs[Len(g.jobs) + 1] = job
      /\ \A i \in 1..Len(g.jobs) : h.jobs[i] = g.jobs[i]
  <2>1. g.jobs \in Seq(JobRecords) /\ job \in JobRecords
    BY <1>1, <1>3
  <2>2. /\ Len(Append(g.jobs, job)) = Len(g.jobs) + 1 /\ Append(g.jobs, job)[Len(g.jobs) + 1] = job
        /\ \A i \in 1..Len(g.jobs) : Append(g.jobs, job)[i] = g.jobs[i]
    BY ONLY <2>1, Appended
  <2> QED  BY <1>7, <2>2
<1>10. x # NoEntry /\ \A y \in Decks : g.ctl.deck[y].queue # x
  <2> SUFFICES ASSUME NEW y \in Decks, g.ctl.deck[y].queue = x
               PROVE  FALSE
    BY PreloadAssumption
  <2>1. DeckShows(g, y) /\ g.ctl.deck[y].phase \in {"empty", "loaded", "playing", "finished"} /\ x # NoEntry
    BY <1>1, PreloadAssumption DEF Titles, Shows, DeckStates
  <2> QED  BY <2>1 DEF DeckShows, Started, Past
<1>11. Shows(h)
  <2>1. DeckShows(h, d)
    BY <1>2, <1>7, <1>8, <1>10 DEF DeckShows
  <2>2. ASSUME NEW y \in Decks, y # d
        PROVE  DeckShows(h, y)
    BY <1>1, <1>7, <1>8, <2>2, DeckLeft DEF Titles, Shows
  <2>3. ASSUME NEW y \in Decks, h.ctl.deck[y].queue # NoEntry
        PROVE  h.ctl.deck[Other(y)].queue # h.ctl.deck[y].queue
    <3>1. CASE y = d
      BY <1>2, <1>8, <1>10, <3>1, TwoDecks
    <3>2. CASE y # d
      <4>1. Other(y) = d
        BY <3>2, TwoDecks
      <4> QED  BY <1>2, <1>8, <1>10, <3>2, <4>1
    <3> QED  BY <3>1, <3>2
  <2> QED  BY <2>1, <2>2, <2>3 DEF Shows
<1>12. Rowed(h)
  <2> SUFFICES ASSUME NEW y \in Entries
               PROVE  /\ h.row[y].status = "ready" => OnItsDeck(h, y, "loaded")
                      /\ h.row[y].status = "playing" =>
                           OnItsDeck(h, y, "playing") \/ (\E c \in h.commits : c.e = y /\ c.d = h.row[y].deck)
    BY DEF Rowed
  <2>1. h.row[y].status \in {"ready", "playing"} => h.row[y].deck # d
    BY <1>7 DEF FreeFor
  <2>2. \A p : h.row[y].deck # d /\ OnItsDeck(g, y, p) => OnItsDeck(h, y, p)
    BY <1>7, <1>8 DEF OnItsDeck
  <2> QED  BY <1>7, <2>1, <2>2 DEF Titles, Rowed
<1>13. \A y \in Entries, dd \in Decks : Started(g, y, dd) => Started(h, y, dd) /\ y # x
  BY <1>7 DEF Started, Past
<1>14. Committed(h)
  <2>1. \A c \in g.commits : c.e \in Entries /\ c.d \in Decks
    BY <1>1, Typed DEF EndRecords
  <2> QED  BY <1>2, <1>7, <1>8, <1>13, <2>1 DEF Titles, Committed
<1>15. Mixed(h)
  <2> SUFFICES ASSUME Mixing(g)
               PROVE  LET m == g.ctl.mix
                      IN  /\ m.deck \in Decks /\ m.track \in Entries /\ m.queue = m.track
                          /\ Started(h, m.track, m.deck) /\ h.ctl.deck[Other(m.deck)].queue # m.track
    BY <1>8 DEF Mixed, Mixing
  <2>1. LET m == g.ctl.mix
        IN  /\ m.deck \in Decks /\ m.track \in Entries /\ m.queue = m.track
            /\ Started(g, m.track, m.deck) /\ g.ctl.deck[Other(m.deck)].queue # m.track
    BY DEF Titles, Mixed
  <2> QED  BY <1>2, <1>8, <1>13, <2>1, OtherIs
<1>16. Cached(h)
  BY <1>7, <1>8 DEF Titles, Cached
<1>17. \A i \in 1..Len(h.jobs) : h.jobs[i].kind = "cleanup" \/ (i = Len(g.jobs) + 1 /\ h.jobs[i] = job)
  <2>1. ASSUME NEW i \in 1..Len(h.jobs)
        PROVE  i \in 1..Len(g.jobs) \/ i = Len(g.jobs) + 1
    BY <1>1, <1>9, <2>1
  <2> QED  BY <1>9, <2>1
<1>18. Preparing(h)
  <2>1. Len(h.events) = 0
    BY <1>7
  <2> QED  BY <1>3, <1>7, <1>8, <1>17, <2>1 DEF Preparing
<1>19. ~Idled(h)
  <2>1. Len(g.jobs) + 1 \in 1..Len(h.jobs)
    BY <1>1, <1>9
  <2> QED  BY <1>3, <1>9, <2>1 DEF Idled, Current
<1>20. Timed(h)
  BY <1>7, <1>19 DEF Timed
<1>21. ASSUME NEW i \in 1..Len(h.jobs)
       PROVE  JobHolds(h, i)
  <2>1. CASE h.jobs[i].kind = "cleanup"
    BY <2>1 DEF JobHolds, SearchHolds, LoadHolds, PersistHolds
  <2>2. CASE i = Len(g.jobs) + 1 /\ h.jobs[i] = job
    <3>1. Alone(h, i)
      BY <1>7, <1>17, <2>2 DEF Alone
    <3>2. Aimed(h, job)
      BY <1>3, <1>7, <1>8 DEF Aimed
    <3>3. FreeFor(h, d)
      BY <1>7 DEF FreeFor
    <3>4. PersistHolds(h, job, i)
      BY <1>2, <1>3, <1>7, <1>8, <3>1, <3>2, <3>3 DEF PersistHolds
    <3> QED  BY <1>3, <2>2, <3>4 DEF JobHolds, SearchHolds, LoadHolds
  <2> QED  BY <1>17, <2>1, <2>2
<1>22. \A i \in 1..Len(h.events) : EventHolds(h, i)
  <2>1. Len(h.events) = 0
    BY <1>7
  <2> QED  BY <2>1
<1> QED
  BY <1>4, <1>7, <1>11, <1>12, <1>14, <1>15, <1>16, <1>18, <1>20, <1>21, <1>22 DEF Titles, Pipe, Lined

LEMMA CompletedAgrees ==
  ASSUME Session, SessionInv, LineInv', OnComplete
  PROVE  SessionInv'
<1> DEFINE P == Processed
           ev == events[1]
           x == events[1].e
           d == events[1].d
<1>1. /\ Inv(G) /\ Base(G) /\ Titles(G) /\ Pipe(G) /\ G.row = row /\ G.ctl = ctl /\ G.events = events
      /\ G.timer = timer /\ G.commits = commits /\ G.jobs = jobs /\ events # << >> /\ Arrived("complete")
  BY GIs DEF SessionInv, Agrees, OnComplete, Arrived, Inv
<1>2. /\ P \in States /\ P.row = row /\ P.ctl = ctl /\ P.jobs = jobs /\ P.timer = timer /\ P.commits = commits
      /\ P.events = Tail(events) /\ Titles(P) /\ Len(Tail(events)) = Len(events) - 1 /\ Len(events) \in Nat \ {0}
  BY <1>1, ProcessedIs
<1>3. CASE ~ev.live
  <2>1. Ignored
    BY <1>3 DEF OnComplete
  <2> QED  BY <1>1, <1>3, <2>1, IgnoredAgrees
<1>4. CASE ev.live
  <2>1. /\ Inv(P) /\ Base(P) /\ Idled(P) /\ \A j \in 1..Len(jobs) : JobHolds(P, j) /\ jobs[j].kind = "cleanup"
        /\ EventHolds(G, 1) /\ ev \in EventRecords /\ EventAimed(ev) /\ ev.kind = "complete" /\ Len(events) = 1
    BY <1>1, <1>4, LiveArrived DEF Inv
  <2>2. x \in Entries /\ d \in Decks
    BY <2>1 DEF EventAimed
  <2>3. /\ ctl.busy /\ timer.e = x /\ timer.d = d /\ ctl.deck[d].queue = NoEntry /\ FreeFor(G, d)
        /\ Len(jobs) <= Room(G)
    BY <1>1, <1>4, <2>1 DEF EventHolds, Aimed
  <2>4. \A y \in Entries : row[y].status = "preparing" => y = x /\ row[y].deck = d
    BY <1>1, <2>3 DEF Pipe, Preparing
  <2>5. \/ row[x] = [status |-> "preparing", deck |-> d]
        \/ row[x].status = "skipped" /\ ctl.cache[x].status \notin {"waiting", "preparing", "removed"}
    <3>1. 1 \in 1..Len(events)
      BY <1>2
    <3>2. Prepared(G, x, d)
      BY <1>1, <1>4, <2>1, <3>1 DEF Inv, Marked
    <3> QED  BY <1>1, <3>2 DEF Prepared, Session
  <2>6. ctl.deck[d].track = NoEntry
    BY <1>1, <2>2, <2>3 DEF Titles, Shows, DeckShows
  <2>7. \/ Done(TooLate(P)) /\ CacheConflicts(x)
        \/ Done(Adopted(P, x, d)) /\ ~CacheConflicts(x)
    <3>1. "adopt" \notin Failing
      BY DEF Session
    <3> QED  BY <1>4, <2>6, <3>1 DEF OnComplete
  <2>8. P.events = << >>
    <3>1. P.events \in Seq(EventRecords)
      BY <1>2 DEF States
    <3>2. Len(P.events) = 0
      BY <1>2, <2>1
    <3> QED  BY <3>1, <3>2
  <2> HIDE DEF P, x, d
  <2>9. CASE Done(TooLate(P)) /\ CacheConflicts(x)
    <3>1. row[x].status # "preparing"
      BY <1>1, <2>2, <2>9 DEF CacheConflicts, Titles, Cached
    <3>2. \A y \in Entries : row[y].status # "preparing"
      BY <2>4, <3>1
    <3>3. Agrees(TooLate(P))
      BY <1>2, <2>1, <3>2, IdleAgrees
    <3> QED  BY <2>9, <3>3, AgreesDone
  <2>10. CASE Done(Adopted(P, x, d)) /\ ~CacheConflicts(x)
    <3>1. row[x].status = "preparing" /\ row[x].deck = d
      BY <2>5, <2>10 DEF CacheConflicts
    <3>2. Len(jobs) <= 1
      <4>1. Room(G) \in {0, 1} /\ Len(jobs) \in Nat
        BY <1>1, Typed DEF Room
      <4> QED  BY <2>3, <4>1
    <3>3. FreeFor(P, d)
      BY <1>1, <1>2, <2>3 DEF FreeFor
    <3>4. Capacity >= 2
      BY DEF Session
    <3>5. Adopted(P, x, d) \in States /\ Titles(Adopted(P, x, d)) /\ Pipe(Adopted(P, x, d))
      BY <1>2, <2>1, <2>2, <2>3, <2>4, <2>8, <3>1, <3>2, <3>3, <3>4, AdoptAgrees
    <3> QED  BY <2>10, <3>5, DoneAgrees
  <2> QED  BY <2>7, <2>9, <2>10
<1> QED  BY <1>3, <1>4

LEMMA CallbackAgrees ==
  ASSUME Session, SessionInv, LineInv', Callback, GuiMayGoOn
  PROVE  SessionInv'
BY FoundAgrees, RejectedAgrees, CompletedAgrees, FollowupAgrees DEF Callback
----------------------------------------------------------------------------
(* The worker.                                                             *)

\* What runs is the line of work, unless it is a cleanup.
LEMMA HeadRules ==
  ASSUME NEW g, Inv(g), Pipe(g), g.jobs # << >>
  PROVE  /\ Len(g.jobs) \in Nat \ {0} /\ 1 \in 1..Len(g.jobs) /\ JobHolds(g, 1)
         /\ g.jobs[1].kind # "cleanup" =>
              /\ \A i \in 1..Len(g.events) : ~g.events[i].live
              /\ \A i \in 1..Len(g.jobs) : i # 1 /\ g.jobs[i].kind \in {"load", "persist"} => ~g.jobs[i].live
              /\ g.jobs[1].live => \A i \in 1..Len(g.jobs) : i # 1 => g.jobs[i].kind = "cleanup"
              /\ ~g.jobs[1].live \/ g.jobs[1].kind = "search" => \A x \in Entries : g.row[x].status # "preparing"
<1>1. g.jobs \in Seq(JobRecords) /\ Len(g.jobs) \in Nat
  BY Typed DEF Inv
<1>2. Len(g.jobs) \in Nat \ {0} /\ 1 \in 1..Len(g.jobs)
  BY <1>1, Rest
<1>3. JobHolds(g, 1)
  BY <1>2 DEF Pipe, Lined
<1>4. g.jobs[1].kind # "cleanup" => \A i \in 1..Len(g.events) : ~g.events[i].live
  BY <1>2 DEF Inv, OneLine
<1>5. g.jobs[1].kind # "cleanup" /\ g.jobs[1].live => \A i \in 1..Len(g.jobs) : i # 1 => g.jobs[i].kind = "cleanup"
  BY <1>2 DEF Inv, OneLine, Current
<1>6. ASSUME g.jobs[1].kind # "cleanup", NEW i \in 1..Len(g.jobs), i # 1, g.jobs[i].kind \in {"load", "persist"}
      PROVE  ~g.jobs[i].live
  <2>1. JobHolds(g, i)
    BY DEF Pipe, Lined
  <2>2. ~Alone(g, i)
    BY <1>2, <1>6 DEF Alone
  <2> QED  BY <1>6, <2>1, <2>2 DEF JobHolds, LoadHolds, PersistHolds
<1>7. g.jobs[1].kind # "cleanup" /\ (~g.jobs[1].live \/ g.jobs[1].kind = "search")
        => \A x \in Entries : g.row[x].status # "preparing"
  BY <1>2 DEF Pipe, Preparing
<1> QED  BY <1>2, <1>3, <1>4, <1>5, <1>6, <1>7

\* Only the head gets on.
LEMMA AdvancesPipe ==
  ASSUME NEW g, NEW h, NEW j, Inv(g), Pipe(g), g.jobs # << >>, h.jobs = [g.jobs EXCEPT ![1] = j],
         j \in JobRecords, j.kind = g.jobs[1].kind, j.live = g.jobs[1].live,
         h.row = g.row, h.ctl = g.ctl, h.events = g.events, h.timer = g.timer, JobHolds(h, 1)
  PROVE  Pipe(h)
<1>1. g.jobs \in Seq(JobRecords) /\ Len(g.jobs) \in Nat /\ 1 \in 1..Len(g.jobs)
  BY HeadRules, Typed DEF Inv
<1>2. /\ Len(h.jobs) = Len(g.jobs) /\ h.jobs[1] = j
      /\ \A i \in 1..Len(g.jobs) : i # 1 => h.jobs[i] = g.jobs[i]
  BY <1>1
<1>3. \A i \in 1..Len(g.jobs) : h.jobs[i].kind = g.jobs[i].kind /\ h.jobs[i].live = g.jobs[i].live
  BY <1>1, <1>2
<1>4. Preparing(h)
  BY <1>2, <1>3 DEF Pipe, Preparing
<1>5. Idled(h) => Idled(g)
  BY <1>2, <1>3 DEF Idled, Current
<1>6. Timed(h)
  BY <1>5 DEF Pipe, Timed
<1>7. Room(h) = Room(g) /\ \A d : FreeFor(g, d) => FreeFor(h, d)
  BY DEF Room, Mixing, FreeFor
<1>8. ASSUME NEW i \in 1..Len(h.jobs)
      PROVE  JobHolds(h, i)
  <2>1. CASE i = 1
    BY <2>1
  <2>2. CASE i # 1
    <3>1. JobHolds(g, i) /\ h.jobs[i] = g.jobs[i]
      BY <1>2, <1>8, <2>2 DEF Pipe, Lined
    <3>2. Alone(g, i) => Alone(h, i)
      BY <1>2, <1>3 DEF Alone
    <3>3. LoadHolds(g, h.jobs[i], i) /\ PersistHolds(g, h.jobs[i], i)
      BY <3>1 DEF JobHolds
    <3>4. SearchHolds(h, h.jobs[i])
      BY <3>1 DEF JobHolds, SearchHolds, Saw
    <3>5. LoadHolds(h, h.jobs[i], i)
      BY <1>2, <1>7, <3>2, <3>3 DEF LoadHolds, Aimed
    <3>6. PersistHolds(h, h.jobs[i], i)
      BY <1>7, <3>2, <3>3 DEF PersistHolds, Aimed
    <3> QED  BY <3>4, <3>5, <3>6 DEF JobHolds
  <2> QED  BY <2>1, <2>2
<1>9. ASSUME NEW i \in 1..Len(h.events)
      PROVE  EventHolds(h, i)
  <2>1. EventHolds(g, i)
    BY <1>9 DEF Pipe, Lined
  <2> QED  BY <1>2, <1>7, <2>1 DEF EventHolds, Aimed
<1> QED  BY <1>4, <1>6, <1>8, <1>9 DEF Pipe, Lined

\* A job that is about a title ends, with a callback or, when it is stale, without one.
LEMMA EndsPipe ==
  ASSUME NEW g, NEW h, NEW v, Inv(g), Pipe(g), g.jobs # << >>, g.jobs[1].kind # "cleanup", h.jobs = Tail(g.jobs),
         h.row = g.row, h.ctl = g.ctl, h.timer = g.timer, v \in EventRecords, v.live = g.jobs[1].live,
         \/ h.events = Append(g.events, v)
         \/ h.events = g.events /\ ~v.live,
         v.live => \/ v.kind \in {"complete", "failed"}
                   \/ \A x \in Entries : g.row[x].status # "preparing",
         v.live /\ Len(h.events) \in Nat \ {0} /\ h.events[Len(h.events)] = v
           /\ (v.kind # "found" => Len(g.events) = 0) => EventHolds(h, Len(h.events)),
         v.live /\ v.kind # "found" => Len(g.events) = 0
  PROVE  Pipe(h)
<1>1. /\ g.jobs \in Seq(JobRecords) /\ Len(g.jobs) \in Nat \ {0} /\ 1 \in 1..Len(g.jobs)
      /\ g.events \in Seq(EventRecords) /\ Len(g.events) \in Nat /\ v.live \in BOOLEAN
  BY HeadRules, Typed DEF Inv, EventRecords
<1>2. /\ \A i \in 1..Len(g.events) : ~g.events[i].live
      /\ \A i \in 1..Len(g.jobs) : i # 1 /\ g.jobs[i].kind \in {"load", "persist"} => ~g.jobs[i].live
      /\ v.live => \A i \in 1..Len(g.jobs) : i # 1 => g.jobs[i].kind = "cleanup"
      /\ ~v.live => \A x \in Entries : g.row[x].status # "preparing"
  BY HeadRules
<1>3. /\ Len(h.jobs) = Len(g.jobs) - 1 /\ Len(h.jobs) \in Nat
      /\ \A i \in 1..Len(h.jobs) : h.jobs[i] = g.jobs[i + 1] /\ i + 1 \in 1..Len(g.jobs) /\ i + 1 # 1
  <2>1. /\ Len(h.jobs) = Len(g.jobs) - 1 /\ \A i \in 1..Len(g.jobs) - 1 : h.jobs[i] = g.jobs[i + 1]
    BY <1>1, Rest
  <2>2. \A i \in 1..Len(g.jobs) - 1 : i + 1 \in 1..Len(g.jobs) /\ i + 1 # 1
    BY <1>1
  <2>3. Len(g.jobs) - 1 \in Nat
    BY <1>1
  <2> QED  BY <2>1, <2>2, <2>3
<1>4. \/ /\ Len(h.events) = Len(g.events) + 1 /\ h.events[Len(g.events) + 1] = v
         /\ \A i \in 1..Len(g.events) : h.events[i] = g.events[i]
      \/ h.events = g.events /\ ~v.live
  <2>1. CASE h.events = Append(g.events, v)
    BY <1>1, <2>1, Appended
  <2> QED  BY <2>1
<1>5. ASSUME NEW i \in 1..Len(h.events)
      PROVE  ~h.events[i].live \/ (v.live /\ i = Len(h.events) /\ h.events[i] = v /\ Len(h.events) = Len(g.events) + 1)
  <2>1. CASE h.events = g.events /\ ~v.live
    BY <1>2, <2>1
  <2>2. CASE /\ Len(h.events) = Len(g.events) + 1 /\ h.events[Len(g.events) + 1] = v
             /\ \A k \in 1..Len(g.events) : h.events[k] = g.events[k]
    <3>1. i \in 1..Len(g.events) \/ i = Len(g.events) + 1
      BY <1>1, <2>2
    <3> QED  BY <1>1, <1>2, <2>2, <3>1
  <2> QED  BY <1>4, <2>1, <2>2
<1>6. \A i \in 1..Len(h.events) : EventHolds(h, i)
  <2> SUFFICES ASSUME NEW i \in 1..Len(h.events), h.events[i].live
               PROVE  EventHolds(h, i)
    BY DEF EventHolds
  <2>1. v.live /\ i = Len(h.events) /\ h.events[i] = v /\ Len(h.events) \in Nat \ {0}
    BY <1>1, <1>5
  <2> QED  BY <2>1
<1>7. Preparing(h)
  <2> SUFFICES ASSUME NEW x \in Entries, g.row[x].status = "preparing"
               PROVE  /\ g.ctl.busy /\ g.row[x].deck \in Decks /\ g.timer.e = x /\ g.timer.d = g.row[x].deck
                      /\ \A i \in 1..Len(h.jobs) : h.jobs[i].kind = "cleanup"
                      /\ \A i \in 1..Len(h.events) : h.events[i].live /\ h.events[i].kind \in {"complete", "failed"}
    BY DEF Preparing
  <2>1. /\ g.ctl.busy /\ g.row[x].deck \in Decks /\ g.timer.e = x /\ g.timer.d = g.row[x].deck
        /\ \A i \in 1..Len(g.events) : g.events[i].live
    BY DEF Pipe, Preparing
  <2>2. v.live /\ v.kind \in {"complete", "failed"}
    BY <1>2
  <2>3. \A i \in 1..Len(h.jobs) : h.jobs[i].kind = "cleanup"
    BY <1>2, <1>3, <2>2
  <2>4. Len(g.events) = 0 /\ Len(h.events) = 1 /\ h.events[1] = v
    <3>1. v.kind # "found"
      BY <2>2
    <3>2. Len(g.events) = 0
      BY <2>2, <3>1
    <3>3. Len(h.events) = Len(g.events) + 1 /\ h.events[Len(g.events) + 1] = v
      BY <1>4, <2>2
    <3> QED  BY <3>2, <3>3
  <2> QED  BY <2>1, <2>2, <2>3, <2>4
<1>8. Timed(h)
  <2>1. ASSUME Idled(h)
        PROVE  Idled(g)
    <3>1. ~v.live
      <4>1. Len(g.events) + 1 \in 1..Len(g.events) + 1
        BY <1>1
      <4> QED  BY <1>4, <2>1, <4>1 DEF Idled
    <3>2. ASSUME NEW i \in 1..Len(g.jobs)
          PROVE  ~Current(g.jobs[i])
      <4>1. CASE i = 1
        BY <3>1, <4>1 DEF Current
      <4>2. CASE i # 1
        <5>1. i - 1 \in 1..Len(h.jobs) /\ i - 1 + 1 = i
          BY <1>1, <1>3, <4>2
        <5>2. h.jobs[i - 1] = g.jobs[i]
          BY <1>3, <5>1
        <5> QED  BY <2>1, <5>1, <5>2 DEF Idled
      <4> QED  BY <4>1, <4>2
    <3> QED  BY <1>2, <3>2 DEF Idled
  <2> QED  BY <2>1 DEF Pipe, Timed
<1>9. ASSUME NEW i \in 1..Len(h.jobs)
      PROVE  JobHolds(h, i)
  <2>1. JobHolds(g, i + 1) /\ h.jobs[i] = g.jobs[i + 1]
    BY <1>3, <1>9 DEF Pipe, Lined
  <2>2. h.jobs[i].kind \in {"load", "persist"} => ~h.jobs[i].live
    BY <1>2, <1>3, <1>9
  <2>3. SearchHolds(h, h.jobs[i])
    BY <2>1 DEF JobHolds, SearchHolds, Saw
  <2>4. LoadHolds(h, h.jobs[i], i)
    BY <2>1, <2>2 DEF JobHolds, LoadHolds
  <2>5. PersistHolds(h, h.jobs[i], i)
    BY <2>1, <2>2 DEF JobHolds, PersistHolds
  <2> QED  BY <2>3, <2>4, <2>5 DEF JobHolds
<1> QED  BY <1>6, <1>7, <1>8, <1>9 DEF Pipe, Lined

LEMMA CleanupPipe ==
  ASSUME NEW g, NEW h, Inv(g), Pipe(g), g.jobs # << >>, g.jobs[1].kind = "cleanup", h.jobs = Tail(g.jobs),
         h.row = g.row, h.ctl = g.ctl, h.timer = g.timer, h.events = g.events
  PROVE  Pipe(h)
<1>1. g.jobs \in Seq(JobRecords) /\ Len(g.jobs) \in Nat \ {0} /\ 1 \in 1..Len(g.jobs)
  BY HeadRules, Typed DEF Inv
<1>3. /\ Len(h.jobs) = Len(g.jobs) - 1 /\ Len(h.jobs) \in Nat
      /\ \A i \in 1..Len(h.jobs) : h.jobs[i] = g.jobs[i + 1] /\ i + 1 \in 1..Len(g.jobs)
  <2>1. /\ Len(h.jobs) = Len(g.jobs) - 1 /\ \A i \in 1..Len(g.jobs) - 1 : h.jobs[i] = g.jobs[i + 1]
    BY <1>1, Rest
  <2>2. \A i \in 1..Len(g.jobs) - 1 : i + 1 \in 1..Len(g.jobs)
    BY <1>1
  <2>3. Len(g.jobs) - 1 \in Nat
    BY <1>1
  <2> QED  BY <2>1, <2>2, <2>3
<1>4. Preparing(h)
  BY <1>3 DEF Pipe, Preparing
<1>5. Idled(h) => Idled(g)
  <2> SUFFICES ASSUME Idled(h), NEW i \in 1..Len(g.jobs)
               PROVE  ~Current(g.jobs[i])
    BY DEF Idled
  <2>1. CASE i = 1
    BY <2>1 DEF Current
  <2>2. CASE i # 1
    <3>1. i - 1 \in 1..Len(h.jobs) /\ i - 1 + 1 = i
      BY <1>1, <1>3, <2>2
    <3>2. h.jobs[i - 1] = g.jobs[i]
      BY <1>3, <3>1
    <3> QED  BY <3>1, <3>2 DEF Idled
  <2> QED  BY <2>1, <2>2
<1>6. Timed(h)
  BY <1>5 DEF Pipe, Timed
<1>7. Room(h) = Room(g) /\ Room(g) \in {0, 1}
  BY DEF Room, Mixing
<1>8. ASSUME NEW i \in 1..Len(h.jobs)
      PROVE  JobHolds(h, i)
  <2>1. JobHolds(g, i + 1) /\ h.jobs[i] = g.jobs[i + 1]
    BY <1>3, <1>8 DEF Pipe, Lined
  <2>2. Alone(g, i + 1) => Alone(h, i)
    <3> SUFFICES ASSUME Alone(g, i + 1), NEW k \in 1..Len(h.jobs), k # i
                 PROVE  h.jobs[k].kind = "cleanup"
      BY DEF Alone
    <3>1. k + 1 # i + 1 /\ k + 1 \in 1..Len(g.jobs) /\ h.jobs[k] = g.jobs[k + 1]
      BY <1>3, <1>8
    <3> QED  BY <3>1 DEF Alone
  <2>3. Len(g.jobs) <= i + 1 + Room(g) => Len(h.jobs) <= i + Room(h)
    <3>1. Len(h.jobs) = Len(g.jobs) - 1 /\ Len(g.jobs) \in Nat /\ i \in Nat /\ Room(h) = Room(g) /\ Room(g) \in {0, 1}
      BY <1>1, <1>3, <1>7, <1>8
    <3> QED  BY ONLY <3>1
  <2>4. SearchHolds(h, h.jobs[i])
    BY <2>1 DEF JobHolds, SearchHolds, Saw
  <2>5. LoadHolds(h, h.jobs[i], i)
    BY <2>1, <2>2, <2>3 DEF JobHolds, LoadHolds, Aimed, FreeFor
  <2>6. PersistHolds(h, h.jobs[i], i)
    BY <2>1, <2>2 DEF JobHolds, PersistHolds, Aimed, FreeFor
  <2> QED  BY <2>4, <2>5, <2>6 DEF JobHolds
<1>9. ASSUME NEW i \in 1..Len(h.events)
      PROVE  EventHolds(h, i)
  <2>1. EventHolds(g, i)
    BY <1>9 DEF Pipe, Lined
  <2>2. Len(g.jobs) <= Room(g) => Len(h.jobs) <= Room(h)
    <3>1. Len(h.jobs) = Len(g.jobs) - 1 /\ Len(g.jobs) \in Nat /\ Room(h) = Room(g) /\ Room(g) \in {0, 1}
      BY <1>1, <1>3, <1>7
    <3> QED  BY ONLY <3>1
  <2> QED  BY <2>1, <2>2 DEF EventHolds, Aimed, FreeFor
<1> QED  BY <1>4, <1>6, <1>8, <1>9 DEF Pipe, Lined

\* A step of the worker that leaves rows, decks, cache and commits alone.
LEMMA WorkerTitles ==
  ASSUME SessionInv, LineInv', UNCHANGED <<row, ctl, commits>>
  PROVE  Titles(G')
<1>1. Base(G) /\ Titles(G) /\ G' \in States
  BY Typed DEF SessionInv, Agrees, Inv, LineInv, Base
<1>2. Alters(G, G', ctl.cache, ctl.busy, ctl.mix) /\ G.ctl = ctl
  BY <1>1, GIs DEF Alters
<1> QED  BY <1>1, <1>2, TitlesSame

LEMMA WorkerIs ==
  ASSUME SessionInv
  PROVE  /\ Inv(G) /\ Base(G) /\ Titles(G) /\ Pipe(G) /\ LineInv /\ G.row = row /\ G.ctl = ctl /\ G.jobs = jobs
         /\ G.events = events /\ G.timer = timer /\ G.commits = commits
         /\ row \in Rows /\ ctl \in Ctls /\ ctl.cache \in Rows /\ ctl.deck \in [Decks -> DeckStates]
         /\ jobs \in Seq(JobRecords) /\ events \in Seq(EventRecords) /\ Len(events) \in Nat /\ Len(jobs) \in Nat
BY GIs, Typed DEF SessionInv, Agrees, Inv, LineInv

LEMMA PrimeIs ==
  ASSUME LineInv'
  PROVE  /\ G'.row = row' /\ G'.ctl = ctl' /\ G'.jobs = jobs' /\ G'.events = events' /\ G'.timer = timer'
         /\ G'.commits = commits' /\ G' \in States /\ Inv(G') /\ (Titles(G') /\ Pipe(G') => SessionInv')
<1>1. Inv(G') /\ G' \in States
  BY DEF LineInv, Inv, Base
<1>2. Titles(G') /\ Pipe(G') => SessionInv'
  BY <1>1 DEF SessionInv, Agrees
<1> QED  BY <1>1, <1>2, GIs

\* The search saw what is READY on its deck.
LEMMA SeesAgrees ==
  ASSUME SessionInv, LineInv', SearchSees
  PROVE  SessionInv'
<1> DEFINE seen == [d \in Decks |-> ctl.deck[d].track]
           j == [jobs[1] EXCEPT !.at = "seen", !.seen = seen]
<1>1. /\ jobs # << >> /\ jobs[1].kind = "search" /\ UNCHANGED <<row, ctl, events, timer, commits>>
      /\ jobs' = [jobs EXCEPT ![1].at = "seen", ![1].seen = seen]
  BY DEF SearchSees, Running
<1>2. /\ Inv(G) /\ Titles(G) /\ Pipe(G) /\ jobs \in Seq(JobRecords) /\ ctl.deck \in [Decks -> DeckStates]
  BY WorkerIs
<1>3. JobHolds(G, 1) /\ 1 \in 1..Len(jobs)
  BY <1>1, <1>2, GIs, HeadRules
<1>4. jobs[1] \in JobRecords
  BY <1>2, <1>3
<1>5. seen \in [Decks -> SomeEntry] /\ \A d \in Decks : seen[d] = ctl.deck[d].track
  BY <1>2 DEF DeckStates
<1> HIDE DEF seen
<1>6. jobs' = [jobs EXCEPT ![1] = j]
  BY <1>1, <1>2, <1>4 DEF JobRecords
<1>7. /\ j \in JobRecords /\ j.kind = "search" /\ j.live = jobs[1].live /\ j.at = "seen" /\ j.seen = seen
  BY <1>1, <1>4, <1>5 DEF JobRecords, Stages
<1> HIDE DEF j
<1>8. Saw(G', j)
  <2> SUFFICES ASSUME NEW x \in Entries, row[x].status = "ready"
               PROVE  seen[row[x].deck] = x
    BY <1>1, <1>7, GIs DEF Saw
  <2>1. row[x].deck \in Decks /\ ctl.deck[row[x].deck].queue = x
    BY <1>2, GIs DEF Titles, Rowed, OnItsDeck
  <2>2. ctl.deck[row[x].deck].track = ctl.deck[row[x].deck].queue
    BY <1>2, <2>1, GIs DEF Titles, Shows, DeckShows
  <2> QED  BY <1>5, <2>1, <2>2
<1>9. JobHolds(G', 1)
  <2>1. jobs'[1] = j
    BY <1>2, <1>3, <1>6
  <2>2. SearchHolds(G', j)
    BY <1>1, <1>3, <1>7, <1>8, GIs DEF JobHolds, SearchHolds
  <2> QED  BY <1>7, <2>1, <2>2, GIs DEF JobHolds, LoadHolds, PersistHolds
<1>10. Pipe(G')
  <2>1. /\ Inv(G) /\ Pipe(G) /\ G.jobs # << >> /\ G'.jobs = [G.jobs EXCEPT ![1] = j]
        /\ j \in JobRecords /\ j.kind = G.jobs[1].kind /\ j.live = G.jobs[1].live
        /\ G'.row = G.row /\ G'.ctl = G.ctl /\ G'.events = G.events /\ G'.timer = G.timer /\ JobHolds(G', 1)
    BY <1>1, <1>2, <1>6, <1>7, <1>9, GIs
  <2> QED  BY ONLY <2>1, AdvancesPipe
<1>11. Titles(G')
  BY <1>1, WorkerTitles
<1> QED  BY <1>10, <1>11, PrimeIs

\* Nothing that is READY is reset, and the deck that is chosen is free.
LEMMA ReconcilesAgrees ==
  ASSUME SessionInv, LineInv', SearchReconciles
  PROVE  SessionInv'
<1> DEFINE empty == {d \in Decks : ctl.deck[d].track = NoEntry}
           d == CASE DeckA \in empty -> DeckA [] empty = {DeckB} -> DeckB [] OTHER -> NoDeck
           moved == (row' # row)
           j == [jobs[1] EXCEPT !.at = "choosing", !.changed = moved, !.d = d]
<1>1. /\ jobs # << >> /\ jobs[1].kind = "search" /\ jobs[1].at = "seen" /\ UNCHANGED <<ctl, events, timer, commits>>
      /\ jobs' = [jobs EXCEPT ![1].at = "choosing", ![1].changed = moved, ![1].d = d]
      /\ row' = Reconciled(row, jobs[1].seen)
  BY DEF SearchReconciles, Running
<1>2. /\ Inv(G) /\ Titles(G) /\ Pipe(G) /\ jobs \in Seq(JobRecords) /\ row \in Rows
  BY WorkerIs
<1>3. JobHolds(G, 1) /\ 1 \in 1..Len(jobs)
  BY <1>1, <1>2, GIs, HeadRules
<1>4. jobs[1] \in JobRecords
  BY <1>2, <1>3
<1>5. row' = row
  <2>1. \A x \in Entries : row[x].status = "ready" => jobs[1].seen[row[x].deck] = x
    BY <1>1, <1>3, GIs DEF JobHolds, SearchHolds, Saw
  <2>2. Reconciled(row, jobs[1].seen) = [x \in Entries |-> row[x]]
    BY <2>1 DEF Reconciled
  <2>3. row = [x \in Entries |-> row[x]]
    BY <1>2 DEF Rows
  <2> QED  BY <1>1, <2>2, <2>3
<1>6. d \in SomeDeck /\ (d # NoDeck => d \in Decks /\ ctl.deck[d].queue = NoEntry)
  <2>1. \A y \in Decks : ctl.deck[y].track = ctl.deck[y].queue
    BY <1>2, GIs DEF Titles, Shows, DeckShows
  <2>2. DeckA \in Decks /\ DeckB \in Decks
    BY DEF Decks
  <2> QED  BY <2>1, <2>2 DEF SomeDeck
<1>7. moved \in BOOLEAN
  OBVIOUS
<1> HIDE DEF d, moved
<1>8. jobs' = [jobs EXCEPT ![1] = j]
  BY <1>1, <1>2, <1>4 DEF JobRecords
<1>9. /\ j \in JobRecords /\ j.kind = "search" /\ j.live = jobs[1].live /\ j.at = "choosing" /\ j.d = d
  BY <1>1, <1>4, <1>6, <1>7 DEF JobRecords, Stages
<1> HIDE DEF j
<1>10. JobHolds(G', 1)
  <2>1. jobs'[1] = j
    BY <1>2, <1>3, <1>8
  <2>2. SearchHolds(G', j)
    BY <1>1, <1>3, <1>6, <1>9, GIs DEF JobHolds, SearchHolds
  <2> QED  BY <1>9, <2>1, <2>2, GIs DEF JobHolds, LoadHolds, PersistHolds
<1>11. Pipe(G')
  <2>1. /\ Inv(G) /\ Pipe(G) /\ G.jobs # << >> /\ G'.jobs = [G.jobs EXCEPT ![1] = j]
        /\ j \in JobRecords /\ j.kind = G.jobs[1].kind /\ j.live = G.jobs[1].live
        /\ G'.row = G.row /\ G'.ctl = G.ctl /\ G'.events = G.events /\ G'.timer = G.timer /\ JobHolds(G', 1)
    BY <1>1, <1>2, <1>5, <1>8, <1>9, <1>10, GIs
  <2> QED  BY ONLY <2>1, AdvancesPipe
<1>12. Titles(G')
  BY <1>1, <1>5, WorkerTitles
<1> QED  BY <1>11, <1>12, PrimeIs

\* A title that is rejected waited, on no deck.
LEMMA RejectsAgrees ==
  ASSUME SessionInv, LineInv', SearchRejects
  PROVE  SessionInv'
<1>1. PICK x \in Entries, target \in {"skipped", "failed"} :
          row[x].status = "waiting" /\ row' = Moved(row, x, target, NoDeck)
  BY DEF SearchRejects
<1>2. UNCHANGED <<ctl, jobs, events, timer, commits>>
  BY DEF SearchRejects, pipe
<1>3. /\ Base(G) /\ Titles(G) /\ Pipe(G) /\ row \in Rows /\ G' \in States
  BY WorkerIs, PrimeIs
<1>4. row'[x].status = target /\ \A y \in Entries : y # x => row'[y] = row[y]
  BY <1>1, <1>3, MovedIs DEF Statuses, SomeDeck
<1>5. \A d \in Decks : ctl.deck[d].queue # x
  <2> SUFFICES ASSUME NEW d \in Decks, ctl.deck[d].queue = x
               PROVE  FALSE
    OBVIOUS
  <2>1. DeckShows(G, d) /\ ctl.deck[d].phase \in {"empty", "loaded", "playing", "finished"} /\ x # NoEntry
    BY <1>3, GIs, Typed, PreloadAssumption DEF Titles, Shows, DeckStates
  <2> QED  BY <1>1, <2>1, GIs DEF DeckShows, Started, Past
<1>6. Titles(G')
  <2>1. /\ G'.row[x].status \in Gone /\ \A y \in Entries : y # x => G'.row[y] = G.row[y]
        /\ \A d \in Decks : G'.ctl.deck[d] = G.ctl.deck[d] /\ G.ctl.deck[d].queue # x
        /\ G'.commits = G.commits /\ G'.ctl.mix = G.ctl.mix /\ G'.ctl.cache = G.ctl.cache
    BY <1>1, <1>2, <1>4, <1>5, GIs DEF Gone
  <2> QED  BY <1>3, <2>1, RowLeaves
<1>7. Eases(G, G')
  <2>1. RowsEase(G, G')
    BY <1>1, <1>4, GIs DEF RowsEase, Early, Gone
  <2>2. DecksEase(G, G')
    BY <1>2, GIs DEF DecksEase
  <2> QED  BY <1>2, <1>3, <2>1, <2>2, GIs DEF Eases, InLine, Mixing
<1>8. Pipe(G')
  BY <1>3, <1>7, EasesKeeps
<1> QED  BY <1>6, <1>8, PrimeIs

\* What is found still waits.
LEMMA FindsAgrees ==
  ASSUME SessionInv, LineInv', SearchFinds
  PROVE  SessionInv'
<1> DEFINE v == Event("found", jobs[1])
<1>1. /\ jobs # << >> /\ jobs[1].kind = "search" /\ jobs[1].at = "choosing" /\ jobs' = Tail(jobs)
      /\ UNCHANGED <<row, ctl, timer, commits>>
  BY DEF SearchFinds, Running, Ends
<1>2. /\ Inv(G) /\ Base(G) /\ Pipe(G) /\ jobs \in Seq(JobRecords)
  BY WorkerIs
<1>3. /\ JobHolds(G, 1) /\ 1 \in 1..Len(jobs)
      /\ \A y \in Entries : row[y].status # "preparing"
  BY <1>1, <1>2, GIs, HeadRules
<1>4. jobs[1] \in JobRecords /\ jobs[1].e = NoEntry /\ jobs[1].d \in SomeDeck
  <2>1. jobs[1] \in JobRecords /\ JobAimed(jobs[1])
    BY <1>2, <1>3, GIs, JobOf
  <2> QED  BY <1>1, <2>1 DEF JobAimed, JobRecords
<1>5. v \in EventRecords /\ v.kind = "found" /\ v.e = NoEntry /\ v.d = jobs[1].d /\ v.live = jobs[1].live
  BY <1>4, EventIs DEF EventKinds
<1>6. PICK u : /\ events' = Append(events, u)
               /\ \/ u = v
                  \/ \E x \in Entries : row[x].status = "waiting" /\ u = [v EXCEPT !.e = x]
  BY DEF SearchFinds, Publishes
<1> HIDE DEF v
<1>7. /\ u \in EventRecords /\ u.kind = "found" /\ u.d = jobs[1].d /\ u.live = jobs[1].live
      /\ u.e # NoEntry => row[u.e].status = "waiting"
  BY <1>5, <1>6 DEF EventRecords, SomeEntry
<1>8. u.live => timer = NoTimer /\ (u.d # NoDeck => ctl.deck[u.d].queue = NoEntry)
  BY <1>1, <1>3, <1>7, GIs DEF JobHolds, SearchHolds
<1>9. ASSUME u.live, G'.events[Len(G'.events)] = u
      PROVE  EventHolds(G', Len(G'.events))
  BY <1>1, <1>7, <1>8, <1>9, GIs DEF EventHolds, Early
<1>10. Pipe(G')
  <2>1. /\ Inv(G) /\ Pipe(G) /\ G.jobs # << >> /\ G.jobs[1].kind # "cleanup" /\ G'.jobs = Tail(G.jobs)
        /\ G'.row = G.row /\ G'.ctl = G.ctl /\ G'.timer = G.timer /\ u \in EventRecords
        /\ u.live = G.jobs[1].live /\ G'.events = Append(G.events, u) /\ u.kind = "found"
        /\ \A y \in Entries : G.row[y].status # "preparing"
        /\ u.live /\ G'.events[Len(G'.events)] = u => EventHolds(G', Len(G'.events))
    BY <1>1, <1>2, <1>3, <1>6, <1>7, <1>9, GIs
  <2> QED  BY ONLY <2>1, EndsPipe
<1>11. Titles(G')
  BY <1>1, WorkerTitles
<1> QED  BY <1>10, <1>11, PrimeIs
----------------------------------------------------------------------------
(* The worker prepares the medium and commits it.                          *)

LEMMA LoadHead ==
  ASSUME SessionInv, jobs # << >>, jobs[1].kind \in {"load", "persist"}
  PROVE  /\ jobs[1] \in JobRecords /\ jobs[1].e \in Entries /\ jobs[1].d \in Decks /\ 1 \in 1..Len(jobs)
         /\ LoadHolds(G, jobs[1], 1) /\ PersistHolds(G, jobs[1], 1)
         /\ jobs[1].live => /\ events = << >> /\ \A i \in 1..Len(jobs) : i # 1 => jobs[i].kind = "cleanup"
                            /\ ctl.busy /\ timer.e = jobs[1].e /\ timer.d = jobs[1].d
                            /\ \A x \in Entries : row[x].status = "preparing" => x = jobs[1].e
<1>1. Inv(G) /\ Base(G) /\ Pipe(G) /\ jobs \in Seq(JobRecords)
  BY WorkerIs
<1>2. JobHolds(G, 1) /\ 1 \in 1..Len(jobs)
  BY <1>1, GIs, HeadRules
<1>3. jobs[1] \in JobRecords /\ jobs[1].e \in Entries /\ jobs[1].d \in Decks
  BY <1>1, <1>2, GIs, JobOf
<1>4. LoadHolds(G, jobs[1], 1) /\ PersistHolds(G, jobs[1], 1)
  BY <1>2, GIs DEF JobHolds
<1>5. jobs[1].live => Aimed(G, jobs[1]) /\ Alone(G, 1)
  BY <1>4 DEF LoadHolds, PersistHolds
<1>6. \A x \in Entries : row[x].status = "preparing" => timer.e = x
  BY <1>1, GIs DEF Pipe, Preparing
<1> QED  BY <1>2, <1>3, <1>4, <1>5, <1>6, GIs DEF Aimed, Alone

\* The job goes on, with rows and decks as they were.
LEMMA AdvanceAgrees ==
  ASSUME SessionInv, LineInv', jobs # << >>, NEW a \in Stages, Advances(a),
         UNCHANGED <<row, ctl, events, timer, commits>>,
         \/ jobs[1].kind = "persist"
         \/ jobs[1].kind = "load" /\ jobs[1].live /\ row[jobs[1].e].status \in Early
  PROVE  SessionInv'
<1> DEFINE j == [jobs[1] EXCEPT !.at = a]
<1>1. Inv(G) /\ Pipe(G) /\ jobs \in Seq(JobRecords)
  BY WorkerIs
<1>2. /\ jobs[1] \in JobRecords /\ 1 \in 1..Len(jobs)
      /\ LoadHolds(G, jobs[1], 1) /\ PersistHolds(G, jobs[1], 1)
  BY LoadHead
<1>3. jobs' = [jobs EXCEPT ![1] = j]
  BY <1>1, <1>2 DEF Advances, JobRecords
<1>4. /\ j \in JobRecords /\ j.kind = jobs[1].kind /\ j.live = jobs[1].live /\ j.e = jobs[1].e /\ j.d = jobs[1].d
  BY <1>2 DEF JobRecords
<1> HIDE DEF j
<1>5. /\ Len(jobs') = Len(jobs) /\ jobs'[1] = j /\ \A i \in 1..Len(jobs) : i # 1 => jobs'[i] = jobs[i]
  BY <1>1, <1>2, <1>3
<1>6. Aimed(G, jobs[1]) => Aimed(G', j)
  BY <1>4, GIs DEF Aimed
<1>7. Alone(G, 1) => Alone(G', 1)
  BY <1>5, GIs DEF Alone
<1>8. FreeFor(G, j.d) => FreeFor(G', j.d)
  BY GIs DEF FreeFor
<1>9. Room(G') = Room(G)
  BY GIs DEF Room, Mixing
<1>10. LoadHolds(G', j, 1)
  BY <1>2, <1>4, <1>5, <1>6, <1>7, <1>8, <1>9, GIs DEF LoadHolds
<1>11. PersistHolds(G', j, 1)
  BY <1>2, <1>4, <1>6, <1>7, <1>8, GIs DEF PersistHolds
<1>12. JobHolds(G', 1)
  BY <1>4, <1>5, <1>10, <1>11, GIs DEF JobHolds, SearchHolds
<1>13. Pipe(G')
  <2>1. /\ Inv(G) /\ Pipe(G) /\ G.jobs # << >> /\ G'.jobs = [G.jobs EXCEPT ![1] = j]
        /\ j \in JobRecords /\ j.kind = G.jobs[1].kind /\ j.live = G.jobs[1].live
        /\ G'.row = G.row /\ G'.ctl = G.ctl /\ G'.events = G.events /\ G'.timer = G.timer /\ JobHolds(G', 1)
    BY <1>1, <1>3, <1>4, <1>12, GIs
  <2> QED  BY ONLY <2>1, AdvancesPipe
<1>14. Titles(G')
  BY WorkerTitles
<1> QED  BY <1>13, <1>14, PrimeIs

\* The job ends with a callback, with rows and decks as they were.
LEMMA PublishAgrees ==
  ASSUME SessionInv, LineInv', jobs # << >>, NEW kind \in EventKinds, kind # "found", Ends,
         Publishes(Event(kind, jobs[1])), UNCHANGED <<row, ctl, timer, commits>>,
         \/ jobs[1].kind = "load"
         \/ jobs[1].kind = "persist" /\ kind \in {"followup", "persistFailed"},
         jobs[1].live => \/ kind \in {"complete", "failed"}
                         \/ \A x \in Entries : row[x].status # "preparing"
  PROVE  SessionInv'
<1> DEFINE v == Event(kind, jobs[1])
<1>1. Inv(G) /\ Pipe(G) /\ jobs \in Seq(JobRecords) /\ Len(jobs) \in Nat
  BY WorkerIs
<1>2. /\ jobs[1] \in JobRecords /\ 1 \in 1..Len(jobs) /\ (jobs[1].live => events = << >>)
      /\ LoadHolds(G, jobs[1], 1) /\ PersistHolds(G, jobs[1], 1)
  BY LoadHead
<1>3. v \in EventRecords /\ v.kind = kind /\ v.e = jobs[1].e /\ v.d = jobs[1].d /\ v.live = jobs[1].live
  BY <1>2, EventIs
<1>4. jobs' = Tail(jobs) /\ events' = Append(events, v)
  BY DEF Ends, Publishes
<1> HIDE DEF v
<1>5. Len(jobs') = Len(jobs) - 1
  BY <1>1, <1>4, Rest
<1>6. ASSUME v.live
      PROVE  Len(events) = 0 /\ Len(events') = 1 /\ events'[1] = v /\ EventHolds(G', 1)
  <2>1. events = << >>
    BY <1>2, <1>3, <1>6
  <2>2. Len(events) = 0 /\ Len(events') = 1 /\ events'[1] = v
    BY <1>4, <2>1
  <2>3. Aimed(G', v)
    BY <1>2, <1>3, <1>6, GIs DEF LoadHolds, PersistHolds, Aimed
  <2>4. kind \in {"unavailable", "failed", "complete"} => ctl.deck[v.d].queue = NoEntry
    BY <1>2, <1>3, <1>6, GIs DEF LoadHolds
  <2>5. kind = "complete" => FreeFor(G', v.d)
    BY <1>2, <1>3, <1>6, GIs DEF LoadHolds, FreeFor
  <2>6. kind = "complete" => Len(jobs') <= Room(G')
    <3>1. Room(G') = Room(G) /\ Room(G) \in {0, 1}
      BY GIs DEF Room, Mixing
    <3>2. kind = "complete" => Len(jobs) <= 1 + Room(G)
      BY <1>2, <1>3, <1>6, GIs DEF LoadHolds
    <3>3. Len(jobs') = Len(jobs) - 1 /\ Len(jobs) \in Nat
      BY <1>1, <1>5
    <3> QED  BY ONLY <3>1, <3>2, <3>3
  <2>7. EventHolds(G', 1)
    BY <1>3, <2>2, <2>3, <2>4, <2>5, <2>6, GIs DEF EventHolds
  <2> QED  BY <2>2, <2>7
<1>7. Pipe(G')
  <2>1. /\ Inv(G) /\ Pipe(G) /\ G.jobs # << >> /\ G.jobs[1].kind # "cleanup" /\ G'.jobs = Tail(G.jobs)
        /\ G'.row = G.row /\ G'.ctl = G.ctl /\ G'.timer = G.timer /\ v \in EventRecords
        /\ v.live = G.jobs[1].live /\ G'.events = Append(G.events, v)
        /\ v.live => v.kind \in {"complete", "failed"} \/ \A x \in Entries : G.row[x].status # "preparing"
        /\ v.live => EventHolds(G', Len(G'.events)) /\ Len(G.events) = 0
    BY <1>1, <1>3, <1>4, <1>6, GIs
  <2> QED  BY ONLY <2>1, EndsPipe
<1>8. Titles(G')
  BY WorkerTitles
<1> QED  BY <1>7, <1>8, PrimeIs

\* A commit of an older generation ends.
LEMMA EndsAgrees ==
  ASSUME SessionInv, LineInv', jobs # << >>, jobs[1].kind = "persist", ~jobs[1].live, Ends,
         UNCHANGED <<row, ctl, events, timer, commits>>
  PROVE  SessionInv'
<1> DEFINE v == Event("followup", jobs[1])
<1>1. Inv(G) /\ Pipe(G) /\ jobs[1] \in JobRecords
  BY WorkerIs, LoadHead
<1>2. v \in EventRecords /\ v.live = jobs[1].live
  BY <1>1, EventIs DEF EventKinds
<1> HIDE DEF v
<1>3. Pipe(G')
  <2>1. /\ Inv(G) /\ Pipe(G) /\ G.jobs # << >> /\ G.jobs[1].kind # "cleanup" /\ G'.jobs = Tail(G.jobs)
        /\ G'.row = G.row /\ G'.ctl = G.ctl /\ G'.timer = G.timer /\ v \in EventRecords
        /\ v.live = G.jobs[1].live /\ G'.events = G.events /\ ~v.live
    BY <1>1, <1>2, GIs DEF Ends
  <2> QED  BY ONLY <2>1, EndsPipe
<1>4. Titles(G')
  BY WorkerTitles
<1> QED  BY <1>3, <1>4, PrimeIs

LEMMA CleanupAgrees ==
  ASSUME SessionInv, LineInv', Cleanup
  PROVE  SessionInv'
<1>1. Pipe(G')
  <2>1. /\ Inv(G) /\ Pipe(G) /\ G.jobs # << >> /\ G.jobs[1].kind = "cleanup" /\ G'.jobs = Tail(G.jobs)
        /\ G'.row = G.row /\ G'.ctl = G.ctl /\ G'.timer = G.timer /\ G'.events = G.events
    BY WorkerIs, GIs DEF Cleanup, Running, Ends
  <2> QED  BY ONLY <2>1, CleanupPipe
<1>2. Titles(G')
  BY WorkerTitles DEF Cleanup
<1> QED  BY <1>1, <1>2, PrimeIs

LEMMA ValidateAgrees ==
  ASSUME SessionInv, LineInv', Validate
  PROVE  SessionInv'
<1>1. jobs # << >> /\ jobs[1].kind = "load" /\ jobs[1].at = "start" /\ UNCHANGED <<row, ctl, timer, commits>>
  BY DEF Validate, Running
<1>2. CASE jobs[1].live /\ row[jobs[1].e].status = "waiting" /\ Advances("validated") /\ UNCHANGED events
  BY <1>1, <1>2, AdvanceAgrees DEF Stages, Early
<1>3. CASE Publishes(Event("unavailable", jobs[1])) /\ Ends
  <2>1. jobs[1].live => \A x \in Entries : row[x].status # "preparing"
    <3>1. jobs[1].live => row[jobs[1].e].status \in Early /\ (\A x \in Entries : row[x].status = "preparing" => x = jobs[1].e)
      BY <1>1, LoadHead, GIs DEF LoadHolds
    <3> QED  BY <3>1 DEF Early
  <2> QED  BY <1>1, <1>3, <2>1, PublishAgrees DEF EventKinds
<1> QED  BY <1>2, <1>3 DEF Validate

LEMMA PrepareAgrees ==
  ASSUME SessionInv, LineInv', Prepare
  PROVE  SessionInv'
<1>1. jobs # << >> /\ jobs[1].kind = "load" /\ Ends /\ UNCHANGED <<row, ctl, timer, commits>>
  BY DEF Prepare, Running
<1>2. CASE Publishes(Event("complete", jobs[1]))
  BY <1>1, <1>2, PublishAgrees DEF EventKinds
<1>3. CASE Publishes(Event("failed", jobs[1]))
  BY <1>1, <1>3, PublishAgrees DEF EventKinds
<1> QED  BY <1>2, <1>3 DEF Prepare

LEMMA ReleasesAgrees ==
  ASSUME SessionInv, LineInv', PersistReleases \/ PersistChecks
  PROVE  SessionInv'
<1>1. jobs # << >> /\ jobs[1].kind = "persist" /\ UNCHANGED <<ctl, events, timer, commits>>
  BY DEF PersistReleases, PersistChecks, Running
<1>2. CASE ~jobs[1].live
  <2>1. Ends /\ UNCHANGED row
    BY <1>2 DEF PersistReleases, PersistChecks
  <2> QED  BY <1>1, <1>2, <2>1, EndsAgrees
<1>3. CASE jobs[1].live
  <2>1. \E a \in {"released", "checked"} : Advances(a)
    BY <1>3 DEF PersistReleases, PersistChecks
  <2>2. row' = row
    <3>1. row' = row \/ row' = Released(row, jobs[1].d, jobs[1].e)
      BY <1>3 DEF PersistReleases, PersistChecks
    <3>2. FreeFor(G, jobs[1].d)
      BY <1>1, <1>3, LoadHead DEF PersistHolds
    <3>3. row \in Rows
      BY WorkerIs
    <3>4. Released(row, jobs[1].d, jobs[1].e) = [x \in Entries |-> row[x]]
      BY <3>2, GIs DEF FreeFor, Released
    <3>5. row = [x \in Entries |-> row[x]]
      BY <3>3 DEF Rows
    <3> QED  BY <3>1, <3>4, <3>5
  <2> QED  BY <1>1, <2>1, <2>2, AdvanceAgrees DEF Stages
<1> QED  BY <1>2, <1>3

\* The row of one entry that has not been started changes; its deck, if it is on one, has it loaded.
LEMMA RowPrepared ==
  ASSUME NEW g, NEW h, NEW e \in Entries, NEW d \in Decks, Base(g), Titles(g),
         g.row[e].status \in {"waiting", "preparing"}, h.row[e].deck = d,
         \/ g.row[e].status = "waiting" /\ h.row[e].status = "preparing"
         \/ /\ g.row[e].deck = d /\ h.row[e].status = "ready"
            /\ g.ctl.deck[d].queue = e /\ g.ctl.deck[d].phase = "loaded",
         \A y \in Entries : y # e => h.row[y] = g.row[y],
         h.commits = g.commits, h.ctl = g.ctl
  PROVE  Titles(h)
<1>1. \A y \in Entries, x \in Decks : Started(g, y, x) => y # e /\ Started(h, y, x)
  BY DEF Started, Past
<1>2. ASSUME NEW x \in Decks
      PROVE  DeckShows(h, x)
  <2>1. DeckShows(g, x) /\ g.ctl.deck[x] \in DeckStates
    BY Typed DEF Titles, Shows
  <2>2. CASE g.ctl.deck[x].queue # e
    <3>1. g.ctl.deck[x].queue # NoEntry => h.row[g.ctl.deck[x].queue] = g.row[g.ctl.deck[x].queue]
      BY <2>1, <2>2 DEF DeckStates, SomeEntry
    <3> QED  BY <2>1, <3>1, DeckLeft
  <2>3. CASE g.ctl.deck[x].queue = e
    <3>1. g.ctl.deck[x].phase = "loaded"
      BY <2>1, <2>3, PreloadAssumption DEF DeckShows, Started, Past, DeckStates
    <3>2. g.row[e].status # "waiting" /\ g.row[e].deck = x
      BY <2>1, <2>3, <3>1 DEF DeckShows
    <3> QED  BY <2>1, <2>3, <3>1, <3>2 DEF DeckShows
  <2> QED  BY <2>2, <2>3
<1>3. Shows(h)
  BY <1>2 DEF Titles, Shows
<1>4. Rowed(h)
  <2> SUFFICES ASSUME NEW y \in Entries
               PROVE  /\ h.row[y].status = "ready" => OnItsDeck(h, y, "loaded")
                      /\ h.row[y].status = "playing" =>
                           OnItsDeck(h, y, "playing") \/ (\E c \in h.commits : c.e = y /\ c.d = h.row[y].deck)
    BY DEF Rowed
  <2>1. CASE y = e
    BY <2>1 DEF OnItsDeck
  <2>2. CASE y # e
    <3>1. \A p : OnItsDeck(g, y, p) => OnItsDeck(h, y, p)
      BY <2>2 DEF OnItsDeck
    <3> QED  BY <2>2, <3>1 DEF Titles, Rowed
  <2> QED  BY <2>1, <2>2
<1>5. \A c \in g.commits : c.e \in Entries /\ c.d \in Decks
  BY Typed DEF EndRecords
<1>6. Committed(h)
  BY <1>1, <1>5 DEF Titles, Committed
<1>7. Mixed(h)
  BY <1>1 DEF Titles, Mixed, Mixing
<1>8. Cached(h)
  BY DEF Titles, Cached
<1> QED  BY <1>3, <1>4, <1>6, <1>7, <1>8 DEF Titles

\* MovedIs, with the deck.
LEMMA MovedTo ==
  ASSUME NEW r \in Rows, NEW e \in Entries, NEW target \in {"preparing", "ready"}, NEW d \in Decks
  PROVE  /\ Moved(r, e, target, d)[e].status = target /\ Moved(r, e, target, d)[e].deck = d
         /\ \A x \in Entries : x # e => Moved(r, e, target, d)[x] = r[x]
<1>1. DeckAfter(r, e, target, d) = d
  BY PreloadAssumption DEF DeckAfter
<1> QED  BY <1>1 DEF Moved, Rows

LEMMA Allowed ==
  ASSUME NEW r \in Rows, NEW e \in Entries, NEW d
  PROVE  /\ CanMove(r, e, "preparing", d) => r[e].status \in {"waiting", "preparing"}
         /\ CanMove(r, e, "ready", d) => r[e].status \notin Gone
         /\ r[e].status = "preparing" /\ d \in Decks /\ CanMove(r, e, "ready", d)
              => \A x \in Entries : x # e => ~(r[x].deck = d /\ r[x].status \in Active)
<1>1. r[e].status \in Statuses
  BY DEF Rows
<1>2. d \in Decks => DeckAfter(r, e, "ready", d) = d
  BY PreloadAssumption DEF DeckAfter
<1> QED  BY <1>1, <1>2, PreloadAssumption DEF CanMove, AllowedTransitions, Statuses, Gone, DeckTaken, Active

LEMMA MarkAgrees ==
  ASSUME SessionInv, LineInv', MarkPreparing
  PROVE  SessionInv'
<1> DEFINE e == jobs[1].e
           d == jobs[1].d
<1>1. jobs # << >> /\ jobs[1].kind = "load" /\ jobs[1].at = "validated" /\ UNCHANGED <<ctl, timer, commits>>
  BY DEF MarkPreparing, Running
<1>2. /\ Base(G) /\ Titles(G) /\ Pipe(G) /\ Inv(G) /\ jobs \in Seq(JobRecords) /\ Len(jobs) \in Nat /\ row \in Rows
  BY WorkerIs
<1>3. /\ jobs[1] \in JobRecords /\ e \in Entries /\ d \in Decks /\ 1 \in 1..Len(jobs) /\ LoadHolds(G, jobs[1], 1)
  BY <1>1, LoadHead
<1>4. CASE ~CanMove(row, e, "preparing", d)
  <2>1. Publishes(Event("failed", jobs[1])) /\ Ends /\ UNCHANGED row
    BY <1>4 DEF MarkPreparing
  <2> QED  BY <1>1, <2>1, PublishAgrees DEF EventKinds
<1>5. CASE CanMove(row, e, "preparing", d)
  <2>1. row' = Moved(row, e, "preparing", d) /\ Advances("marked") /\ events' = events
    BY <1>5 DEF MarkPreparing
  <2>2. row[e].status \in {"waiting", "preparing"}
    BY <1>2, <1>3, <1>5, Allowed
  <2>3. jobs[1].live
    BY <1>1, <1>3, <2>2, GIs DEF LoadHolds, Gone
  <2>4. row[e].status = "waiting" /\ ctl.deck[d].queue = NoEntry
    BY <1>1, <1>3, <2>2, <2>3, GIs DEF LoadHolds, Early
  <2>5. /\ events = << >> /\ \A i \in 1..Len(jobs) : i # 1 => jobs[i].kind = "cleanup"
        /\ ctl.busy /\ timer.e = e /\ timer.d = d
        /\ \A x \in Entries : row[x].status # "preparing"
    BY <1>1, <2>3, <2>4, LoadHead
  <2>6. row'[e].status = "preparing" /\ row'[e].deck = d /\ \A x \in Entries : x # e => row'[x] = row[x]
    BY <1>2, <1>3, <2>1, MovedTo
  <2> DEFINE j == [jobs[1] EXCEPT !.at = "marked"]
  <2>7. /\ jobs' = [jobs EXCEPT ![1] = j] /\ j.kind = "load" /\ j.live = jobs[1].live /\ j.e = e /\ j.d = d
        /\ j.at = "marked"
    BY <1>1, <1>2, <1>3, <2>1 DEF Advances, JobRecords
  <2> HIDE DEF j
  <2>8. Len(jobs') = Len(jobs) /\ jobs'[1] = j /\ \A i \in 1..Len(jobs) : i # 1 => jobs'[i] = jobs[i]
    BY <1>2, <1>3, <2>7
  <2> HIDE DEF e, d
  <2>9. Titles(G')
    <3>1. /\ G.row[e].status = "waiting" /\ G'.row[e].deck = d /\ G'.row[e].status = "preparing"
          /\ \A y \in Entries : y # e => G'.row[y] = G.row[y]
          /\ G'.commits = G.commits /\ G'.ctl = G.ctl
      BY <1>1, <2>4, <2>6, GIs
    <3> QED  BY <1>2, <1>3, <3>1, RowPrepared
  <2>10. Preparing(G')
    <3>1. \A i \in 1..Len(jobs') : jobs'[i].kind = "cleanup" \/ (jobs'[i].live /\ jobs'[i].kind \in {"load", "persist"})
      BY <2>3, <2>5, <2>7, <2>8
    <3>2. \A x \in Entries : row'[x].status = "preparing" => x = e
      BY <2>5, <2>6
    <3>3. Len(events') = 0
      BY <2>1, <2>5
    <3> QED  BY <1>1, <1>3, <2>5, <2>6, <3>1, <3>2, <3>3, GIs DEF Preparing
  <2>11. Timed(G')
    <3>1. ctl'.deck[d].queue # e
      BY <1>1, <1>3, <2>4, PreloadAssumption
    <3> QED  BY <1>1, <2>5, <2>6, <3>1, GIs DEF Timed
  <2>12. ASSUME NEW i \in 1..Len(jobs')
         PROVE  JobHolds(G', i)
    <3>1. CASE i # 1
      BY <2>5, <2>8, <3>1, GIs DEF JobHolds, SearchHolds, LoadHolds, PersistHolds
    <3>2. CASE i = 1
      <4>1. Aimed(G', j) /\ Alone(G', 1)
        BY <1>1, <2>1, <2>5, <2>7, <2>8, GIs DEF Aimed, Alone
      <4>2. FreeFor(G', d)
        BY <1>1, <1>3, <2>3, <2>6, GIs DEF LoadHolds, FreeFor, d
      <4>3. Len(jobs') <= 1 + Room(G')
        BY <1>1, <1>3, <2>3, <2>8, GIs DEF LoadHolds, Room, Mixing
      <4>4. LoadHolds(G', j, 1)
        BY <1>1, <2>3, <2>4, <2>7, <4>1, <4>2, <4>3, GIs DEF LoadHolds
      <4> QED  BY <2>7, <2>8, <3>2, <4>4, GIs DEF JobHolds, SearchHolds, PersistHolds
    <3> QED  BY <3>1, <3>2
  <2>13. Lined(G')
    <3>1. Len(events') = 0
      BY <2>1, <2>5
    <3> QED  BY <2>12, <3>1, GIs DEF Lined
  <2> QED  BY <2>9, <2>10, <2>11, <2>13, PrimeIs DEF Pipe
<1> QED  BY <1>4, <1>5

LEMMA LoadedAgrees ==
  ASSUME Session, SessionInv, LineInv', PersistMarksLoaded
  PROVE  SessionInv'
<1> DEFINE e == jobs[1].e
           d == jobs[1].d
<1>1. jobs # << >> /\ jobs[1].kind = "persist" /\ Ends /\ UNCHANGED <<ctl, timer, commits>>
  BY DEF PersistMarksLoaded, Running
<1>2. /\ Base(G) /\ Titles(G) /\ Pipe(G) /\ Inv(G) /\ jobs \in Seq(JobRecords) /\ Len(jobs) \in Nat /\ row \in Rows
  BY WorkerIs
<1>3. /\ jobs[1] \in JobRecords /\ e \in Entries /\ d \in Decks /\ 1 \in 1..Len(jobs) /\ PersistHolds(G, jobs[1], 1)
  BY <1>1, LoadHead
<1>4. CASE ~CanMove(row, e, "ready", d)
  <2>1. Publishes(Event("persistFailed", jobs[1])) /\ UNCHANGED row
    BY <1>4 DEF PersistMarksLoaded
  <2>2. ASSUME jobs[1].live, NEW x \in Entries, row[x].status = "preparing"
        PROVE  FALSE
    <3>1. x = e /\ FreeFor(G, d) /\ row[e].deck = d
      BY <1>1, <1>3, <2>2, LoadHead, GIs DEF PersistHolds, Gone
    <3>2. \A y \in Entries : y # e => row[y].status # "preparing"
      BY <1>1, <2>2, LoadHead
    <3>3. ~DeckTaken(row, e, d)
      BY <3>1, <3>2, GIs DEF DeckTaken, FreeFor, Active
    <3>4. DeckAfter(row, e, "ready", d) = d
      BY <1>3, PreloadAssumption DEF DeckAfter
    <3>5. "ready" \in AllowedTransitions[row[e].status]
      BY <2>2, <3>1 DEF AllowedTransitions
    <3> QED  BY <1>4, <3>3, <3>4, <3>5 DEF CanMove
  <2> QED  BY <1>1, <2>1, <2>2, PublishAgrees DEF EventKinds
<1>5. CASE CanMove(row, e, "ready", d)
  <2>1. row' = Moved(row, e, "ready", d) /\ Publishes(Event("followup", jobs[1]))
    BY <1>5 DEF PersistMarksLoaded, Session
  <2>2. row[e].status \notin Gone
    BY <1>2, <1>3, <1>5, Allowed
  <2>3. /\ jobs[1].live /\ row[e].status = "preparing" /\ row[e].deck = d
        /\ ctl.deck[d].queue = e /\ ctl.deck[d].phase = "loaded"
    BY <1>1, <1>3, <2>2, GIs DEF PersistHolds
  <2>4. /\ events = << >> /\ \A i \in 1..Len(jobs) : i # 1 => jobs[i].kind = "cleanup"
        /\ ctl.busy /\ timer.e = e /\ timer.d = d
        /\ \A x \in Entries : row[x].status = "preparing" => x = e
    BY <1>1, <2>3, LoadHead
  <2>5. row'[e].status = "ready" /\ row'[e].deck = d /\ \A x \in Entries : x # e => row'[x] = row[x]
    BY <1>2, <1>3, <2>1, MovedTo
  <2> DEFINE v == Event("followup", jobs[1])
  <2>6. v.kind = "followup" /\ v.e = e /\ v.d = d /\ v.live = jobs[1].live
    BY <1>3, EventIs DEF EventKinds
  <2>7. events' = Append(events, v)
    BY <2>1 DEF Publishes
  <2> HIDE DEF v
  <2>8. Len(events') = 1 /\ events'[1] = v
    BY <2>4, <2>7
  <2>9. /\ Len(jobs') \in Nat /\ \A i \in 1..Len(jobs') : jobs'[i].kind = "cleanup"
    <3>1. /\ Len(jobs') = Len(jobs) - 1 /\ \A i \in 1..Len(jobs) - 1 : jobs'[i] = jobs[i + 1]
      BY <1>1, <1>2, Rest DEF Ends
    <3>2. \A i \in 1..Len(jobs) - 1 : i + 1 \in 1..Len(jobs) /\ i + 1 # 1
      BY <1>2
    <3>3. Len(jobs) - 1 \in Nat
      BY <1>2, <1>3
    <3> QED  BY <2>4, <3>1, <3>2, <3>3
  <2> HIDE DEF e, d
  <2>10. Titles(G')
    <3>1. /\ G.row[e].status = "preparing" /\ G'.row[e].deck = d /\ G'.row[e].status = "ready" /\ G.row[e].deck = d
          /\ G.ctl.deck[d].queue = e /\ G.ctl.deck[d].phase = "loaded"
          /\ \A y \in Entries : y # e => G'.row[y] = G.row[y]
          /\ G'.commits = G.commits /\ G'.ctl = G.ctl
      BY <1>1, <2>3, <2>5, GIs
    <3> QED  BY <1>2, <1>3, <3>1, RowPrepared
  <2>11. Preparing(G')
    BY <2>4, <2>5, GIs DEF Preparing
  <2>12. Timed(G')
    <3>1. ~Idled(G')
      <4>1. 1 \in 1..Len(events')
        BY <2>8
      <4>2. v.live
        BY <2>3, <2>6
      <4>3. events'[1].live
        BY <2>8, <4>2
      <4> QED  BY <4>1, <4>3, GIs DEF Idled
    <3> QED  BY <1>1, <2>4, <2>5, <3>1, GIs DEF Timed
  <2>13. \A i \in 1..Len(jobs') : JobHolds(G', i)
    BY <2>9, GIs DEF JobHolds, SearchHolds, LoadHolds, PersistHolds
  <2>14. EventHolds(G', 1)
    BY <1>1, <2>3, <2>4, <2>6, <2>8, GIs DEF EventHolds, Aimed
  <2>15. Lined(G')
    <3>1. \A i \in 1..Len(events') : i = 1
      BY <2>8
    <3> QED  BY <2>13, <2>14, <3>1, GIs DEF Lined
  <2> QED  BY <2>10, <2>11, <2>12, <2>15, PrimeIs DEF Pipe
<1> QED  BY <1>4, <1>5

LEMMA WorkerAgrees ==
  ASSUME Session, SessionInv, LineInv', Worker \/ SearchRejects \/ Prepare
  PROVE  SessionInv'
BY SeesAgrees, ReconcilesAgrees, FindsAgrees, RejectsAgrees, ValidateAgrees, MarkAgrees, PrepareAgrees,
   ReleasesAgrees, LoadedAgrees, CleanupAgrees DEF Worker
----------------------------------------------------------------------------
(* A session.                                                              *)

LEMMA OperatorAgrees ==
  ASSUME Session, SessionInv, LineInv', Operator
  PROVE  SessionInv'
<1>1. Operators \subseteq {"skip", "resume"}
  BY DEF Session
<1>2. ("resume" \in Operators /\ Resume) \/ ("skip" \in Operators /\ \E e \in Entries : Skip(e))
  BY <1>1 DEF Operator
<1> QED  BY <1>2, SkipAgrees, ResumeAgrees

LEMMA NextAgrees ==
  ASSUME Session, SessionInv, Next
  PROVE  SessionInv'
<1>1. LineInv'
  BY NextKeeps DEF SessionInv, Agrees, LineInv
<1>2. CASE Worker \/ SearchRejects \/ Prepare
  BY <1>1, <1>2, WorkerAgrees
<1>3. ~LoseIncoming /\ ~SkipIncoming
  BY DEF LoseIncoming, SkipIncoming, Session
<1>4. CASE GuiMayGoOn /\ Callback
  BY <1>1, <1>4, CallbackAgrees
<1>5. CASE TimeoutFires
  BY <1>1, <1>5, TimeoutAgrees
<1>6. CASE Tick
  BY <1>1, <1>6, TickAgrees
<1>7. CASE Operator
  BY <1>1, <1>7, OperatorAgrees
<1>8. CASE CompleteTransition
  BY <1>1, <1>8, CompleteAgrees
<1>9. ASSUME NEW d \in Decks, Crossfade(d) \/ FinishDeck(d) \/ AbortTransition
      PROVE  SessionInv'
  BY <1>1, <1>9, CrossfadeAgrees, FinishAgrees
<1>10. ASSUME AbortTransition
       PROVE  SessionInv'
  <2>1. DeckA \in Decks
    BY DEF Decks
  <2> QED  BY <1>9, <1>10, <2>1
<1>11. ASSUME NEW c \in commits, Commit(c)
       PROVE  SessionInv'
  BY <1>1, <1>11, CommitAgrees
<1> QED  BY <1>2, <1>3, <1>4, <1>5, <1>6, <1>7, <1>8, <1>9, <1>10, <1>11 DEF Next

LEMMA InitAgrees ==
  ASSUME Init
  PROVE  SessionInv
<1>1. Inv(G)
  BY InitKeeps DEF LineInv
<1>2. /\ \A d \in Decks : ctl.deck[d] = EmptyDeck
      /\ ctl.cache = row /\ ctl.busy = FALSE /\ ctl.mix = NoMix /\ commits = {}
      /\ Len(jobs) = 0 /\ Len(events) = 0 /\ timer = NoTimer
      /\ \A x \in Entries : row[x].status = "waiting"
  BY DEF Init
<1>3. Titles(G)
  <2>1. Shows(G)
    BY <1>2, GIs, TwoDecks DEF Shows, DeckShows, EmptyDeck
  <2>2. Rowed(G) /\ Committed(G) /\ Mixed(G) /\ Cached(G)
    BY <1>2, GIs DEF Rowed, Committed, Mixed, Mixing, Cached
  <2> QED  BY <2>1, <2>2 DEF Titles
<1>4. Pipe(G)
  BY <1>2, GIs DEF Pipe, Preparing, Timed, Lined
<1> QED  BY <1>1, <1>3, <1>4 DEF SessionInv, Agrees

\* The inductive invariant of a session, for any queue of titles: it holds of everything the
\* automatic run, the preload pipeline, the crossfade and the operator's skips do.
THEOREM SessionInvariant ==
  ASSUME Session
  PROVE  Spec => []SessionInv
<1>1. Init => SessionInv
  BY InitAgrees
<1>2. SessionInv /\ [Next]_vars => SessionInv'
  <2> SUFFICES ASSUME SessionInv, [Next]_vars
               PROVE  SessionInv'
    OBVIOUS
  <2>1. CASE Next
    BY <2>1, NextAgrees
  <2>2. CASE UNCHANGED vars
    <3>1. G' = G
      BY <2>2 DEF vars, G
    <3> QED  BY <3>1 DEF SessionInv
  <2> QED  BY <2>1, <2>2
<1> QED  BY <1>1, <1>2, PTL DEF Spec

\* An entry marked PREPARING is still prepared by someone: its timeout is set and its generation
\* under way, in every session.
THEOREM PreparingIsNeverOrphaned ==
  ASSUME Session
  PROVE  Spec => []PreparingIsOwned
<1>1. SessionInv => PreparingIsOwned
  BY GIs DEF SessionInv, Agrees, Pipe, Preparing, PreparingIsOwned, Owned
<1> QED  BY <1>1, SessionInvariant, PTL

\* The rows of the queue and the decks agree on every title, in every session: what the preload
\* loaded can be started, no title is on two decks, what is PLAYING is heard or its end is on
\* the way, and no deck is claimed that the queue holds taken.
THEOREM QueueAgreesWithDecks ==
  ASSUME Session
  PROVE  Spec => []QueueAndDecksAgree
<1>1. ASSUME SessionInv
      PROVE  QueueAndDecksAgree
  <2>1. /\ Base(G) /\ Titles(G) /\ Pipe(G) /\ jobs \in Seq(JobRecords) /\ ctl.deck \in [Decks -> DeckStates]
        /\ Len(jobs) \in Nat
    BY WorkerIs, <1>1
  <2>2. \A d \in Decks : DeckShows(G, d) /\ ctl.deck[d] \in DeckStates
    BY <2>1 DEF Titles, Shows
  <2>3. PreparingIsOwned
    BY <1>1, GIs DEF SessionInv, Agrees, Pipe, Preparing, PreparingIsOwned, Owned
  <2>4. PreparedDeckUsable
    <3> SUFFICES ASSUME NEW d \in Decks, ctl.deck[d].phase = "loaded", ctl.deck[d].queue # NoEntry
                 PROVE  row[ctl.deck[d].queue].status = "ready" \/ Owned(ctl.deck[d].queue)
      BY DEF PreparedDeckUsable
    <3>1. row[ctl.deck[d].queue].status \in {"preparing", "ready"} /\ ctl.deck[d].queue \in Entries
      BY <2>2, GIs DEF DeckShows, DeckStates, SomeEntry
    <3> QED  BY <2>3, <3>1 DEF PreparingIsOwned
  <2>5. OneDeckPerEntry
    <3>1. DeckA \in Decks /\ DeckB \in Decks /\ Other(DeckA) = DeckB
      BY DEF Decks, Other
    <3>2. ctl.deck[DeckA].queue # NoEntry => ctl.deck[DeckB].queue # ctl.deck[DeckA].queue
      BY <2>1, <3>1, GIs DEF Titles, Shows
    <3> QED  BY <2>2, <3>1, <3>2, GIs DEF DeckShows, OneDeckPerEntry
  <2>6. PlayingIsHeard
    BY <2>1, GIs DEF Titles, Rowed, OnItsDeck, PlayingIsHeard
  <2>7. DeckFreeInQueueToo
    <3> SUFFICES ASSUME Running("load", "validated"), jobs[1].live, NEW x \in Entries \ {jobs[1].e},
                        row[x].deck = jobs[1].d, row[x].status \in Active
                 PROVE  FALSE
      BY DEF DeckFreeInQueueToo, DeckTaken
    <3>1. jobs # << >> /\ jobs[1].kind = "load"
      BY DEF Running
    <3>2. LoadHolds(G, jobs[1], 1) /\ (row[x].status = "preparing" => x = jobs[1].e)
      BY <1>1, <3>1, LoadHead
    <3> QED  BY <3>1, <3>2, GIs DEF LoadHolds, FreeFor, Active
  <2> QED  BY <2>4, <2>5, <2>6, <2>7 DEF QueueAndDecksAgree
<1> QED  BY <1>1, SessionInvariant, PTL

\* While a deck goes on playing its entry, no job, timer or commit takes the entry out of PLAYING,
\* in every session: what a deck plays is PLAYING in the queue, before the step and after it.
THEOREM HeardTitleStaysPlaying ==
  ASSUME Session
  PROVE  Spec => HeardEntryKept
<1>1. ASSUME SessionInv, [Next]_vars, SessionInv'
      PROVE  [\A d \in Decks : LET k == ctl.deck[d]
                               IN  k.phase = "playing" /\ k.queue # NoEntry /\ ctl'.deck[d] = k
                                     => (row[k.queue].status = "playing" => row'[k.queue].status = "playing")]_vars
  <2>1. \A d \in Decks : DeckShows(G', d)
    BY <1>1 DEF SessionInv, Agrees, Titles, Shows
  <2> QED  BY <2>1, GIs DEF DeckShows
<1> QED  BY <1>1, SessionInvariant, PTL DEF Spec, HeardEntryKept
=============================================================================
