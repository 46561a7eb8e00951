------------------------ MODULE AudioRecoveryProof -------------------------
(***************************************************************************)
(* Proofs about AudioRecovery, for any number of backends, attempts and    *)
(* commands: every lock of the recovery service has a living holder, an    *)
(* emergency title is gated until its start is confirmed, and, as long as  *)
(* releasing a backend is at worst late, no audio player is left behind.   *)
(***************************************************************************)
EXTENDS AudioRecovery, TLAPS, WellFoundedInduction

Models == [title : Titles, playing : BOOLEAN]
SomeBackend == Backends \cup {NoBackend}
SomeDeck == Decks \cup {NoDeck}

\* The steps of a repair between its lock and its end, and all of them.
RepairBody == {"warn", "enter", "create", "media", "commit", "release", "succeed", "succeedPending", "fail"}
RepairPcs == RepairBody \cup {"idle", "assess", "lock", "leave", "report"}
GlobalStart == {"idle", "assess", "lock", "warn", "enter"}
GlobalBody == {"lock", "warn", "enter", "build", "swap", "release", "succeed", "fail"}
GlobalPcs == GlobalBody \cup {"idle", "assess", "leave", "report"}
EmergencyPcs == {"idle", "replace", "prepare", "load", "activate", "confirm", "report"}

States == [system : Systems, health : [Decks -> Healths]]
DeckStates == [model : Models, transitionMuted : BOOLEAN, emergencyMuted : BOOLEAN, backend : Backends]
Services == [lock : [Decks -> {"free", "repair", "global"}], global : BOOLEAN,
             failed : [Decks -> 0..MaxDeckAttempts], failedGlobal : 0..MaxGlobalAttempts,
             active : SUBSET Decks, origin : Systems, pending : BOOLEAN]
Repairs == [pc : RepairPcs, deck : SomeDeck, auto : BOOLEAN, stale : BOOLEAN, skip : BOOLEAN,
            backend : SomeBackend, previous : SomeBackend, model : Models, ok : BOOLEAN]
Globals == [pc : GlobalPcs, held : SUBSET Decks, health : [Decks -> Healths],
            backend : [Decks -> SomeBackend], model : [Decks -> Models], swapped : SUBSET Decks, ok : BOOLEAN]
Emergencies == [thread : [pc : EmergencyPcs, deck : SomeDeck, affected : SomeDeck],
                prepared : SomeDeck, failed : Nat, handover : SomeDeck]
Uis == [running : BOOLEAN, repairing : BOOLEAN, recovering : SUBSET Decks, acting : BOOLEAN,
        requested : BOOLEAN, unreleased : BOOLEAN, validate : BOOLEAN, mode : SomeDeck,
        lostHealth : {<<>>} \cup {<<h>> : h \in [Decks -> Healths]}, todo : [AllCommands -> Nat]]

\* What each part is made of, and what a thread has at hand in each step.
PlayersOK ==
  /\ state \in States /\ deck \in [Decks -> DeckStates]
  /\ open \subseteq Backends /\ late \subseteq [backend : Backends, then : {"close", "run"}]

RepairOK ==
  /\ repair \in Repairs
  /\ repair.pc # "idle" => repair.deck \in Decks
  /\ repair.pc \in {"media", "commit"} => repair.backend \in Backends
  /\ repair.pc = "release" => repair.previous \in Backends
  /\ repair.pc \in RepairBody \cup {"lock"} => service.failed[repair.deck] < MaxDeckAttempts

GlobalOK ==
  /\ global \in Globals
  /\ global.pc \in GlobalBody => service.failedGlobal < MaxGlobalAttempts
  /\ global.pc \in GlobalStart => global.backend = [d \in Decks |-> NoBackend] /\ global.swapped = {}
  /\ global.pc = "build" => global.backend["B"] = NoBackend /\ global.swapped = {}
  /\ global.pc = "swap" => /\ \A d \in Decks : global.backend[d] \in Backends
                           /\ global.swapped \subseteq {"A"}
  /\ global.pc = "release" => /\ "B" \in global.swapped /\ global.backend["B"] \in Backends
                              /\ "A" \in global.swapped => global.backend["A"] \in Backends
                              /\ "A" \notin global.swapped => global.backend["A"] = NoBackend

EmergencyOK ==
  /\ emergency \in Emergencies
  /\ emergency.thread.pc = "replace" => emergency.thread.affected \in Decks
  /\ emergency.thread.pc \in {"load", "confirm"} => emergency.thread.deck \in Decks

Types == PlayersOK /\ service \in Services /\ RepairOK /\ GlobalOK /\ EmergencyOK /\ ui \in Uis

\* One thread of a kind, because the GUI starts no second one; one that rests holds no lock.
Single ==
  /\ repair.pc # "idle" => ui.repairing
  /\ global.pc # "idle" => ui.requested
  /\ global.pc \in {"idle", "assess", "report"} => global.held = {}
  /\ emergency.thread.pc # "idle" => ui.acting

\* Between loading and confirmation the gate of the transition is shut.
GatedUntilConfirmed ==
  emergency.thread.pc \in {"activate", "confirm"} =>
    \A d \in Decks : emergency.prepared = d /\ Title(d) = "emergency" => deck[d].transitionMuted

RecoveryInv == Types /\ Single /\ LocksHaveHolders /\ GatedUntilConfirmed

\* A backend that the global repair built or took out is in its hands from `build` to `release` only.
InHand == IF global.pc \in {"build", "swap", "release", "fail"} THEN Replacements ELSE {}
Accounted(b) == \/ \E d \in Decks : deck[d].backend = b
                \/ b \in HeldByRepair \cup InHand
                \/ Outlasting(b, "close") \in late
AllAccounted == \A b \in open : Accounted(b)
PlayersInv == RecoveryInv /\ AllAccounted
----------------------------------------------------------------------------
(* Ranges, and the parts that a step leaves alone.                         *)

LEMMA Ranges ==
  /\ Backends \in SUBSET Nat /\ NoBackend \notin Backends /\ 1 \in Backends /\ 2 \in Backends
  /\ MaxDeckAttempts \in Nat \ {0} /\ MaxGlobalAttempts \in Nat \ {0}
  /\ NoDeck \notin Decks /\ "A" \in Decks /\ "B" \in Decks
BY RecoveryAssumption DEF NoBackend, NoDeck, Decks

LEMMA Least ==
  ASSUME NEW S \in SUBSET Nat, S # {}
  PROVE  \E i \in S : \A j \in S : i <= j
<1>1. PICK i \in S : \A j \in S : ~ (<<j, i>> \in OpToRel(<, Nat))
  BY NatLessThanWellFounded, WFMin
<1>2. \A j \in S : ~ (j < i)
  BY <1>1 DEF OpToRel
<1> QED  BY <1>2

\* A fresh backend is one that nothing refers to.
LEMMA FreshIsUnused ==
  ASSUME Unused # {}
  PROVE  Fresh \in Unused /\ Fresh \in Backends /\ Fresh # NoBackend
<1>1. Unused \subseteq Backends /\ Unused \in SUBSET Nat
  BY Ranges DEF Unused
<1>2. \E b \in Unused : \A c \in Unused : b <= c
  BY <1>1, Least
<1>3. Fresh \in Unused
  BY <1>2 DEF Fresh
<1> QED  BY <1>1, <1>3, Ranges

LEMMA StateMoves ==
  ASSUME NEW s \in States
  PROVE  /\ \A system \in Systems : To(s, system) \in States
         /\ \A d \in Decks, h \in Healths : Health(s, d, h) \in States
         /\ Warned(s) \in States /\ Degraded(s) \in States /\ Normalized(s) \in States
BY DEF States, To, Health, Warned, Degraded, Normalized, Systems

LEMMA ReusableTyped ==
  ASSUME NEW s \in States, NEW d \in Decks
  PROVE  Reusable(s, d) \in States
<1>1. Health(s, d, "HEALTHY") \in States
  BY StateMoves DEF Healths
<1>2. To(Health(s, d, "HEALTHY"), "NORMAL") \in States
  BY <1>1, StateMoves DEF Systems
<1> QED  BY <1>1, <1>2 DEF Reusable

LEMMA SomeWords ==
  /\ "HEALTHY" \in Healths /\ "UNSURE" \in Healths /\ "FAILED" \in Healths
  /\ {"NORMAL", "DEGRADED", "EMERGENCY_ACTIVE", "RECOVERING", "RECOVERY_FAILED"} \subseteq Systems
BY DEF Healths, Systems

\* What the steps do to the decks, and that titles, gates and backends are what they were elsewhere.
Same(d, e) == e.model.title = d.model.title /\ e.transitionMuted = d.transitionMuted /\ e.backend = d.backend

LEMMA DeckMoves ==
  ASSUME NEW dk \in [Decks -> DeckStates], NEW d \in Decks, NEW on \in BOOLEAN
  PROVE  /\ Mute(dk, d, on) \in [Decks -> DeckStates] /\ \A e \in Decks : Same(dk[e], Mute(dk, d, on)[e])
         /\ MuteBoth(dk, on) \in [Decks -> DeckStates] /\ \A e \in Decks : Same(dk[e], MuteBoth(dk, on)[e])
         /\ Play(dk, d, on) \in [Decks -> DeckStates] /\ \A e \in Decks : Same(dk[e], Play(dk, d, on)[e])
         /\ Gated(dk, d) \in [Decks -> DeckStates] /\ Gated(dk, d)[d].transitionMuted
         /\ Gated(dk, d)[d].model = dk[d].model /\ Gated(dk, d)[d].backend = dk[d].backend
         /\ \A e \in Decks : e # d => Gated(dk, d)[e] = dk[e]
<1>1. Mute(dk, d, on) \in [Decks -> DeckStates] /\ \A e \in Decks : Same(dk[e], Mute(dk, d, on)[e])
  BY DEF Mute, Same, DeckStates
<1>2. MuteBoth(dk, on) \in [Decks -> DeckStates] /\ \A e \in Decks : Same(dk[e], MuteBoth(dk, on)[e])
  BY DEF MuteBoth, Same, DeckStates
<1>3. Play(dk, d, on) \in [Decks -> DeckStates] /\ \A e \in Decks : Same(dk[e], Play(dk, d, on)[e])
  BY DEF Play, Same, DeckStates, Models
<1>4. /\ Gated(dk, d) \in [Decks -> DeckStates] /\ Gated(dk, d)[d].transitionMuted
      /\ Gated(dk, d)[d].model = dk[d].model /\ Gated(dk, d)[d].backend = dk[d].backend
      /\ \A e \in Decks : e # d => Gated(dk, d)[e] = dk[e]
  BY DEF Gated, DeckStates
<1> QED  BY <1>1, <1>2, <1>3, <1>4

LEMMA AdoptedTyped ==
  ASSUME NEW dk \in [Decks -> DeckStates], NEW d \in Decks, NEW b \in Backends, NEW m \in Models
  PROVE  /\ Adopted(dk, d, b, m) \in [Decks -> DeckStates]
         /\ Adopted(dk, d, b, m)[d].transitionMuted /\ Adopted(dk, d, b, m)[d].backend = b
         /\ \A e \in Decks : e # d => Adopted(dk, d, b, m)[e] = dk[e]
BY DEF Adopted, DeckStates

LEMMA LoadedTyped ==
  ASSUME NEW dk \in [Decks -> DeckStates], NEW d \in Decks, NEW t \in Titles
  PROVE  /\ Loaded(dk, d, t) \in [Decks -> DeckStates]
         /\ Loaded(dk, d, t)[d].model.title = t /\ Loaded(dk, d, t)[d].backend = dk[d].backend
         /\ \A e \in Decks : e # d => Loaded(dk, d, t)[e] = dk[e]
BY DEF Loaded, Model, DeckStates, Models

----------------------------------------------------------------------------
(* The thread of an isolated repair.                                       *)

\* What the repair has in hand after a step; its deck stays.
Hands(pc, backend, previous) ==
  /\ repair' \in Repairs /\ repair'.deck = repair.deck
  /\ repair'.pc = pc /\ repair'.backend = backend /\ repair'.previous = previous

LEMMA RepairGoes ==
  ASSUME RepairOK, NEW pc \in RepairPcs, RepairAt(pc)
  PROVE  Hands(pc, repair.backend, repair.previous)
BY DEF RepairOK, RepairAt, Hands, Repairs

LEMMA RepairRests ==
  /\ RestingRepair \in Repairs /\ RestingRepair.pc = "idle"
  /\ RestingRepair.backend = NoBackend /\ RestingRepair.previous = NoBackend
BY DEF RestingRepair, Repairs, RepairPcs, EmptyModel, Model, Models, Titles, Nothing, SomeDeck, SomeBackend

LEMMA DeckHasBackend ==
  ASSUME PlayersOK, NEW d \in Decks
  PROVE  deck[d].backend \in Backends /\ deck[d].model \in Models /\ deck[d] \in DeckStates
BY DEF PlayersOK, DeckStates

LEMMA RepairAssessKeeps ==
  ASSUME RecoveryInv, RepairAssess
  PROVE  RecoveryInv'
<1>1. PICK pc \in {"leave", "lock"} : RepairAt(pc) /\ (pc = "lock" => ~AttemptsExhausted)
  BY DEF RepairAssess
<1>2. Hands(pc, repair.backend, repair.previous)
  BY <1>1, RepairGoes DEF RecoveryInv, Types, RepairPcs, RepairBody
<1>3. repair.pc = "assess" /\ repair.deck \in Decks /\ service.failed[repair.deck] \in Nat
  BY DEF RepairAssess, Repairing, RecoveryInv, Types, RepairOK, Services
<1>4. Types'
  BY <1>1, <1>2, <1>3, Ranges
     DEF RepairAssess, RecoveryInv, Types, PlayersOK, RepairOK, GlobalOK, EmergencyOK, Hands, AttemptsExhausted, RepairBody
<1>5. Single' /\ LocksHaveHolders' /\ GatedUntilConfirmed'
  BY <1>2, <1>3 DEF RepairAssess, RecoveryInv, Single, LocksHaveHolders, GatedUntilConfirmed, Title, Hands
<1> QED  BY <1>4, <1>5 DEF RecoveryInv

LEMMA RepairLockKeeps ==
  ASSUME RecoveryInv, RepairLock
  PROVE  RecoveryInv'
<1>1. repair.pc = "lock" /\ repair.deck \in Decks
  BY DEF RepairLock, Repairing, RecoveryInv, Types, RepairOK
<1>2. CASE service.lock[repair.deck] = "free"
  <2>1. Hands("warn", repair.backend, repair.previous)
    BY <1>2, RepairGoes DEF RepairLock, RecoveryInv, Types, RepairPcs, RepairBody
  <2>2. /\ service' \in Services /\ service'.failed = service.failed /\ service'.failedGlobal = service.failedGlobal
        /\ service'.global = service.global /\ service'.lock = [service.lock EXCEPT ![repair.deck] = "repair"]
    BY <1>1, <1>2 DEF RepairLock, RecoveryInv, Types, Services
  <2>3. Types'
    BY <1>1, <2>1, <2>2
       DEF RepairLock, RecoveryInv, Types, PlayersOK, RepairOK, GlobalOK, EmergencyOK, Hands, RepairBody
  <2>4. Single' /\ LocksHaveHolders' /\ GatedUntilConfirmed'
    BY <1>1, <2>1, <2>2
       DEF RepairLock, RecoveryInv, Types, Services, Single, LocksHaveHolders, GatedUntilConfirmed, Title, Hands
  <2> QED  BY <2>3, <2>4 DEF RecoveryInv
<1>3. CASE service.lock[repair.deck] # "free"
  <2>1. Hands("leave", repair.backend, repair.previous)
    BY <1>3, RepairGoes DEF RepairLock, RecoveryInv, Types, RepairPcs, RepairBody
  <2>2. Types'
    BY <1>1, <1>3, <2>1 DEF RepairLock, RecoveryInv, Types, PlayersOK, RepairOK, GlobalOK, EmergencyOK, Hands, RepairBody
  <2>3. Single' /\ LocksHaveHolders' /\ GatedUntilConfirmed'
    BY <1>1, <1>3, <2>1 DEF RepairLock, RecoveryInv, Single, LocksHaveHolders, GatedUntilConfirmed, Title, Hands
  <2> QED  BY <2>2, <2>3 DEF RecoveryInv
<1> QED  BY <1>2, <1>3

LEMMA RepairWarnKeeps ==
  ASSUME RecoveryInv, RepairWarn
  PROVE  RecoveryInv'
<1>1. repair.pc = "warn" /\ repair.deck \in Decks
  BY DEF RepairWarn, Repairing, RecoveryInv, Types, RepairOK
<1>2. Hands("enter", repair.backend, repair.previous)
  BY RepairGoes DEF RepairWarn, RecoveryInv, Types, RepairPcs, RepairBody
<1>3. /\ service' \in Services /\ service'.failed = service.failed /\ service'.failedGlobal = service.failedGlobal
      /\ service'.global = service.global /\ service'.lock = service.lock
  BY DEF RepairWarn, RecoveryInv, Types, PlayersOK, States, Services
<1>4. Types'
  BY <1>1, <1>2, <1>3, StateMoves
     DEF RepairWarn, RecoveryInv, Types, PlayersOK, RepairOK, GlobalOK, EmergencyOK, Hands, RepairBody
<1>5. Single' /\ LocksHaveHolders' /\ GatedUntilConfirmed'
  BY <1>1, <1>2, <1>3 DEF RepairWarn, RecoveryInv, Single, LocksHaveHolders, GatedUntilConfirmed, Title, Hands
<1> QED  BY <1>4, <1>5 DEF RecoveryInv

\* A repair that ends: the thread rests, and its deck's lock, if changed, is free.
LEMMA RepairEndsKeeps ==
  ASSUME RecoveryInv, repair.pc # "idle", PlayersOK', repair' = RestingRepair,
         service' \in Services, service'.global = service.global, service'.failedGlobal = service.failedGlobal,
         service'.lock = [service.lock EXCEPT ![repair.deck] = "free"],
         UNCHANGED <<deck, global, emergency, ui>>
  PROVE  RecoveryInv'
<1>1. repair.deck \in Decks
  BY DEF RecoveryInv, Types, RepairOK
<1>2. Types'
  BY RepairRests DEF RecoveryInv, Types, RepairOK, GlobalOK, EmergencyOK, RepairBody
<1>3. Single' /\ LocksHaveHolders' /\ GatedUntilConfirmed'
  BY <1>1, RepairRests
     DEF RecoveryInv, Types, Services, Single, LocksHaveHolders, GatedUntilConfirmed, Title
<1> QED  BY <1>2, <1>3 DEF RecoveryInv

LEMMA RepairEnterKeeps ==
  ASSUME RecoveryInv, RepairEnter
  PROVE  RecoveryInv'
<1>1. repair.pc = "enter" /\ repair.deck \in Decks
  BY DEF RepairEnter, Repairing, RecoveryInv, Types, RepairOK
<1>2. CASE Permitted("RECOVERING")
  <2>1. Hands("create", repair.backend, repair.previous)
    BY <1>2, RepairGoes DEF RepairEnter, RecoveryInv, Types, RepairPcs, RepairBody
  <2>2. /\ service' \in Services /\ service'.failed = service.failed /\ service'.failedGlobal = service.failedGlobal
        /\ service'.global = service.global /\ service'.lock = service.lock
    BY <1>1, <1>2 DEF RepairEnter, RecoveryInv, Types, Services
  <2>3. state' \in States
    <3>1. To(state, "RECOVERING") \in States
      BY StateMoves, SomeWords DEF RecoveryInv, Types, PlayersOK
    <3> QED  BY <1>1, <1>2, <3>1, StateMoves, SomeWords DEF RepairEnter
  <2>4. Types'
    BY <1>1, <2>1, <2>2, <2>3
       DEF RepairEnter, RecoveryInv, Types, PlayersOK, RepairOK, GlobalOK, EmergencyOK, Hands, RepairBody
  <2>5. Single' /\ LocksHaveHolders' /\ GatedUntilConfirmed'
    BY <1>1, <2>1, <2>2 DEF RepairEnter, RecoveryInv, Single, LocksHaveHolders, GatedUntilConfirmed, Title, Hands
  <2> QED  BY <2>4, <2>5 DEF RecoveryInv
<1>3. CASE ~Permitted("RECOVERING")
  <2>1. /\ service' \in Services /\ service'.failedGlobal = service.failedGlobal
        /\ service'.global = service.global /\ service'.lock = [service.lock EXCEPT ![repair.deck] = "free"]
    BY <1>1, <1>3 DEF RepairEnter, RepairDies, RecoveryInv, Types, Services
  <2> QED  BY <1>1, <1>3, <2>1, RepairEndsKeeps DEF RepairEnter, RepairDies, RecoveryInv, Types, PlayersOK
<1> QED  BY <1>2, <1>3

\* The work between the lock and the end: backends come and go, a deck is at most silenced.
LEMMA RepairWorkKeeps ==
  ASSUME RecoveryInv, repair.pc \in RepairBody, NEW pc \in RepairBody, NEW backend, NEW previous,
         Hands(pc, backend, previous), PlayersOK',
         pc \in {"media", "commit"} => backend \in Backends, pc = "release" => previous \in Backends,
         \A d \in Decks : deck'[d] = deck[d] \/ deck'[d].transitionMuted,
         UNCHANGED <<service, global, emergency, ui>>
  PROVE  RecoveryInv'
<1>1. Types'
  BY DEF RecoveryInv, Types, RepairOK, GlobalOK, EmergencyOK, Hands, RepairBody
<1>2. Single' /\ LocksHaveHolders'
  BY DEF RecoveryInv, Single, LocksHaveHolders, Hands, RepairBody
<1>3. GatedUntilConfirmed'
  BY DEF RecoveryInv, GatedUntilConfirmed, Title
<1> QED  BY <1>1, <1>2, <1>3 DEF RecoveryInv

\* The ways a replacement is made: which backend is in hand afterwards, and what is open.
LEMMA CreateCases ==
  ASSUME RecoveryInv, RepairCreate
  PROVE  /\ repair.pc = "create" /\ Fresh \in Unused /\ Fresh \in Backends
         /\ \/ /\ Hands("media", Fresh, repair.previous) /\ open' = open \cup {Fresh} /\ late' = late
            \/ /\ Hands("fail", repair.backend, repair.previous) /\ open' = open \cup {Fresh}
               /\ late' = late \cup {Outlasting(Fresh, "close")}
            \/ Hands("fail", repair.backend, repair.previous) /\ UNCHANGED <<open, late>>
            \/ Hands("fail", Fresh, repair.previous) /\ open' = open \cup {Fresh} /\ late' = late
<1>1. repair.pc = "create" /\ repair.deck \in Decks /\ Fresh \in Unused /\ Fresh \in Backends
  BY FreshIsUnused DEF RepairCreate, Repairing, RecoveryInv, Types, RepairOK
<1>2. EmptyModel \in Models /\ deck[repair.deck].model \in Models
  BY <1>1, DeckHasBackend DEF EmptyModel, Model, Models, Titles, Nothing, RecoveryInv, Types
<1> DEFINE model == IF repair.skip THEN EmptyModel ELSE deck[repair.deck].model
<1>3. model \in Models
  BY <1>2
<1> HIDE DEF model
<1>4. ASSUME repair' = [repair EXCEPT !.pc = "media", !.backend = Fresh, !.model = model]
      PROVE  Hands("media", Fresh, repair.previous)
  BY <1>1, <1>3, <1>4 DEF Hands, RecoveryInv, Types, RepairOK, Repairs, RepairPcs, RepairBody, SomeBackend
<1>5. ASSUME repair' = [repair EXCEPT !.pc = "fail", !.backend = Fresh]
      PROVE  Hands("fail", Fresh, repair.previous)
  BY <1>1, <1>5 DEF Hands, RecoveryInv, Types, RepairOK, Repairs, RepairPcs, RepairBody, SomeBackend
<1>6. ASSUME RepairAt("fail") PROVE Hands("fail", repair.backend, repair.previous)
  BY <1>6, RepairGoes DEF RecoveryInv, Types, RepairPcs, RepairBody
<1> QED  BY <1>1, <1>4, <1>5, <1>6 DEF RepairCreate, CleanedUpLate, model

LEMMA OutlastingTyped ==
  ASSUME NEW b \in Backends, NEW then \in {"close", "run"}
  PROVE  Outlasting(b, then) \in [backend : Backends, then : {"close", "run"}]
BY DEF Outlasting

LEMMA RepairCreateKeeps ==
  ASSUME RecoveryInv, RepairCreate
  PROVE  RecoveryInv'
<1>1. PlayersOK'
  BY CreateCases, OutlastingTyped DEF RepairCreate, RecoveryInv, Types, PlayersOK
<1>2. UNCHANGED <<deck, service, global, emergency, ui>>
  BY DEF RepairCreate
<1> QED  BY <1>1, <1>2, CreateCases, RepairWorkKeeps DEF RepairBody

LEMMA MediaCases ==
  ASSUME RecoveryInv, RepairMedia
  PROVE  /\ repair.pc = "media" /\ repair.backend \in Backends
         /\ \/ \E pc \in {"commit", "fail"} : Hands(pc, repair.backend, repair.previous) /\ late' = late
            \/ Hands("fail", NoBackend, repair.previous) /\ late' = late \cup {Outlasting(repair.backend, "close")}
<1>1. repair.pc = "media" /\ repair.backend \in Backends
  BY DEF RepairMedia, Repairing, RecoveryInv, Types, RepairOK
<1>2. ASSUME NEW pc \in {"commit", "fail"}, RepairAt(pc) PROVE Hands(pc, repair.backend, repair.previous)
  BY <1>2, RepairGoes DEF RecoveryInv, Types, RepairPcs, RepairBody
<1>3. ASSUME repair' = [repair EXCEPT !.pc = "fail", !.backend = NoBackend]
      PROVE  Hands("fail", NoBackend, repair.previous)
  BY <1>1, <1>3 DEF Hands, RecoveryInv, Types, RepairOK, Repairs, RepairPcs, RepairBody, SomeBackend
<1> QED  BY <1>1, <1>2, <1>3 DEF RepairMedia, CleanedUpLate

LEMMA RepairMediaKeeps ==
  ASSUME RecoveryInv, RepairMedia
  PROVE  RecoveryInv'
<1>1. PlayersOK'
  BY MediaCases, OutlastingTyped DEF RepairMedia, RecoveryInv, Types, PlayersOK
<1>2. UNCHANGED <<deck, service, global, emergency, ui>>
  BY DEF RepairMedia
<1> QED  BY <1>1, <1>2, MediaCases, RepairWorkKeeps DEF RepairBody

LEMMA CommitCase ==
  ASSUME RecoveryInv, RepairCommit
  PROVE  /\ repair.pc = "commit" /\ repair.deck \in Decks /\ repair.backend \in Backends
         /\ Hands("release", repair.backend, deck[repair.deck].backend) /\ deck[repair.deck].backend \in Backends
         /\ deck' \in [Decks -> DeckStates]
         /\ deck'[repair.deck].transitionMuted /\ deck'[repair.deck].backend = repair.backend
         /\ \A e \in Decks : e # repair.deck => deck'[e] = deck[e]
<1>1. repair.pc = "commit" /\ repair.deck \in Decks /\ repair.backend \in Backends /\ repair.model \in Models
  BY DEF RepairCommit, Repairing, RecoveryInv, Types, RepairOK, Repairs
<1>2. deck[repair.deck].backend \in Backends
  BY <1>1, DeckHasBackend DEF RecoveryInv, Types
<1>3. Hands("release", repair.backend, deck[repair.deck].backend)
  BY <1>1, <1>2 DEF RepairCommit, Hands, RecoveryInv, Types, RepairOK, Repairs, RepairPcs, RepairBody, SomeBackend
<1> QED  BY <1>1, <1>2, <1>3, AdoptedTyped DEF RepairCommit, RecoveryInv, Types, PlayersOK

LEMMA RepairCommitKeeps ==
  ASSUME RecoveryInv, RepairCommit
  PROVE  RecoveryInv'
<1>1. PlayersOK'
  BY CommitCase DEF RepairCommit, RecoveryInv, Types, PlayersOK
<1>2. UNCHANGED <<service, global, emergency, ui>>
  BY DEF RepairCommit
<1> QED  BY <1>1, <1>2, CommitCase, RepairWorkKeeps DEF RepairBody

LEMMA RepairReleaseKeeps ==
  ASSUME RecoveryInv, RepairRelease
  PROVE  RecoveryInv'
<1>1. repair.pc = "release" /\ repair.previous \in Backends
  BY DEF RepairRelease, Repairing, RecoveryInv, Types, RepairOK
<1>2. PICK pc \in {"succeed", "succeedPending", "fail"} : RepairAt(pc)
  BY DEF RepairRelease
<1>3. Hands(pc, repair.backend, repair.previous)
  BY <1>2, RepairGoes DEF RecoveryInv, Types, RepairPcs, RepairBody
<1>4. PlayersOK'
  BY <1>1, OutlastingTyped DEF RepairRelease, Released, ReleasedLate, NotReleased, RecoveryInv, Types, PlayersOK
<1>5. UNCHANGED <<deck, service, global, emergency, ui>>
  BY DEF RepairRelease
<1> QED  BY <1>1, <1>3, <1>4, <1>5, RepairWorkKeeps DEF RepairBody

LEMMA CompletedTyped ==
  ASSUME service \in Services, repair.deck \in Decks, NEW n \in 0..MaxDeckAttempts
  PROVE  /\ Completed(n) \in Services /\ Completed(n).lock = service.lock /\ Completed(n).global = service.global
         /\ Completed(n).failedGlobal = service.failedGlobal
         /\ Completed(n).failed = [service.failed EXCEPT ![repair.deck] = n]
         /\ [Completed(n) EXCEPT !.lock[repair.deck] = "free"] \in Services
         /\ [Completed(n) EXCEPT !.lock[repair.deck] = "free"].lock = [service.lock EXCEPT ![repair.deck] = "free"]
         /\ [Completed(n) EXCEPT !.lock[repair.deck] = "free"].global = service.global
         /\ [Completed(n) EXCEPT !.lock[repair.deck] = "free"].failedGlobal = service.failedGlobal
<1> DEFINE c == Completed(n)
<1>1. /\ c \in Services /\ c.lock = service.lock /\ c.global = service.global
      /\ c.failedGlobal = service.failedGlobal /\ c.failed = [service.failed EXCEPT ![repair.deck] = n]
  BY DEF Completed, Services
<1> HIDE DEF c
<1>2. /\ [c EXCEPT !.lock[repair.deck] = "free"] \in Services
      /\ [c EXCEPT !.lock[repair.deck] = "free"].lock = [service.lock EXCEPT ![repair.deck] = "free"]
      /\ [c EXCEPT !.lock[repair.deck] = "free"].global = service.global
      /\ [c EXCEPT !.lock[repair.deck] = "free"].failedGlobal = service.failedGlobal
  BY <1>1 DEF Services
<1> QED  BY <1>1, <1>2 DEF c

\* A repair that has told the service how it ended, and leaves.
LEMMA RepairCompletesKeeps ==
  ASSUME RecoveryInv, repair.pc \in RepairBody, NEW pc \in {"leave", "fail"},
         Hands(pc, repair.backend, repair.previous), PlayersOK', NEW n \in 0..MaxDeckAttempts,
         service' = Completed(n), pc = "fail" => n < MaxDeckAttempts,
         UNCHANGED <<deck, global, emergency, ui>>
  PROVE  RecoveryInv'
<1>1. repair.deck \in Decks /\ service \in Services
  BY DEF RecoveryInv, Types, RepairOK, RepairBody
<1>2. service' \in Services /\ service'.failed[repair.deck] = n /\ service'.failedGlobal = service.failedGlobal
  <2>1. /\ service' \in Services /\ service'.failed = [service.failed EXCEPT ![repair.deck] = n]
        /\ service'.failedGlobal = service.failedGlobal
    BY <1>1, CompletedTyped
  <2>2. service.failed \in [Decks -> 0..MaxDeckAttempts]
    BY <1>1 DEF Services
  <2> QED  BY <1>1, <2>1, <2>2
<1>3. Types'
  BY <1>1, <1>2 DEF RecoveryInv, Types, RepairOK, GlobalOK, EmergencyOK, Hands, RepairBody
<1>4. Single' /\ LocksHaveHolders' /\ GatedUntilConfirmed'
  BY <1>1, CompletedTyped
     DEF RecoveryInv, Single, LocksHaveHolders, GatedUntilConfirmed, Title, Hands, RepairBody
<1> QED  BY <1>3, <1>4 DEF RecoveryInv

LEMMA RepairSucceedKeeps ==
  ASSUME RecoveryInv, RepairSucceed
  PROVE  RecoveryInv'
<1>1. /\ repair.pc \in RepairBody /\ repair.deck \in Decks /\ service \in Services
      /\ 0 \in 0..MaxDeckAttempts /\ service.failed[repair.deck] \in 0..MaxDeckAttempts
      /\ service.failed[repair.deck] < MaxDeckAttempts
  BY Ranges DEF RepairSucceed, RecoveryInv, Types, RepairOK, RepairBody, Services
<1> DEFINE healthy == Health(state, repair.deck, "HEALTHY")
<1>2. healthy \in States /\ \A system \in Systems : To(healthy, system) \in States
  BY <1>1, StateMoves, SomeWords DEF RecoveryInv, Types, PlayersOK
<1>3. Completion(TRUE) \in Systems
  BY SomeWords DEF Completion
<1>4. PlayersOK'
  BY <1>2, <1>3 DEF RepairSucceed, RecoveryInv, Types, PlayersOK
<1> HIDE DEF healthy
<1>5. UNCHANGED <<deck, global, emergency, ui>>
  BY DEF RepairSucceed
<1>6. CASE /\ service' = Completed(0) /\ repair' = [repair EXCEPT !.pc = "leave", !.ok = TRUE]
  <2>1. Hands("leave", repair.backend, repair.previous)
    BY <1>6 DEF Hands, RecoveryInv, Types, RepairOK, Repairs, RepairPcs, RepairBody
  <2> QED  BY <1>1, <1>4, <1>5, <1>6, <2>1, RepairCompletesKeeps
<1>7. CASE service' = [Completed(0) EXCEPT !.lock[repair.deck] = "free"] /\ repair' = RestingRepair
  BY <1>1, <1>4, <1>5, <1>7, CompletedTyped, RepairEndsKeeps DEF RepairBody
<1>8. CASE service' = Completed(service.failed[repair.deck]) /\ RepairAt("fail")
  <2>1. Hands("fail", repair.backend, repair.previous)
    BY <1>8, RepairGoes DEF RecoveryInv, Types, RepairPcs, RepairBody
  <2> QED  BY <1>1, <1>4, <1>5, <1>8, <2>1, RepairCompletesKeeps
<1> QED  BY <1>6, <1>7, <1>8 DEF RepairSucceed

LEMMA RepairFailKeeps ==
  ASSUME RecoveryInv, RepairFail
  PROVE  RecoveryInv'
<1> DEFINE n == service.failed[repair.deck] + 1
<1>1. /\ repair.pc \in RepairBody /\ repair.deck \in Decks /\ service \in Services /\ n \in 0..MaxDeckAttempts
  BY Ranges DEF RepairFail, Repairing, RecoveryInv, Types, RepairOK, RepairBody, Services
<1>2. PlayersOK'
  <2>1. Health(state, repair.deck, "FAILED") \in States
    BY <1>1, StateMoves, SomeWords DEF RecoveryInv, Types, PlayersOK
  <2>2. To(Health(state, repair.deck, "FAILED"), "RECOVERY_FAILED") \in States
    BY <2>1, StateMoves, SomeWords
  <2>3. open' \subseteq Backends
    BY DEF RepairFail, RecoveryInv, Types, PlayersOK
  <2> QED  BY <2>1, <2>2, <2>3 DEF RepairFail, RecoveryInv, Types, PlayersOK
<1>3. UNCHANGED <<deck, global, emergency, ui>>
  BY DEF RepairFail
<1>4. CASE service' = Completed(n) /\ RepairAt("leave")
  <2>1. Hands("leave", repair.backend, repair.previous)
    BY <1>4, RepairGoes DEF RecoveryInv, Types, RepairPcs, RepairBody
  <2> QED  BY <1>1, <1>2, <1>3, <1>4, <2>1, RepairCompletesKeeps
<1>5. CASE service' = [Completed(n) EXCEPT !.lock[repair.deck] = "free"] /\ repair' = RestingRepair
  BY <1>1, <1>2, <1>3, <1>5, CompletedTyped, RepairEndsKeeps DEF RepairBody
<1> QED  BY <1>4, <1>5 DEF RepairFail

LEMMA RepairLeaveKeeps ==
  ASSUME RecoveryInv, RepairLeave
  PROVE  RecoveryInv'
<1>1. repair.pc = "leave" /\ repair.deck \in Decks
  BY DEF RepairLeave, Repairing, RecoveryInv, Types, RepairOK
<1>2. Hands("report", repair.backend, repair.previous)
  BY RepairGoes DEF RepairLeave, RecoveryInv, Types, RepairPcs, RepairBody
<1>3. /\ service' \in Services /\ service'.failed = service.failed /\ service'.failedGlobal = service.failedGlobal
      /\ service'.global = service.global
      /\ service'.lock \in {service.lock, [service.lock EXCEPT ![repair.deck] = "free"]}
      /\ service'.lock[repair.deck] # "repair"
  BY <1>1 DEF RepairLeave, RecoveryInv, Types, Services
<1>4. emergency' \in Emergencies /\ emergency'.thread = emergency.thread /\ emergency'.prepared = NoDeck
  BY DEF RepairLeave, RecoveryInv, Types, EmergencyOK, Emergencies, SomeDeck
<1>5. Types'
  BY <1>1, <1>2, <1>3, <1>4
     DEF RepairLeave, RecoveryInv, Types, PlayersOK, RepairOK, GlobalOK, EmergencyOK, Hands, RepairBody
<1>6. Single' /\ LocksHaveHolders' /\ GatedUntilConfirmed'
  BY <1>1, <1>2, <1>3, <1>4, Ranges
     DEF RepairLeave, RecoveryInv, Types, Services, Single, LocksHaveHolders, GatedUntilConfirmed, Title, Hands
<1> QED  BY <1>5, <1>6 DEF RecoveryInv

LEMMA RepairThreadKeeps ==
  ASSUME RecoveryInv, RepairThread
  PROVE  RecoveryInv'
BY RepairAssessKeeps, RepairLockKeeps, RepairWarnKeeps, RepairEnterKeeps, RepairCreateKeeps, RepairMediaKeeps,
   RepairCommitKeeps, RepairReleaseKeeps, RepairSucceedKeeps, RepairFailKeeps, RepairLeaveKeeps
   DEF RepairThread
----------------------------------------------------------------------------
(* The thread of the global repair.                                        *)

LEMMA GlobalGoes ==
  ASSUME GlobalOK, NEW pc \in GlobalPcs, GlobalAt(pc)
  PROVE  /\ global' \in Globals /\ global'.pc = pc /\ global'.held = global.held
         /\ global'.backend = global.backend /\ global'.swapped = global.swapped
BY DEF GlobalOK, GlobalAt, Globals

LEMMA GlobalRests ==
  ASSUME NEW pc \in {"idle", "assess", "report"}, NEW ok \in BOOLEAN
  PROVE  LET g == [[RestingGlobal EXCEPT !.pc = pc] EXCEPT !.ok = ok] IN
         /\ g \in Globals /\ g.pc = pc /\ g.held = {} /\ g.swapped = {} /\ g.backend = [d \in Decks |-> NoBackend]
<1> DEFINE r == RestingGlobal
<1>1. r \in Globals /\ r.held = {} /\ r.swapped = {} /\ r.backend = [d \in Decks |-> NoBackend]
  BY DEF RestingGlobal, Globals, GlobalPcs, EmptyModel, Model, Models, Titles, Nothing, Healths, SomeBackend
<1> HIDE DEF r
<1> QED  BY <1>1 DEF r, Globals, GlobalPcs

\* The thread and the locks it holds: what the invariant asks of a step of it.
LEMMA GlobalStepKeeps ==
  ASSUME RecoveryInv, global.pc # "idle", PlayersOK', GlobalOK', service' \in Services,
         service'.failed = service.failed,
         \A d \in Decks : service'.lock[d] \in {"free", service.lock[d]} \/ service'.lock[d] = "global",
         \A d \in Decks : service'.lock[d] = "global" => d \in global'.held,
         service'.global => global'.pc \notin {"idle", "assess", "report"},
         global'.pc \in {"idle", "assess", "report"} => global'.held = {},
         \A d \in Decks : deck'[d] = deck[d] \/ deck'[d].transitionMuted,
         UNCHANGED <<repair, ui>>,
         emergency' = emergency \/ emergency' = [emergency EXCEPT !.prepared = NoDeck]
  PROVE  RecoveryInv'
<1>1. /\ emergency' \in Emergencies /\ emergency'.thread = emergency.thread
      /\ emergency'.prepared \in {emergency.prepared, NoDeck}
  BY DEF RecoveryInv, Types, EmergencyOK, Emergencies, SomeDeck
<1>2. Types'
  BY <1>1 DEF RecoveryInv, Types, RepairOK, EmergencyOK
<1>3. Single'
  BY <1>1 DEF RecoveryInv, Single
<1>4. LocksHaveHolders'
  BY DEF RecoveryInv, LocksHaveHolders
<1>5. GatedUntilConfirmed'
  BY <1>1, Ranges DEF RecoveryInv, GatedUntilConfirmed, Title
<1> QED  BY <1>2, <1>3, <1>4, <1>5 DEF RecoveryInv

LEMMA UnlockedTyped ==
  ASSUME RecoveryInv
  PROVE  /\ Unlocked(global.held) \in Services
         /\ Unlocked(global.held).failed = service.failed /\ Unlocked(global.held).global = FALSE
         /\ Unlocked(global.held).failedGlobal = service.failedGlobal
         /\ \A d \in Decks : /\ Unlocked(global.held).lock[d] \in {"free", service.lock[d]}
                             /\ Unlocked(global.held).lock[d] # "global"
BY DEF Unlocked, RecoveryInv, Types, Services, LocksHaveHolders

\* How often the global repair has failed, one more or none again.
LEMMA FailedGlobal ==
  ASSUME NEW s \in Services, NEW n \in 0..MaxGlobalAttempts
  PROVE  LET t == [s EXCEPT !.failedGlobal = n] IN
         t \in Services /\ t.failed = s.failed /\ t.lock = s.lock /\ t.global = s.global /\ t.failedGlobal = n
BY DEF Services

LEMMA GlobalAssessKeeps ==
  ASSUME RecoveryInv, GlobalAssess
  PROVE  RecoveryInv'
<1>1. global.pc = "assess" /\ global.held = {}
  BY DEF GlobalAssess, Globally, RecoveryInv, Single
<1>2. service.failedGlobal \in Nat /\ service \in Services
  BY DEF RecoveryInv, Types, Services
<1>3. PICK pc \in {"leave", "lock"} : GlobalAt(pc) /\ (pc = "lock" => service.failedGlobal < MaxGlobalAttempts)
  BY <1>2, Ranges DEF GlobalAssess
<1>4. /\ global' \in Globals /\ global'.pc = pc /\ global'.held = {}
      /\ global'.backend = global.backend /\ global'.swapped = global.swapped
  BY <1>1, <1>3, GlobalGoes DEF RecoveryInv, Types, GlobalPcs, GlobalBody
<1>5. /\ service' \in Services /\ service'.failed = service.failed /\ service'.failedGlobal = service.failedGlobal
      /\ service'.lock = service.lock
  <2>1. service' = service \/ service' = [service EXCEPT !.global = TRUE]
    BY DEF GlobalAssess
  <2> QED  BY <1>2, <2>1 DEF Services
<1>6. GlobalOK'
  BY <1>1, <1>3, <1>4, <1>5 DEF RecoveryInv, Types, GlobalOK, GlobalStart, GlobalBody
<1>7. \A d \in Decks : service'.lock[d] # "global"
  BY <1>1, <1>5 DEF RecoveryInv, LocksHaveHolders
<1> QED
  BY <1>1, <1>4, <1>5, <1>6, <1>7, GlobalStepKeeps DEF GlobalAssess, RecoveryInv, Types, PlayersOK

LEMMA GlobalLockKeeps ==
  ASSUME RecoveryInv, GlobalLock
  PROVE  RecoveryInv'
<1>1. global.pc = "lock"
  BY DEF GlobalLock, Globally
<1>2. CASE service' = service /\ \E pc \in {"warn", "leave"} : GlobalAt(pc)
  <2>1. PICK pc \in {"warn", "leave"} : GlobalAt(pc)
    BY <1>2
  <2>2. /\ global' \in Globals /\ global'.pc = pc /\ global'.held = global.held
        /\ global'.backend = global.backend /\ global'.swapped = global.swapped
    BY <2>1, GlobalGoes DEF RecoveryInv, Types, GlobalPcs, GlobalBody
  <2>3. GlobalOK'
    BY <1>1, <1>2, <2>2 DEF RecoveryInv, Types, GlobalOK, GlobalStart, GlobalBody
  <2> QED
    BY <1>1, <1>2, <2>2, <2>3, GlobalStepKeeps
       DEF GlobalLock, RecoveryInv, Types, PlayersOK, LocksHaveHolders
<1>3. CASE \E d \in Decks : /\ service' = [service EXCEPT !.lock[d] = "global"]
                            /\ global' = [global EXCEPT !.held = @ \cup {d}]
  <2>1. PICK d \in Decks : /\ service' = [service EXCEPT !.lock[d] = "global"]
                           /\ global' = [global EXCEPT !.held = @ \cup {d}]
    BY <1>3
  <2>2. /\ global' \in Globals /\ global'.pc = "lock" /\ global'.held = global.held \cup {d}
        /\ global'.backend = global.backend /\ global'.swapped = global.swapped
    BY <1>1, <2>1 DEF RecoveryInv, Types, GlobalOK, Globals
  <2>3. /\ service' \in Services /\ service'.failed = service.failed /\ service'.failedGlobal = service.failedGlobal
        /\ service'.global = service.global /\ service'.lock = [service.lock EXCEPT ![d] = "global"]
        /\ service.lock \in [Decks -> {"free", "repair", "global"}]
    BY <2>1 DEF RecoveryInv, Types, Services
  <2>4. GlobalOK'
    BY <1>1, <2>2, <2>3 DEF RecoveryInv, Types, GlobalOK, GlobalStart, GlobalBody
  <2> QED
    BY <1>1, <2>2, <2>3, <2>4, GlobalStepKeeps
       DEF GlobalLock, RecoveryInv, Types, PlayersOK, LocksHaveHolders
<1> QED  BY <1>2, <1>3 DEF GlobalLock, Decks

\* Steps that hold on to the locks and leave the service alone.
LEMMA GlobalWorkKeeps ==
  ASSUME RecoveryInv, global.pc \in GlobalBody, PlayersOK', GlobalOK', service' = service,
         global'.pc \in GlobalBody \cup {"leave"}, global'.held = global.held,
         \A d \in Decks : deck'[d] = deck[d] \/ deck'[d].transitionMuted,
         UNCHANGED <<repair, emergency, ui>>
  PROVE  RecoveryInv'
BY GlobalStepKeeps DEF RecoveryInv, Types, LocksHaveHolders, GlobalBody

LEMMA GlobalWarnKeeps ==
  ASSUME RecoveryInv, GlobalWarn
  PROVE  RecoveryInv'
<1>1. global.pc = "warn" /\ state \in States /\ state.health \in [Decks -> Healths]
  BY DEF GlobalWarn, Globally, RecoveryInv, Types, PlayersOK, States
<1>2. /\ global' \in Globals /\ global'.pc = "enter" /\ global'.held = global.held
      /\ global'.backend = global.backend /\ global'.swapped = global.swapped
  BY <1>1 DEF GlobalWarn, RecoveryInv, Types, GlobalOK, Globals, GlobalPcs, GlobalBody
<1>3. GlobalOK'
  BY <1>1, <1>2 DEF GlobalWarn, RecoveryInv, Types, GlobalOK, GlobalStart, GlobalBody
<1>4. PlayersOK'
  BY <1>1, StateMoves DEF GlobalWarn, RecoveryInv, Types, PlayersOK
<1> QED  BY <1>1, <1>2, <1>3, <1>4, GlobalWorkKeeps DEF GlobalWarn, GlobalBody

\* A thread that ends gives back the locks it holds.
LEMMA GlobalEndsKeeps ==
  ASSUME RecoveryInv, global.pc # "idle", PlayersOK', NEW ok \in BOOLEAN, NEW pc \in {"idle", "report"},
         global' = [[RestingGlobal EXCEPT !.pc = pc] EXCEPT !.ok = ok], NEW n \in 0..MaxGlobalAttempts,
         service' = [Unlocked(global.held) EXCEPT !.failedGlobal = n],
         UNCHANGED <<deck, repair, ui>>,
         emergency' = emergency \/ emergency' = [emergency EXCEPT !.prepared = NoDeck]
  PROVE  RecoveryInv'
<1>1. /\ global' \in Globals /\ global'.pc = pc /\ global'.held = {} /\ global'.swapped = {}
      /\ global'.backend = [d \in Decks |-> NoBackend]
  BY GlobalRests
<1>2. /\ service' \in Services /\ service'.failed = service.failed /\ service'.global = FALSE
      /\ \A d \in Decks : service'.lock[d] \in {"free", service.lock[d]} /\ service'.lock[d] # "global"
  BY UnlockedTyped, FailedGlobal
<1>3. GlobalOK'
  BY <1>1 DEF GlobalOK, GlobalStart, GlobalBody
<1> QED  BY <1>1, <1>2, <1>3, GlobalStepKeeps

LEMMA SameGlobal ==
  ASSUME RecoveryInv
  PROVE  /\ RestingGlobal = [[RestingGlobal EXCEPT !.pc = "idle"] EXCEPT !.ok = FALSE]
         /\ Unlocked(global.held) = [Unlocked(global.held) EXCEPT !.failedGlobal = service.failedGlobal]
         /\ service.failedGlobal \in 0..MaxGlobalAttempts
         /\ \A n : [Unlocked(global.held) EXCEPT !.failedGlobal = @ + n]
                   = [Unlocked(global.held) EXCEPT !.failedGlobal = service.failedGlobal + n]
<1>1. RestingGlobal = [[RestingGlobal EXCEPT !.pc = "idle"] EXCEPT !.ok = FALSE]
  <2> DEFINE r == RestingGlobal
  <2>1. r \in Globals /\ r.pc = "idle" /\ r.ok = FALSE
    BY DEF RestingGlobal, Globals, GlobalPcs, EmptyModel, Model, Models, Titles, Nothing, Healths, SomeBackend
  <2> HIDE DEF r
  <2>2. r = [[r EXCEPT !.pc = "idle"] EXCEPT !.ok = FALSE]
    BY <2>1 DEF Globals
  <2> QED  BY <2>2 DEF r
<1>2. service.failedGlobal \in 0..MaxGlobalAttempts
  BY DEF RecoveryInv, Types, Services
<1>3. Unlocked(global.held) = [Unlocked(global.held) EXCEPT !.failedGlobal = service.failedGlobal]
  BY UnlockedTyped DEF Services
<1>4. ASSUME NEW n PROVE [Unlocked(global.held) EXCEPT !.failedGlobal = @ + n]
                         = [Unlocked(global.held) EXCEPT !.failedGlobal = service.failedGlobal + n]
  BY UnlockedTyped
<1> QED  BY <1>1, <1>2, <1>3, <1>4

LEMMA GlobalEnterKeeps ==
  ASSUME RecoveryInv, GlobalEnter
  PROVE  RecoveryInv'
<1>1. global.pc = "enter" /\ UNCHANGED <<deck, repair, emergency, ui>>
  BY DEF GlobalEnter, Globally
<1>2. CASE Permitted("RECOVERING")
  <2> DEFINE models == [d \in Decks |-> deck[d].model]
  <2>1. models \in [Decks -> Models]
    BY DeckHasBackend DEF RecoveryInv, Types
  <2>2. global' = [global EXCEPT !.pc = "build", !.model = models]
    BY <1>2 DEF GlobalEnter
  <2> HIDE DEF models
  <2>3. /\ global' \in Globals /\ global'.pc = "build" /\ global'.held = global.held
        /\ global'.backend = global.backend /\ global'.swapped = global.swapped
    BY <2>1, <2>2 DEF RecoveryInv, Types, GlobalOK, Globals, GlobalPcs, GlobalBody
  <2>4. GlobalOK'
    BY <1>1, <1>2, <2>3, Ranges DEF GlobalEnter, RecoveryInv, Types, GlobalOK, GlobalStart, GlobalBody
  <2>5. PlayersOK'
    BY <1>1, <1>2, SomeWords DEF GlobalEnter, RecoveryInv, Types, PlayersOK, States
  <2> QED  BY <1>1, <1>2, <2>3, <2>4, <2>5, GlobalWorkKeeps DEF GlobalEnter, GlobalBody
<1>3. CASE ~Permitted("RECOVERING")
  <2>1. PlayersOK'
    BY <1>3 DEF GlobalEnter, RecoveryInv, Types, PlayersOK
  <2> QED  BY <1>1, <1>3, <2>1, SameGlobal, GlobalEndsKeeps DEF GlobalEnter
<1> QED  BY <1>2, <1>3

\* What the global repair has in hand after a step; its locks and what it has swapped stay.
Holds(pc, backend) ==
  /\ global' \in Globals /\ global'.held = global.held /\ global'.swapped = global.swapped
  /\ global'.pc = pc /\ global'.backend = backend

NextDeck == IF global.backend["A"] = NoBackend THEN "A" ELSE "B"
Filled == [global.backend EXCEPT ![NextDeck] = Fresh]

\* The ways a replacement is made and filled.
LEMMA BuildCases ==
  ASSUME RecoveryInv, GlobalBuild
  PROVE  /\ global.pc = "build" /\ Fresh \in Unused /\ Fresh \in Backends
         /\ \/ /\ \/ Holds(IF NextDeck = "B" THEN "swap" ELSE "build", Filled) /\ late' = late
                  \/ Holds("fail", Filled) /\ late' \in {late, late \cup {Outlasting(Fresh, "run")}}
               /\ open' = open \cup {Fresh}
            \/ /\ Holds("fail", global.backend)
               /\ \/ open' = open \cup {Fresh} /\ late' = late \cup {Outlasting(Fresh, "close")}
                  \/ UNCHANGED <<open, late>>
<1>1. global.pc = "build" /\ global \in Globals /\ Fresh \in Unused /\ Fresh \in Backends
  BY FreshIsUnused DEF GlobalBuild, Globally, RecoveryInv, Types, GlobalOK
<1> DEFINE kept == [global EXCEPT !.backend[NextDeck] = Fresh]
<1>2. /\ kept \in Globals /\ kept.held = global.held /\ kept.swapped = global.swapped /\ kept.pc = "build"
      /\ kept.backend = Filled
  BY <1>1 DEF Globals, Filled, SomeBackend
<1> HIDE DEF kept
<1>3. ASSUME NEW pc \in {"swap", "build", "fail"}, global' = [kept EXCEPT !.pc = pc]
      PROVE  Holds(pc, Filled)
  BY <1>2, <1>3 DEF Holds, Globals, GlobalPcs, GlobalBody
<1>4. ASSUME GlobalAt("fail") PROVE Holds("fail", global.backend)
  BY <1>4, GlobalGoes DEF Holds, RecoveryInv, Types, GlobalPcs, GlobalBody
<1>5. CASE /\ global' = [kept EXCEPT !.pc = IF NextDeck = "B" THEN "swap" ELSE "build"]
           /\ open' = open \cup {Fresh} /\ UNCHANGED late
  BY <1>1, <1>3, <1>5
<1>6. CASE /\ global' = [kept EXCEPT !.pc = "fail"] /\ open' = open \cup {Fresh}
           /\ UNCHANGED late \/ late' = late \cup {Outlasting(Fresh, "run")}
  BY <1>1, <1>3, <1>6
<1>7. CASE /\ GlobalAt("fail")
           /\ \/ open' = open \cup {Fresh} /\ late' = late \cup {Outlasting(Fresh, "close")}
              \/ UNCHANGED <<open, late>>
  BY <1>1, <1>4, <1>7
<1> QED  BY <1>5, <1>6, <1>7 DEF GlobalBuild, CleanedUpLate, NextDeck, kept

LEMMA GlobalBuildKeeps ==
  ASSUME RecoveryInv, GlobalBuild
  PROVE  RecoveryInv'
<1>1. global.pc = "build" /\ UNCHANGED <<state, deck, service, repair, emergency, ui>>
  BY DEF GlobalBuild, Globally
<1>2. PlayersOK'
  BY <1>1, BuildCases, OutlastingTyped DEF RecoveryInv, Types, PlayersOK
<1>3. global.backend \in [Decks -> SomeBackend] /\ global.backend["B"] = NoBackend /\ global.swapped = {}
  BY <1>1 DEF RecoveryInv, Types, GlobalOK, Globals
<1>4. \A d \in Decks : Filled[d] = IF d = NextDeck THEN Fresh ELSE global.backend[d]
  BY <1>3 DEF Filled
<1>5. GlobalOK'
  <2>1. CASE Holds("swap", Filled) /\ NextDeck = "B"
    <3>1. global.backend["A"] \in Backends
      BY <1>3, <2>1, Ranges DEF NextDeck, SomeBackend
    <3> QED
      BY <1>1, <1>3, <1>4, <2>1, <3>1, BuildCases
         DEF Holds, RecoveryInv, Types, GlobalOK, GlobalStart, GlobalBody, Decks
  <2>2. CASE Holds("build", Filled) /\ NextDeck = "A"
    BY <1>1, <1>3, <1>4, <2>2, Ranges DEF Holds, RecoveryInv, Types, GlobalOK, GlobalStart, GlobalBody
  <2>3. CASE global' \in Globals /\ global'.pc = "fail"
    BY <1>1, <2>3 DEF RecoveryInv, Types, GlobalOK, GlobalStart, GlobalBody
  <2> QED  BY <2>1, <2>2, <2>3, BuildCases DEF Holds, NextDeck
<1>6. global'.held = global.held /\ global'.pc \in GlobalBody
  BY BuildCases DEF Holds, GlobalBody
<1> QED  BY <1>1, <1>2, <1>5, <1>6, GlobalWorkKeeps DEF GlobalBody

LEMMA GlobalFailKeeps ==
  ASSUME RecoveryInv, GlobalFail
  PROVE  RecoveryInv'
<1>1. /\ global.pc = "fail" /\ UNCHANGED <<deck, repair, emergency, ui>>
      /\ service \in Services /\ service.failedGlobal + 1 \in 0..MaxGlobalAttempts
      /\ global \in Globals /\ global.health \in [Decks -> Healths]
  BY Ranges DEF GlobalFail, Globally, RecoveryInv, Types, Services, GlobalOK, GlobalBody, Globals
<1>2. PlayersOK'
  <2>1. state' \in States
    BY <1>1, SomeWords DEF GlobalFail, GivenUp, RecoveryInv, Types, PlayersOK, States
  <2> QED  BY <2>1 DEF GlobalFail, RecoveryInv, Types, PlayersOK
<1>3. CASE service' = [service EXCEPT !.failedGlobal = @ + 1] /\ GlobalAt("leave")
  <2>1. /\ service' \in Services /\ service'.failed = service.failed /\ service'.lock = service.lock
        /\ service'.global = service.global
    BY <1>1, <1>3, FailedGlobal
  <2>2. /\ global' \in Globals /\ global'.pc = "leave" /\ global'.held = global.held
        /\ global'.backend = global.backend /\ global'.swapped = global.swapped
    BY <1>3, GlobalGoes DEF RecoveryInv, Types, GlobalPcs
  <2>3. GlobalOK'
    BY <2>2 DEF GlobalOK, GlobalStart, GlobalBody
  <2> QED  BY <1>1, <1>2, <2>1, <2>2, <2>3, GlobalStepKeeps DEF RecoveryInv, LocksHaveHolders
<1>4. CASE service' = [Unlocked(global.held) EXCEPT !.failedGlobal = @ + 1] /\ global' = RestingGlobal
  BY <1>1, <1>2, <1>4, SameGlobal, GlobalEndsKeeps
<1> QED  BY <1>3, <1>4 DEF GlobalFail

SwapDeck == IF "A" \in global.swapped THEN "B" ELSE "A"

\* A deck takes its replacement, and its old backend is in hand in its stead.
LEMMA SwapCase ==
  ASSUME RecoveryInv, GlobalSwap
  PROVE  /\ global.pc = "swap" /\ global.backend \in [Decks -> Backends] /\ global.swapped \subseteq {"A"}
         /\ deck' \in [Decks -> DeckStates] /\ deck'[SwapDeck].transitionMuted
         /\ deck'[SwapDeck].backend = global.backend[SwapDeck]
         /\ \A d \in Decks : d # SwapDeck => deck'[d].transitionMuted = deck[d].transitionMuted
                                             /\ deck'[d].backend = deck[d].backend /\ deck'[d] = deck[d]
         /\ global' \in Globals /\ global'.held = global.held /\ global'.swapped = global.swapped \cup {SwapDeck}
         /\ global'.backend = [global.backend EXCEPT ![SwapDeck] = deck[SwapDeck].backend]
         /\ global'.pc = IF SwapDeck = "B" THEN "release" ELSE "swap"
<1>1. /\ global.pc = "swap" /\ global \in Globals /\ global.swapped \subseteq {"A"}
      /\ global.backend \in [Decks -> Backends]
  BY DEF GlobalSwap, Globally, RecoveryInv, Types, GlobalOK, Globals
<1>2. global.backend[SwapDeck] \in Backends /\ global.model[SwapDeck] \in Models /\ SwapDeck \in Decks
  BY <1>1 DEF SwapDeck, Decks, Globals
<1>3. deck[SwapDeck].backend \in Backends
  BY <1>2, DeckHasBackend DEF RecoveryInv, Types
<1> DEFINE old == deck[SwapDeck].backend
           pc == IF SwapDeck = "B" THEN "release" ELSE "swap"
           adopted == Adopted(deck, SwapDeck, global.backend[SwapDeck], global.model[SwapDeck])
<1>4. /\ adopted \in [Decks -> DeckStates]
      /\ adopted[SwapDeck].transitionMuted /\ adopted[SwapDeck].backend = global.backend[SwapDeck]
      /\ \A e \in Decks : e # SwapDeck => adopted[e] = deck[e]
  BY <1>2, AdoptedTyped DEF RecoveryInv, Types, PlayersOK
<1>5. deck' = Mute(adopted, SwapDeck, TRUE)
  BY DEF GlobalSwap, SwapDeck
<1>6. global' = [global EXCEPT !.swapped = @ \cup {SwapDeck}, !.backend[SwapDeck] = old, !.pc = pc]
  BY DEF GlobalSwap, SwapDeck
<1>7. pc \in {"release", "swap"} /\ old \in Backends
  BY <1>3
<1> HIDE DEF adopted, old, pc
<1>8. /\ deck' \in [Decks -> DeckStates] /\ deck'[SwapDeck].transitionMuted
      /\ deck'[SwapDeck].backend = global.backend[SwapDeck]
      /\ \A d \in Decks : d # SwapDeck => deck'[d] = deck[d]
  BY <1>2, <1>4, <1>5 DEF Mute, DeckStates
<1>9. /\ global' \in Globals /\ global'.held = global.held /\ global'.swapped = global.swapped \cup {SwapDeck}
      /\ global'.backend = [global.backend EXCEPT ![SwapDeck] = old] /\ global'.pc = pc
  BY <1>1, <1>2, <1>6, <1>7 DEF Globals, GlobalPcs, GlobalBody, SomeBackend
<1> QED  BY <1>1, <1>2, <1>8, <1>9 DEF old, pc

LEMMA GlobalSwapKeeps ==
  ASSUME RecoveryInv, GlobalSwap
  PROVE  RecoveryInv'
<1>1. SwapDeck \in Decks /\ deck[SwapDeck].backend \in Backends
  BY DeckHasBackend DEF SwapDeck, Decks, RecoveryInv, Types
<1>2. PlayersOK'
  <2>1. state' = Health(state, SwapDeck, "HEALTHY") /\ UNCHANGED <<open, late>>
    BY DEF GlobalSwap, SwapDeck
  <2>2. state' \in States
    BY <1>1, <2>1, StateMoves, SomeWords DEF RecoveryInv, Types, PlayersOK
  <2> QED  BY <2>1, <2>2, SwapCase DEF RecoveryInv, Types, PlayersOK
<1>3. GlobalOK'
  <2>1. service' = service
    BY DEF GlobalSwap
  <2>2. CASE SwapDeck = "A"
    BY <1>1, <2>1, <2>2, SwapCase DEF RecoveryInv, Types, GlobalOK, GlobalStart, GlobalBody
  <2>3. CASE SwapDeck = "B"
    <3>1. global.swapped = {"A"}
      BY <2>3, SwapCase DEF SwapDeck
    <3> QED  BY <1>1, <2>1, <2>3, <3>1, SwapCase, Ranges DEF RecoveryInv, Types, GlobalOK, GlobalStart, GlobalBody
  <2> QED  BY <2>2, <2>3 DEF SwapDeck
<1>4. global.pc \in GlobalBody /\ global'.pc \in GlobalBody /\ global'.held = global.held
  BY SwapCase DEF GlobalBody
<1>5. UNCHANGED <<service, repair, emergency, ui>>
  BY DEF GlobalSwap
<1>6. \A d \in Decks : deck'[d] = deck[d] \/ deck'[d].transitionMuted
  BY SwapCase
<1> QED  BY <1>2, <1>3, <1>4, <1>5, <1>6, GlobalWorkKeeps

ReleaseDeck == IF "A" \in global.swapped THEN "A" ELSE "B"

LEMMA ReleaseCase ==
  ASSUME RecoveryInv, GlobalRelease
  PROVE  /\ global.pc = "release" /\ ReleaseDeck \in Decks /\ global.backend[ReleaseDeck] \in Backends
         /\ global' \in Globals /\ global'.held = global.held /\ global'.swapped = global.swapped \ {ReleaseDeck}
         /\ global'.backend = [global.backend EXCEPT ![ReleaseDeck] = NoBackend]
         /\ global'.pc = IF ReleaseDeck = "B" THEN "succeed" ELSE "release"
         /\ \/ Released(global.backend[ReleaseDeck]) \/ ReleasedLate(global.backend[ReleaseDeck])
            \/ NotReleased("deadline") \/ NotReleased("raise")
<1>1. global.pc = "release" /\ global \in Globals /\ ReleaseDeck \in Decks /\ global.backend[ReleaseDeck] \in Backends
  BY DEF GlobalRelease, Globally, ReleaseDeck, Decks, RecoveryInv, Types, GlobalOK
<1> DEFINE pc == IF ReleaseDeck = "B" THEN "succeed" ELSE "release"
<1>2. pc \in {"succeed", "release"}
  OBVIOUS
<1>3. /\ global' = [global EXCEPT !.swapped = @ \ {ReleaseDeck}, !.backend[ReleaseDeck] = NoBackend, !.pc = pc]
      /\ \/ Released(global.backend[ReleaseDeck]) \/ ReleasedLate(global.backend[ReleaseDeck])
         \/ NotReleased("deadline") \/ NotReleased("raise")
  BY DEF GlobalRelease, ReleaseDeck
<1> HIDE DEF pc
<1>4. /\ global' \in Globals /\ global'.held = global.held /\ global'.swapped = global.swapped \ {ReleaseDeck}
      /\ global'.backend = [global.backend EXCEPT ![ReleaseDeck] = NoBackend] /\ global'.pc = pc
  BY <1>1, <1>2, <1>3 DEF Globals, GlobalPcs, GlobalBody, SomeBackend
<1> QED  BY <1>1, <1>3, <1>4 DEF pc

LEMMA GlobalReleaseKeeps ==
  ASSUME RecoveryInv, GlobalRelease
  PROVE  RecoveryInv'
<1>1. UNCHANGED <<state, deck, service, repair, emergency, ui>>
  BY DEF GlobalRelease
<1>2. PlayersOK'
  BY <1>1, ReleaseCase, OutlastingTyped
     DEF Released, ReleasedLate, NotReleased, RecoveryInv, Types, PlayersOK
<1>3. global.backend \in [Decks -> SomeBackend]
  BY DEF RecoveryInv, Types, GlobalOK, Globals
<1>4. GlobalOK'
  <2>1. CASE ReleaseDeck = "A"
    BY <1>1, <1>3, <2>1, ReleaseCase DEF RecoveryInv, Types, GlobalOK, GlobalStart, GlobalBody, Decks
  <2>2. CASE ReleaseDeck = "B"
    BY <1>1, <2>2, ReleaseCase DEF RecoveryInv, Types, GlobalOK, GlobalStart, GlobalBody
  <2> QED  BY <2>1, <2>2 DEF ReleaseDeck
<1>5. global.pc \in GlobalBody /\ global'.pc \in GlobalBody /\ global'.held = global.held
  BY ReleaseCase DEF GlobalBody
<1> QED  BY <1>1, <1>2, <1>4, <1>5, GlobalWorkKeeps

LEMMA GlobalSucceedKeeps ==
  ASSUME RecoveryInv, GlobalSucceed
  PROVE  RecoveryInv'
<1>1. /\ global.pc = "succeed" /\ UNCHANGED <<deck, open, late, repair, emergency, ui>>
      /\ service \in Services /\ 0 \in 0..MaxGlobalAttempts
  BY Ranges DEF GlobalSucceed, Globally, RecoveryInv, Types
<1>2. CASE Permitted("NORMAL")
  <2>1. /\ service' \in Services /\ service'.failed = service.failed /\ service'.lock = service.lock
        /\ service'.global = service.global
    <3>1. service' = [service EXCEPT !.failedGlobal = 0]
      BY <1>2 DEF GlobalSucceed
    <3> QED  BY <1>1, <3>1, FailedGlobal
  <2>2. /\ global' \in Globals /\ global'.pc = "leave" /\ global'.held = global.held
        /\ global'.backend = global.backend /\ global'.swapped = global.swapped
    BY <1>1, <1>2 DEF GlobalSucceed, RecoveryInv, Types, GlobalOK, Globals, GlobalPcs
  <2>3. GlobalOK'
    BY <2>2 DEF GlobalOK, GlobalStart, GlobalBody
  <2>4. PlayersOK'
    BY <1>1, <1>2, StateMoves, SomeWords DEF GlobalSucceed, RecoveryInv, Types, PlayersOK
  <2> QED  BY <1>1, <2>1, <2>2, <2>3, <2>4, GlobalStepKeeps DEF RecoveryInv, LocksHaveHolders
<1>3. CASE ~Permitted("NORMAL")
  <2>1. PlayersOK' /\ global' = RestingGlobal /\ service' = [Unlocked(global.held) EXCEPT !.failedGlobal = 0]
    BY <1>1, <1>3 DEF GlobalSucceed, RecoveryInv, Types, PlayersOK
  <2> QED  BY <1>1, <2>1, SameGlobal, GlobalEndsKeeps
<1> QED  BY <1>2, <1>3

LEMMA GlobalLeaveKeeps ==
  ASSUME RecoveryInv, GlobalLeave
  PROVE  RecoveryInv'
<1>1. global.pc = "leave" /\ UNCHANGED <<state, deck, open, late, repair, ui>>
  BY DEF GlobalLeave, Globally
<1>2. global.ok \in BOOLEAN
  BY DEF RecoveryInv, Types, GlobalOK, Globals
<1>3. global' = [[RestingGlobal EXCEPT !.pc = "report"] EXCEPT !.ok = global.ok]
  BY DEF GlobalLeave
<1>4. service' = [Unlocked(global.held) EXCEPT !.failedGlobal = service.failedGlobal]
  BY SameGlobal DEF GlobalLeave
<1>5. PlayersOK' /\ emergency' = [emergency EXCEPT !.prepared = NoDeck]
  BY <1>1 DEF GlobalLeave, RecoveryInv, Types, PlayersOK
<1> QED  BY <1>1, <1>2, <1>3, <1>4, <1>5, SameGlobal, GlobalEndsKeeps

LEMMA GlobalThreadKeeps ==
  ASSUME RecoveryInv, GlobalThread
  PROVE  RecoveryInv'
BY GlobalAssessKeeps, GlobalLockKeeps, GlobalWarnKeeps, GlobalEnterKeeps, GlobalBuildKeeps, GlobalFailKeeps,
   GlobalSwapKeeps, GlobalReleaseKeeps, GlobalSucceedKeeps, GlobalLeaveKeeps
   DEF GlobalThread
----------------------------------------------------------------------------
(* The thread of an emergency action, and what goes on by itself.          *)

\* Steps that leave the repairs alone: no deck changes its backend, and a deck that an
\* emergency start waits for stays gated.
LEMMA OtherStepKeeps ==
  ASSUME RecoveryInv, PlayersOK', emergency' \in Emergencies, ui' \in Uis,
         emergency'.thread.pc = "replace" => emergency'.thread.affected \in Decks,
         emergency'.thread.pc \in {"load", "confirm"} => emergency'.thread.deck \in Decks,
         emergency'.thread.pc # "idle" => ui'.acting,
         UNCHANGED <<service, repair, global>>, ui'.repairing = ui.repairing, ui'.requested = ui.requested,
         GatedUntilConfirmed'
  PROVE  RecoveryInv'
BY DEF RecoveryInv, Types, RepairOK, GlobalOK, EmergencyOK, Single, LocksHaveHolders

\* The gate stays shut where the emergency thread does not move and titles stay.
LEMMA GateStays ==
  ASSUME RecoveryInv, emergency'.thread.pc = emergency.thread.pc, emergency'.prepared = emergency.prepared,
         \A d \in Decks : Same(deck[d], deck'[d])
  PROVE  GatedUntilConfirmed'
BY DEF RecoveryInv, GatedUntilConfirmed, Title, Same

\* An action of the thread: its next step, on which deck, and what is prepared.
Acts(pc, d, prepared) ==
  /\ emergency' \in Emergencies
  /\ emergency'.thread.pc = pc /\ emergency'.thread.deck = d
  /\ emergency'.thread.affected = emergency.thread.affected /\ emergency'.prepared = prepared

LEMMA ActsOn ==
  ASSUME EmergencyOK, NEW pc \in EmergencyPcs, ActAt(pc)
  PROVE  Acts(pc, emergency.thread.deck, emergency.prepared)
BY DEF EmergencyOK, Emergencies, Acts, ActAt

LEMMA Actor ==
  ASSUME RecoveryInv
  PROVE  /\ emergency \in Emergencies /\ emergency.thread.deck \in SomeDeck /\ emergency.prepared \in SomeDeck
         /\ emergency.failed \in Nat /\ emergency.handover \in SomeDeck
         /\ state \in States /\ deck \in [Decks -> DeckStates]
BY DEF RecoveryInv, Types, PlayersOK, EmergencyOK, Emergencies

LEMMA EmergencyReplaceKeeps ==
  ASSUME RecoveryInv, EmergencyReplace
  PROVE  RecoveryInv'
<1> DEFINE d == emergency.thread.affected
<1>1. emergency.thread.pc = "replace" /\ d \in Decks
  BY DEF EmergencyReplace, Acting, RecoveryInv, Types, EmergencyOK
<1>2. Acts("prepare", emergency.thread.deck, emergency.prepared)
  BY ActsOn DEF EmergencyReplace, RecoveryInv, Types, EmergencyPcs
<1>3. deck' \in [Decks -> DeckStates]
  <2>1. Mute(deck, d, TRUE) \in [Decks -> DeckStates]
    BY <1>1, Actor, DeckMoves
  <2> QED  BY <1>1, <2>1, DeckMoves DEF EmergencyReplace
<1>4. state' \in States
  <2>1. Health(state, d, "FAILED") \in States
    BY <1>1, Actor, StateMoves, SomeWords
  <2> QED  BY <2>1, StateMoves DEF EmergencyReplace
<1>5. UNCHANGED <<open, late, service, repair, global, ui>>
  BY DEF EmergencyReplace
<1>6. PlayersOK' /\ GatedUntilConfirmed'
  BY <1>2, <1>3, <1>4, <1>5 DEF RecoveryInv, Types, PlayersOK, GatedUntilConfirmed, Acts
<1> QED  BY <1>1, <1>2, <1>5, <1>6, OtherStepKeeps DEF Acts, RecoveryInv, Types, Single

LEMMA EmergencyPrepareKeeps ==
  ASSUME RecoveryInv, EmergencyPrepare
  PROVE  RecoveryInv'
<1>1. emergency.thread.pc = "prepare" /\ UNCHANGED <<open, late, service, repair, global, ui>>
  BY DEF EmergencyPrepare, Acting
<1>2. CASE ActAt("report") /\ UNCHANGED <<state, deck>>
  <2>1. Acts("report", emergency.thread.deck, emergency.prepared)
    BY <1>2, ActsOn DEF RecoveryInv, Types, EmergencyPcs
  <2>2. PlayersOK' /\ GatedUntilConfirmed'
    BY <1>1, <1>2, <2>1 DEF RecoveryInv, Types, PlayersOK, GatedUntilConfirmed, Acts
  <2> QED  BY <1>1, <2>1, <2>2, OtherStepKeeps DEF Acts, RecoveryInv, Types, Single
<1>3. CASE \E d \in Decks : /\ state' = Health(state, d, "UNSURE") /\ deck' = Gated(deck, d)
                            /\ emergency' = [emergency EXCEPT !.thread.pc = "load", !.thread.deck = d]
  <2>1. PICK d \in Decks : /\ state' = Health(state, d, "UNSURE") /\ deck' = Gated(deck, d)
                           /\ emergency' = [emergency EXCEPT !.thread.pc = "load", !.thread.deck = d]
    BY <1>3
  <2>2. Acts("load", d, emergency.prepared)
    BY <2>1, Actor DEF Acts, Emergencies, EmergencyPcs, SomeDeck
  <2>3. state' \in States /\ deck' \in [Decks -> DeckStates]
    BY <2>1, Actor, StateMoves, SomeWords, DeckMoves
  <2>4. PlayersOK' /\ GatedUntilConfirmed'
    BY <1>1, <2>2, <2>3 DEF RecoveryInv, Types, PlayersOK, GatedUntilConfirmed, Acts
  <2> QED  BY <1>1, <2>2, <2>4, OtherStepKeeps DEF Acts, RecoveryInv, Types, Single
<1>4. Usable # {} => (IF "A" \in Usable THEN "A" ELSE "B") \in Decks
  BY DEF Decks
<1> QED  BY <1>2, <1>3, <1>4 DEF EmergencyPrepare

LEMMA EmergencyLoadKeeps ==
  ASSUME RecoveryInv, EmergencyLoad
  PROVE  RecoveryInv'
<1> DEFINE d == emergency.thread.deck
<1>1. emergency.thread.pc = "load" /\ d \in Decks /\ UNCHANGED <<open, late, service, repair, global, ui>>
  BY DEF EmergencyLoad, Acting, RecoveryInv, Types, EmergencyOK
<1>2. CASE /\ deck' = Mute(Gated(Loaded(deck, d, "emergency"), d), d, TRUE)
           /\ state' = Health(state, d, "HEALTHY")
           /\ emergency' = [emergency EXCEPT !.thread.pc = "activate", !.prepared = d, !.handover = Reloaded(d)]
  <2>1. Acts("activate", d, d)
    BY <1>1, <1>2, Actor DEF Acts, Emergencies, EmergencyPcs, SomeDeck, Reloaded
  <2> DEFINE loaded == Loaded(deck, d, "emergency")
             gated == Gated(loaded, d)
  <2>2. loaded \in [Decks -> DeckStates]
    BY <1>1, Actor, LoadedTyped DEF Titles
  <2> HIDE DEF loaded
  <2>3. gated \in [Decks -> DeckStates] /\ gated[d].transitionMuted
    BY <1>1, <2>2, DeckMoves
  <2>4. deck' = Mute(gated, d, TRUE)
    BY <1>2 DEF loaded
  <2> HIDE DEF gated
  <2>5. deck' \in [Decks -> DeckStates] /\ deck'[d].transitionMuted
    <3>1. deck' \in [Decks -> DeckStates] /\ Same(gated[d], deck'[d])
      BY <1>1, <2>3, <2>4, DeckMoves
    <3> QED  BY <2>3, <3>1 DEF Same
  <2>6. state' \in States
    BY <1>1, <1>2, Actor, StateMoves, SomeWords
  <2>7. PlayersOK' /\ GatedUntilConfirmed'
    BY <1>1, <2>1, <2>5, <2>6 DEF RecoveryInv, Types, PlayersOK, GatedUntilConfirmed, Acts
  <2> QED  BY <1>1, <2>1, <2>7, OtherStepKeeps DEF Acts, RecoveryInv, Types, Single
<1>3. CASE /\ state' = To(Health(state, d, "FAILED"), "DEGRADED") /\ ActAt("report") /\ UNCHANGED deck
  <2>1. Acts("report", d, emergency.prepared)
    BY <1>3, ActsOn DEF RecoveryInv, Types, EmergencyPcs
  <2>2. Health(state, d, "FAILED") \in States
    BY <1>1, Actor, StateMoves, SomeWords
  <2>3. PlayersOK' /\ GatedUntilConfirmed'
    BY <1>1, <1>3, <2>1, <2>2, StateMoves, SomeWords DEF RecoveryInv, Types, PlayersOK, GatedUntilConfirmed, Acts
  <2> QED  BY <1>1, <2>1, <2>3, OtherStepKeeps DEF Acts, RecoveryInv, Types, Single
<1> QED  BY <1>2, <1>3 DEF EmergencyLoad

LEMMA EmergencyActivateKeeps ==
  ASSUME RecoveryInv, EmergencyActivate
  PROVE  RecoveryInv'
<1> DEFINE d == emergency.prepared
<1>1. emergency.thread.pc = "activate" /\ UNCHANGED <<open, late, service, repair, global, ui>>
  BY DEF EmergencyActivate, Acting
<1>2. CASE ActAt("report") /\ UNCHANGED <<state, deck>>
  <2>1. Acts("report", emergency.thread.deck, d)
    BY <1>2, ActsOn DEF RecoveryInv, Types, EmergencyPcs
  <2>2. PlayersOK' /\ GatedUntilConfirmed'
    BY <1>1, <1>2, <2>1 DEF RecoveryInv, Types, PlayersOK, GatedUntilConfirmed, Acts
  <2> QED  BY <1>1, <2>1, <2>2, OtherStepKeeps DEF Acts, RecoveryInv, Types, Single
<1>3. CASE emergency' = [emergency EXCEPT !.thread.pc = "report", !.prepared = NoDeck] /\ UNCHANGED <<state, deck>>
  <2>1. Acts("report", emergency.thread.deck, NoDeck)
    BY <1>3, Actor DEF Acts, Emergencies, EmergencyPcs, SomeDeck
  <2>2. PlayersOK' /\ GatedUntilConfirmed'
    BY <1>1, <1>3, <2>1 DEF RecoveryInv, Types, PlayersOK, GatedUntilConfirmed, Acts
  <2> QED  BY <1>1, <2>1, <2>2, OtherStepKeeps DEF Acts, RecoveryInv, Types, Single
<1>4. CASE /\ d # NoDeck /\ deck' = Play(Gated(deck, d), d, TRUE) /\ UNCHANGED state
           /\ emergency' = [emergency EXCEPT !.thread.pc = "confirm", !.thread.deck = d]
  <2>1. d \in Decks
    BY <1>4, Actor DEF SomeDeck
  <2>2. Acts("confirm", d, d)
    BY <1>4, <2>1, Actor DEF Acts, Emergencies, EmergencyPcs, SomeDeck
  <2> DEFINE gated == Gated(deck, d)
  <2>3. gated \in [Decks -> DeckStates] /\ gated[d].transitionMuted
    BY <2>1, Actor, DeckMoves
  <2>4. deck' = Play(gated, d, TRUE)
    BY <1>4
  <2> HIDE DEF gated
  <2>5. deck' \in [Decks -> DeckStates] /\ deck'[d].transitionMuted
    <3>1. deck' \in [Decks -> DeckStates] /\ Same(gated[d], deck'[d])
      BY <2>1, <2>3, <2>4, DeckMoves
    <3> QED  BY <2>3, <3>1 DEF Same
  <2>6. PlayersOK' /\ GatedUntilConfirmed'
    BY <1>1, <1>4, <2>2, <2>5 DEF RecoveryInv, Types, PlayersOK, GatedUntilConfirmed, Acts
  <2> QED  BY <1>1, <2>1, <2>2, <2>6, OtherStepKeeps DEF Acts, RecoveryInv, Types, Single
<1>5. CASE /\ d # NoDeck /\ deck' = Gated(deck, d)
           /\ emergency' = [emergency EXCEPT !.thread.pc = "report", !.failed = @ + 1]
           /\ state' = To(Health(state, d, "FAILED"), "DEGRADED")
  <2>1. d \in Decks
    BY <1>5, Actor DEF SomeDeck
  <2>2. Acts("report", emergency.thread.deck, d)
    <3>1. emergency.failed + 1 \in Nat
      BY Actor
    <3>2. emergency' = [emergency EXCEPT !.thread.pc = "report", !.failed = emergency.failed + 1]
      BY <1>5
    <3> QED  BY <3>1, <3>2, Actor DEF Acts, Emergencies, EmergencyPcs
  <2>3. deck' \in [Decks -> DeckStates]
    BY <1>5, <2>1, Actor, DeckMoves
  <2>4. Health(state, d, "FAILED") \in States
    BY <2>1, Actor, StateMoves, SomeWords
  <2>5. PlayersOK' /\ GatedUntilConfirmed'
    BY <1>1, <1>5, <2>2, <2>3, <2>4, StateMoves, SomeWords
       DEF RecoveryInv, Types, PlayersOK, GatedUntilConfirmed, Acts
  <2> QED  BY <1>1, <2>2, <2>5, OtherStepKeeps DEF Acts, RecoveryInv, Types, Single
<1> QED  BY <1>2, <1>3, <1>4, <1>5 DEF EmergencyActivate

LEMMA EmergencyConfirmKeeps ==
  ASSUME RecoveryInv, EmergencyConfirm
  PROVE  RecoveryInv'
<1> DEFINE d == emergency.thread.deck
           handover == IF Title(Other(d)) = Nothing THEN NoDeck ELSE Other(d)
<1>1. emergency.thread.pc = "confirm" /\ d \in Decks /\ UNCHANGED <<open, late, service, repair, global, ui>>
  BY DEF EmergencyConfirm, Acting, RecoveryInv, Types, EmergencyOK
<1>2. handover \in SomeDeck
  BY DEF Other, SomeDeck, Decks
<1>3. emergency' = [emergency EXCEPT !.thread.pc = "report", !.failed = 0, !.handover = handover]
  BY DEF EmergencyConfirm
<1> HIDE DEF handover
<1>4. Acts("report", d, emergency.prepared)
  BY <1>2, <1>3, Actor DEF Acts, Emergencies, EmergencyPcs
<1>5. deck' \in [Decks -> DeckStates]
  BY <1>1, Actor DEF EmergencyConfirm, DeckStates
<1>6. state' \in States
  BY Actor, StateMoves, SomeWords DEF EmergencyConfirm
<1>7. PlayersOK' /\ GatedUntilConfirmed'
  BY <1>1, <1>4, <1>5, <1>6 DEF RecoveryInv, Types, PlayersOK, GatedUntilConfirmed, Acts
<1> QED  BY <1>1, <1>4, <1>7, OtherStepKeeps DEF Acts, RecoveryInv, Types, Single

LEMMA EmergencyThreadKeeps ==
  ASSUME RecoveryInv, EmergencyThread
  PROVE  RecoveryInv'
BY EmergencyReplaceKeeps, EmergencyPrepareKeeps, EmergencyLoadKeeps, EmergencyActivateKeeps, EmergencyConfirmKeeps
   DEF EmergencyThread

LEMMA HandoverEndsKeeps ==
  ASSUME RecoveryInv, HandoverEnds
  PROVE  RecoveryInv'
<1>1. emergency.handover \in Decks
  BY Actor DEF HandoverEnds, SomeDeck
<1>2. deck' \in [Decks -> DeckStates] /\ \A d \in Decks : Same(deck[d], deck'[d])
  BY <1>1, Actor, DeckMoves DEF HandoverEnds
<1>3. emergency' \in Emergencies /\ emergency'.thread = emergency.thread /\ emergency'.prepared = emergency.prepared
  BY Actor DEF HandoverEnds, Emergencies, SomeDeck
<1>4. PlayersOK' /\ GatedUntilConfirmed'
  BY <1>2, <1>3, GateStays DEF HandoverEnds, RecoveryInv, Types, PlayersOK
<1> QED  BY <1>3, <1>4, OtherStepKeeps DEF HandoverEnds, RecoveryInv, Types, EmergencyOK, Single

LEMMA LateOperationEndsKeeps ==
  ASSUME RecoveryInv, LateOperationEnds
  PROVE  RecoveryInv'
<1>1. PlayersOK'
  BY DEF LateOperationEnds, RecoveryInv, Types, PlayersOK
<1>2. GatedUntilConfirmed'
  BY DEF LateOperationEnds, RecoveryInv, GatedUntilConfirmed, Title
<1> QED  BY <1>1, <1>2, OtherStepKeeps DEF LateOperationEnds, RecoveryInv, Types, EmergencyOK, Single
----------------------------------------------------------------------------
(* The GUI thread: commands, the status tick and results.                  *)

\* The GUI may start a thread of a kind that rests, and only then.
Starts(u, v) == v.repairing = u.repairing /\ v.requested = u.requested /\ v.acting = u.acting

LEMMA UiMoves ==
  ASSUME NEW u \in Uis
  PROVE  /\ \A c \in AllCommands : u.todo[c] > 0 => Given(u, c) \in Uis /\ Starts(u, Given(u, c))
         /\ Paused(u) \in Uis /\ Starts(u, Paused(u))
         /\ TwoDecks(u) \in Uis /\ Starts(u, TwoDecks(u))
         /\ \A d \in Decks : OneDeck(u, d) \in Uis /\ Starts(u, OneDeck(u, d))
<1>1. ASSUME NEW c \in AllCommands, u.todo[c] > 0 PROVE Given(u, c) \in Uis /\ Starts(u, Given(u, c))
  <2>1. u.todo \in [AllCommands -> Nat] /\ u.todo[c] - 1 \in Nat
    BY <1>1 DEF Uis
  <2>2. [u.todo EXCEPT ![c] = u.todo[c] - 1] \in [AllCommands -> Nat]
    BY <2>1
  <2>3. Given(u, c) = [u EXCEPT !.todo = [u.todo EXCEPT ![c] = u.todo[c] - 1]]
    BY DEF Given
  <2> DEFINE t == [u.todo EXCEPT ![c] = u.todo[c] - 1]
  <2> HIDE DEF t
  <2> QED  BY <2>2, <2>3 DEF Uis, Starts, t
<1>2. Paused(u) \in Uis /\ Starts(u, Paused(u))
  BY DEF Paused, Uis, Starts
<1>3. TwoDecks(u) \in Uis /\ Starts(u, TwoDecks(u))
  BY DEF TwoDecks, Uis, Starts, SomeDeck
<1>4. ASSUME NEW d \in Decks PROVE OneDeck(u, d) \in Uis /\ Starts(u, OneDeck(u, d))
  BY DEF OneDeck, Uis, Starts, SomeDeck
<1> QED  BY <1>1, <1>2, <1>3, <1>4

LEMMA PausedForTyped ==
  ASSUME RecoveryInv, NEW c \in AllCommands, Asked(c)
  PROVE  PausedFor(c) \in Uis /\ Starts(ui, PausedFor(c)) /\ Given(ui, c) \in Uis /\ Starts(ui, Given(ui, c))
<1>1. ui \in Uis /\ Paused(ui) \in Uis /\ Starts(ui, Paused(ui)) /\ Paused(ui).todo[c] > 0 /\ ui.todo[c] > 0
  BY UiMoves DEF RecoveryInv, Types, Asked, Paused, Uis
<1> QED  BY <1>1, UiMoves DEF PausedFor, Starts

\* Commands that start no thread.
LEMMA GuiKeeps ==
  ASSUME RecoveryInv, ui' \in Uis, Starts(ui, ui'),
         state' \in States, deck' \in [Decks -> DeckStates], \A d \in Decks : Same(deck[d], deck'[d]),
         UNCHANGED <<open, late, service, repair, global, emergency>>
  PROVE  RecoveryInv'
<1>1. PlayersOK' /\ GatedUntilConfirmed'
  BY GateStays DEF RecoveryInv, Types, PlayersOK
<1> QED  BY <1>1, OtherStepKeeps DEF Starts, RecoveryInv, Types, EmergencyOK, Single

\* The thread of a repair is new, or rests again.
LEMMA RepairThreadChanges ==
  ASSUME RecoveryInv, repair.pc \in {"idle", "report"}, ui' \in Uis,
         ui'.requested = ui.requested, ui'.acting = ui.acting,
         repair' \in Repairs, repair'.pc = "idle" \/ (repair'.pc = "assess" /\ repair'.deck \in Decks /\ ui'.repairing),
         state' \in States, deck' \in [Decks -> DeckStates], \A d \in Decks : Same(deck[d], deck'[d]),
         UNCHANGED <<open, late, service, global, emergency>>
  PROVE  RecoveryInv'
<1>1. PlayersOK' /\ GatedUntilConfirmed'
  BY GateStays DEF RecoveryInv, Types, PlayersOK
<1>2. Types'
  BY <1>1 DEF RecoveryInv, Types, RepairOK, GlobalOK, EmergencyOK, RepairBody
<1>3. Single' /\ LocksHaveHolders'
  BY DEF RecoveryInv, Single, LocksHaveHolders
<1> QED  BY <1>1, <1>2, <1>3 DEF RecoveryInv

LEMMA SpawnedTyped ==
  ASSUME NEW d \in Decks, NEW auto \in BOOLEAN, NEW skip \in BOOLEAN
  PROVE  Spawned(d, auto, skip) \in Repairs /\ Spawned(d, auto, skip).pc = "assess" /\ Spawned(d, auto, skip).deck = d
<1> DEFINE r == RestingRepair
<1>1. r \in Repairs
  BY RepairRests
<1> HIDE DEF r
<1>2. LET s == [r EXCEPT !.pc = "assess", !.deck = d, !.auto = auto, !.skip = skip] IN
      s \in Repairs /\ s.pc = "assess" /\ s.deck = d
  BY <1>1 DEF Repairs, RepairPcs, SomeDeck
<1> QED  BY <1>2 DEF Spawned, r

LEMMA SameDecks == \A d : Same(deck[d], deck[d])
BY DEF Same

LEMMA StartRepairKeeps ==
  ASSUME RecoveryInv, NEW d \in Decks, NEW skip \in BOOLEAN, StartRepair(d, skip)
  PROVE  RecoveryInv'
<1>1. repair.pc = "idle"
  BY DEF StartRepair, RecoveryInv, Single
<1>2. PausedFor("repair") \in Uis /\ Starts(ui, PausedFor("repair"))
  BY PausedForTyped DEF StartRepair, AllCommands
<1>3. ui' \in Uis /\ ui'.repairing /\ ui'.requested = ui.requested /\ ui'.acting = ui.acting
  <2> DEFINE u == PausedFor("repair")
  <2>1. ui' = [u EXCEPT !.repairing = TRUE]
    BY DEF StartRepair
  <2> HIDE DEF u
  <2>2. u \in Uis /\ Starts(ui, u)
    BY <1>2 DEF u
  <2> QED  BY <2>1, <2>2 DEF Uis, Starts
<1>4. repair' \in Repairs /\ repair'.pc = "assess" /\ repair'.deck = d
  BY SpawnedTyped DEF StartRepair
<1> QED  BY <1>1, <1>3, <1>4, Actor, SameDecks, RepairThreadChanges DEF StartRepair

LEMMA RuntimeFailureKeeps ==
  ASSUME RecoveryInv, NEW d \in Decks, Asked("stall"), RuntimeFailure(d), state' \in States,
         UNCHANGED <<open, late, service, global, emergency>>
  PROVE  RecoveryInv'
<1> DEFINE given == Given(ui, "stall")
           alone == IF Playing(Other(d)) THEN OneDeck(given, Other(d)) ELSE given
<1>1. given \in Uis /\ Starts(ui, given) /\ Other(d) \in Decks
  BY PausedForTyped DEF AllCommands, Other, Decks
<1> HIDE DEF given
<1>2. alone \in Uis /\ Starts(ui, alone)
  <2>1. OneDeck(given, Other(d)) \in Uis /\ Starts(given, OneDeck(given, Other(d)))
    BY <1>1, UiMoves
  <2> QED  BY <1>1, <2>1 DEF Starts
<1>3. deck' \in [Decks -> DeckStates] /\ \A e \in Decks : Same(deck[e], deck'[e])
  BY Actor, DeckMoves, SameDecks DEF RuntimeFailure
<1>4. /\ IF ~ui.repairing /\ ~service.global
         THEN /\ repair' = Spawned(d, TRUE, TRUE)
              /\ ui' = [alone EXCEPT !.repairing = TRUE, !.recovering = @ \cup {d}]
         ELSE ui' = Paused(alone) /\ UNCHANGED repair
  BY DEF RuntimeFailure, given
<1> HIDE DEF alone
<1>5. CASE /\ ~ui.repairing /\ repair' = Spawned(d, TRUE, TRUE)
           /\ ui' = [alone EXCEPT !.repairing = TRUE, !.recovering = @ \cup {d}]
  <2>1. repair.pc = "idle"
    BY <1>5 DEF RecoveryInv, Single
  <2>2. ui' \in Uis /\ ui'.repairing /\ ui'.requested = ui.requested /\ ui'.acting = ui.acting
    BY <1>2, <1>5 DEF Uis, Starts
  <2>3. repair' \in Repairs /\ repair'.pc = "assess" /\ repair'.deck = d
    BY <1>5, SpawnedTyped
  <2> QED  BY <1>3, <2>1, <2>2, <2>3, RepairThreadChanges
<1>6. CASE ui' = Paused(alone) /\ UNCHANGED repair
  <2>1. ui' \in Uis /\ Starts(ui, ui')
    BY <1>2, <1>6, UiMoves DEF Starts
  <2> QED  BY <1>3, <1>6, <2>1, GuiKeeps
<1> QED  BY <1>4, <1>5, <1>6

LEMMA FoundTyped ==
  ASSUME RecoveryInv, NEW d \in Decks, FoundWell(d) \/ FoundDoubtful(d) \/ FoundFailed(d)
  PROVE  state' \in States
<1>1. \A h \in Healths : Health(state, d, h) \in States
  BY Actor, StateMoves
<1>2. \A h \in Healths : /\ Warned(Health(state, d, h)) \in States /\ Degraded(Health(state, d, h)) \in States
                         /\ Normalized(Health(state, d, h)) \in States
  BY <1>1, StateMoves
<1>3. CASE FoundWell(d)
  BY <1>2, <1>3, Actor, SomeWords DEF FoundWell
<1>4. CASE FoundDoubtful(d)
  BY <1>1, <1>2, <1>4, SomeWords DEF FoundDoubtful
<1>5. CASE FoundFailed(d)
  BY <1>2, <1>5, Actor, SomeWords DEF FoundFailed
<1> QED  BY <1>3, <1>4, <1>5

LEMMA StatusTickKeeps ==
  ASSUME RecoveryInv, NEW d \in Decks, StatusTick(d)
  PROVE  RecoveryInv'
<1>1. UNCHANGED <<open, late, service, global, emergency>>
  BY DEF StatusTick
<1>2. state' \in States
  BY FoundTyped DEF StatusTick
<1>3. CASE UNCHANGED <<deck, repair, ui>>
  BY <1>1, <1>2, <1>3, Actor, SameDecks, GuiKeeps DEF Starts, RecoveryInv, Types
<1>4. CASE Asked("stall") /\ ui' = Given(ui, "stall") /\ UNCHANGED <<deck, repair>>
  <2>1. ui' \in Uis /\ Starts(ui, ui')
    BY <1>4, PausedForTyped DEF AllCommands
  <2> QED  BY <1>1, <1>2, <1>4, <2>1, Actor, SameDecks, GuiKeeps
<1>5. CASE Asked("stall") /\ RuntimeFailure(d)
  BY <1>1, <1>2, <1>5, RuntimeFailureKeeps
<1> QED  BY <1>3, <1>4, <1>5 DEF StatusTick

LEMMA FinishRepairKeeps ==
  ASSUME RecoveryInv, FinishRepair
  PROVE  RecoveryInv'
<1>1. /\ repair.pc = "report" /\ repair.deck \in Decks /\ repair' = RestingRepair
      /\ UNCHANGED <<state, open, late, service, global, emergency>>
  BY DEF FinishRepair, Repairing, RecoveryInv, Types, RepairOK
<1> DEFINE quiet == [ui EXCEPT !.repairing = FALSE,
                               !.recovering = IF repair.auto THEN @ \ {repair.deck} ELSE @]
           done == [quiet EXCEPT !.validate = TRUE]
<1>2. quiet \in Uis /\ quiet.requested = ui.requested /\ quiet.acting = ui.acting
  <2> DEFINE left == IF repair.auto THEN ui.recovering \ {repair.deck} ELSE ui.recovering
  <2>1. left \in SUBSET Decks /\ ui \in Uis
    BY DEF RecoveryInv, Types, Uis
  <2>2. quiet = [ui EXCEPT !.repairing = FALSE, !.recovering = left]
    OBVIOUS
  <2> HIDE DEF left, quiet
  <2> QED  BY <2>1, <2>2 DEF Uis
<1>3. ui' \in {quiet, done, Paused(done), TwoDecks(done)}
  BY DEF FinishRepair
<1> HIDE DEF quiet
<1>4. done \in Uis /\ done.requested = ui.requested /\ done.acting = ui.acting
  BY <1>2 DEF Uis
<1> HIDE DEF done
<1>5. ui' \in Uis /\ ui'.requested = ui.requested /\ ui'.acting = ui.acting
  BY <1>2, <1>3, <1>4, UiMoves DEF Starts
<1>6. deck' \in [Decks -> DeckStates] /\ \A d \in Decks : Same(deck[d], deck'[d])
  <2>1. deck' \in {deck, MuteBoth(deck, FALSE), Mute(deck, repair.deck, FALSE)}
    BY DEF FinishRepair
  <2>2. CASE deck' = deck
    BY <2>2, Actor, SameDecks
  <2>3. CASE deck' = MuteBoth(deck, FALSE)
    BY <1>1, <2>3, Actor, DeckMoves
  <2>4. CASE deck' = Mute(deck, repair.deck, FALSE)
    BY <1>1, <2>4, Actor, DeckMoves
  <2> QED  BY <2>1, <2>2, <2>3, <2>4
<1> QED  BY <1>1, <1>5, <1>6, Actor, RepairRests, RepairThreadChanges

\* The thread of a global repair is new, or rests again.
LEMMA GlobalThreadChanges ==
  ASSUME RecoveryInv, global.pc \in {"idle", "report"}, ui' \in Uis,
         ui'.repairing = ui.repairing, ui'.acting = ui.acting,
         NEW pc \in {"idle", "assess"}, global' = [RestingGlobal EXCEPT !.pc = pc], pc = "assess" => ui'.requested,
         deck' \in [Decks -> DeckStates], \A d \in Decks : Same(deck[d], deck'[d]),
         UNCHANGED <<state, open, late, service, repair, emergency>>
  PROVE  RecoveryInv'
<1>1. PlayersOK' /\ GatedUntilConfirmed'
  BY GateStays DEF RecoveryInv, Types, PlayersOK
<1>2. /\ global' \in Globals /\ global'.pc = pc /\ global'.held = {} /\ global'.swapped = {}
      /\ global'.backend = [d \in Decks |-> NoBackend]
  <2> DEFINE r == RestingGlobal
  <2>1. r = [[r EXCEPT !.pc = "idle"] EXCEPT !.ok = FALSE]
    BY SameGlobal
  <2>2. r \in Globals /\ r.held = {} /\ r.swapped = {} /\ r.backend = [d \in Decks |-> NoBackend]
    BY <2>1, GlobalRests
  <2> HIDE DEF r
  <2>3. LET g == [r EXCEPT !.pc = pc] IN
        /\ g \in Globals /\ g.pc = pc /\ g.held = {} /\ g.swapped = {} /\ g.backend = [d \in Decks |-> NoBackend]
    BY <2>2 DEF Globals, GlobalPcs
  <2> QED  BY <2>3 DEF r
<1>3. GlobalOK'
  BY <1>2 DEF GlobalOK, GlobalStart, GlobalBody
<1>4. Types'
  BY <1>1, <1>3 DEF RecoveryInv, Types, RepairOK, EmergencyOK
<1>5. Single' /\ LocksHaveHolders'
  BY <1>2 DEF RecoveryInv, Single, LocksHaveHolders
<1> QED  BY <1>1, <1>4, <1>5 DEF RecoveryInv

LEMMA StartGlobalKeeps ==
  ASSUME RecoveryInv, StartGlobal
  PROVE  RecoveryInv'
<1>1. global.pc = "idle" /\ global' = [RestingGlobal EXCEPT !.pc = "assess"]
  BY DEF StartGlobal, RecoveryInv, Single
<1>2. ui' \in Uis /\ ui'.requested /\ ui'.repairing = ui.repairing /\ ui'.acting = ui.acting
  <2> DEFINE u == PausedFor("global")
  <2>1. u \in Uis /\ Starts(ui, u)
    BY PausedForTyped DEF StartGlobal, AllCommands
  <2>2. ui' = [u EXCEPT !.requested = TRUE, !.validate = TRUE]
    BY DEF StartGlobal
  <2> HIDE DEF u
  <2> QED  BY <2>1, <2>2 DEF Uis, Starts
<1>3. deck' \in [Decks -> DeckStates] /\ \A d \in Decks : Same(deck[d], deck'[d])
  BY Actor, Ranges, DeckMoves DEF StartGlobal
<1>4. UNCHANGED <<state, open, late, service, repair, emergency>>
  BY DEF StartGlobal
<1> QED  BY <1>1, <1>2, <1>3, <1>4, GlobalThreadChanges

LEMMA FinishGlobalKeeps ==
  ASSUME RecoveryInv, FinishGlobal
  PROVE  RecoveryInv'
<1>1. global.pc = "report" /\ UNCHANGED <<state, deck, open, late, service, repair, emergency>>
  BY DEF FinishGlobal, Globally
<1>2. ui' \in Uis /\ ui'.repairing = ui.repairing /\ ui'.acting = ui.acting
  BY DEF FinishGlobal, RecoveryInv, Types, Uis
<1>3. global' = [RestingGlobal EXCEPT !.pc = "idle"]
  <2> DEFINE r == RestingGlobal
  <2>1. r = [[r EXCEPT !.pc = "idle"] EXCEPT !.ok = FALSE]
    BY SameGlobal
  <2>2. r \in Globals /\ r.pc = "idle"
    BY <2>1, GlobalRests
  <2> HIDE DEF r
  <2>3. r = [r EXCEPT !.pc = "idle"]
    BY <2>2 DEF Globals
  <2> QED  BY <2>3 DEF FinishGlobal, r
<1> QED  BY <1>1, <1>2, <1>3, Actor, SameDecks, GlobalThreadChanges

\* The thread of an emergency action is new, or rests again.
LEMMA ActingThreadChanges ==
  ASSUME RecoveryInv, emergency' \in Emergencies, emergency'.prepared = emergency.prepared,
         emergency'.thread.pc \in {"idle", "prepare", "replace"},
         emergency'.thread.pc = "replace" => emergency'.thread.affected \in Decks,
         emergency'.thread.pc # "idle" => ui'.acting,
         ui' \in Uis, ui'.repairing = ui.repairing, ui'.requested = ui.requested,
         deck' \in [Decks -> DeckStates], UNCHANGED <<state, open, late, service, repair, global>>
  PROVE  RecoveryInv'
<1>1. PlayersOK' /\ GatedUntilConfirmed'
  BY DEF RecoveryInv, Types, PlayersOK, GatedUntilConfirmed
<1> QED  BY <1>1, OtherStepKeeps

LEMMA ActingUi ==
  ASSUME RecoveryInv, NEW c \in AllCommands, Asked(c),
         ui' = [PausedFor(c) EXCEPT !.acting = TRUE, !.validate = TRUE]
  PROVE  ui' \in Uis /\ ui'.acting /\ ui'.repairing = ui.repairing /\ ui'.requested = ui.requested
<1> DEFINE u == PausedFor(c)
<1>1. u \in Uis /\ Starts(ui, u)
  BY PausedForTyped
<1> HIDE DEF u
<1>2. LET v == [u EXCEPT !.acting = TRUE, !.validate = TRUE] IN
      v \in Uis /\ v.acting /\ v.repairing = ui.repairing /\ v.requested = ui.requested
  BY <1>1 DEF Uis, Starts
<1> QED  BY <1>2 DEF u

LEMMA StartEmergencyKeeps ==
  ASSUME RecoveryInv, StartEmergency
  PROVE  RecoveryInv'
<1>1. ui' \in Uis /\ ui'.acting /\ ui'.repairing = ui.repairing /\ ui'.requested = ui.requested
  BY ActingUi DEF StartEmergency, AllCommands
<1>2. Acts("prepare", emergency.thread.deck, emergency.prepared)
  BY ActsOn DEF StartEmergency, RecoveryInv, Types, EmergencyPcs
<1>3. UNCHANGED <<state, deck, open, late, service, repair, global>>
  BY DEF StartEmergency
<1> QED  BY <1>1, <1>2, <1>3, Actor, ActingThreadChanges DEF Acts

LEMMA StartReplaceKeeps ==
  ASSUME RecoveryInv, NEW d \in Decks, StartReplace(d)
  PROVE  RecoveryInv'
<1>1. ui' \in Uis /\ ui'.acting /\ ui'.repairing = ui.repairing /\ ui'.requested = ui.requested
  BY ActingUi DEF StartReplace, AllCommands
<1> DEFINE t == [pc |-> "replace", deck |-> NoDeck, affected |-> d]
<1>2. t \in [pc : EmergencyPcs, deck : SomeDeck, affected : SomeDeck] /\ t.pc = "replace" /\ t.affected = d
  BY DEF EmergencyPcs, SomeDeck
<1>3. emergency' = [emergency EXCEPT !.thread = t]
  BY DEF StartReplace
<1> HIDE DEF t
<1>4. emergency' \in Emergencies /\ emergency'.thread = t /\ emergency'.prepared = emergency.prepared
  BY <1>2, <1>3, Actor DEF Emergencies
<1>5. deck' \in [Decks -> DeckStates]
  BY Actor, DeckMoves DEF StartReplace
<1>6. UNCHANGED <<state, open, late, service, repair, global>>
  BY DEF StartReplace
<1> QED  BY <1>1, <1>2, <1>4, <1>5, <1>6, ActingThreadChanges

LEMMA FinishEmergencyKeeps ==
  ASSUME RecoveryInv, FinishEmergency
  PROVE  RecoveryInv'
<1>1. ui' \in Uis /\ ui'.repairing = ui.repairing /\ ui'.requested = ui.requested
  BY DEF FinishEmergency, RecoveryInv, Types, Uis
<1>2. RestingEmergency \in [pc : EmergencyPcs, deck : SomeDeck, affected : SomeDeck] /\ RestingEmergency.pc = "idle"
  BY DEF RestingEmergency, EmergencyPcs, SomeDeck
<1>3. emergency' \in Emergencies /\ emergency'.thread = RestingEmergency /\ emergency'.prepared = emergency.prepared
  BY <1>2, Actor DEF FinishEmergency, Emergencies
<1>4. UNCHANGED <<state, deck, open, late, service, repair, global>>
  BY DEF FinishEmergency
<1> QED  BY <1>1, <1>2, <1>3, <1>4, Actor, ActingThreadChanges

LEMMA DeviceKeeps ==
  ASSUME RecoveryInv, LoseDevice \/ ConfirmDevice
  PROVE  RecoveryInv'
<1>1. deck' \in [Decks -> DeckStates] /\ \A d \in Decks : Same(deck[d], deck'[d])
  BY Actor, Ranges, DeckMoves DEF LoseDevice, ConfirmDevice
<1>2. UNCHANGED <<open, late, service, repair, global, emergency>>
  BY DEF LoseDevice, ConfirmDevice
<1>3. CASE LoseDevice
  <2> DEFINE u == PausedFor("device")
             dead == [state EXCEPT !.health = [d \in Decks |-> "FAILED"]]
  <2>1. u \in Uis /\ Starts(ui, u)
    BY <1>3, PausedForTyped DEF LoseDevice, AllCommands
  <2>2. dead \in States /\ state.health \in [Decks -> Healths]
    BY Actor, SomeWords DEF States
  <2>3. ui' = [u EXCEPT !.lostHealth = <<state.health>>, !.validate = TRUE] /\ state' = Degraded(dead)
    BY <1>3 DEF LoseDevice
  <2> HIDE DEF u, dead
  <2>4. ui' \in Uis /\ Starts(ui, ui')
    BY <2>1, <2>2, <2>3 DEF Uis, Starts
  <2>5. state' \in States
    BY <2>2, <2>3, StateMoves
  <2> QED  BY <1>1, <1>2, <2>4, <2>5, GuiKeeps
<1>4. CASE ConfirmDevice
  <2>1. PICK h \in [Decks -> Healths] : ui.lostHealth = <<h>>
    BY <1>4 DEF ConfirmDevice, RecoveryInv, Types, Uis
  <2> DEFINE restored == [state EXCEPT !.health = h]
  <2>2. restored \in States
    BY Actor DEF States
  <2>3. state' = IF state.system = "DEGRADED" /\ AllHealthy(restored) THEN To(restored, "NORMAL") ELSE restored
    BY <1>4, <2>1 DEF ConfirmDevice
  <2> HIDE DEF restored
  <2>4. state' \in States
    BY <2>2, <2>3, StateMoves, SomeWords
  <2>5. ui' \in Uis /\ Starts(ui, ui')
    BY <1>4 DEF ConfirmDevice, RecoveryInv, Types, Uis, Starts
  <2> QED  BY <1>1, <1>2, <2>4, <2>5, GuiKeeps
<1> QED  BY <1>3, <1>4

LEMMA GuiCommandKeeps ==
  ASSUME RecoveryInv, ReleaseGlobalMute \/ ReturnToTwoDecks \/ StartAutomatic
  PROVE  RecoveryInv'
<1>1. UNCHANGED <<state, open, late, service, repair, global, emergency>>
  BY DEF ReleaseGlobalMute, ReturnToTwoDecks, StartAutomatic
<1>2. deck' \in [Decks -> DeckStates] /\ \A d \in Decks : Same(deck[d], deck'[d])
  <2>1. deck' \in {deck, MuteBoth(deck, FALSE)}
    BY DEF ReleaseGlobalMute, ReturnToTwoDecks, StartAutomatic
  <2> QED  BY <2>1, Actor, Ranges, SameDecks, DeckMoves
<1>3. ui' \in Uis /\ Starts(ui, ui')
  <2>1. CASE ReleaseGlobalMute
    BY <2>1 DEF ReleaseGlobalMute, RecoveryInv, Types, Uis, Starts
  <2>2. CASE ReturnToTwoDecks
    BY <2>2, UiMoves DEF ReturnToTwoDecks, RecoveryInv, Types
  <2>3. CASE StartAutomatic
    <3> DEFINE u == Given(ui, "start")
    <3>1. u \in Uis /\ Starts(ui, u) /\ ui' = [u EXCEPT !.running = TRUE, !.validate = FALSE]
      BY <2>3, PausedForTyped DEF StartAutomatic, AllCommands
    <3> HIDE DEF u
    <3> QED  BY <3>1 DEF Uis, Starts
  <2> QED  BY <2>1, <2>2, <2>3
<1> QED  BY <1>1, <1>2, <1>3, Actor, GuiKeeps

LEMMA LoadTitleKeeps ==
  ASSUME RecoveryInv, NEW d \in Decks, LoadTitle(d)
  PROVE  RecoveryInv'
<1>1. UNCHANGED <<open, late, service, global>>
  BY DEF LoadTitle
<1>2. /\ deck' \in [Decks -> DeckStates] /\ deck'[d].model.title = "music"
      /\ \A e \in Decks : e # d => deck'[e] = deck[e]
  BY Actor, LoadedTyped DEF LoadTitle, Titles
<1>3. PlayersOK'
  BY <1>1, <1>2, Actor, ReusableTyped DEF LoadTitle, RecoveryInv, Types, PlayersOK
<1>4. emergency' \in Emergencies /\ emergency'.thread = emergency.thread /\ emergency'.prepared = emergency.prepared
  BY Actor, Ranges DEF LoadTitle, Reloaded, Emergencies, SomeDeck
<1>5. ui' \in Uis /\ Starts(ui, ui')
  <2> DEFINE u == PausedFor("load")
  <2>1. u \in Uis /\ Starts(ui, u) /\ ui' = [u EXCEPT !.recovering = {}]
    BY PausedForTyped DEF LoadTitle, AllCommands
  <2> HIDE DEF u
  <2> QED  BY <2>1 DEF Uis, Starts
<1>6. /\ repair' \in Repairs /\ repair'.pc = repair.pc /\ repair'.deck = repair.deck
      /\ repair'.backend = repair.backend /\ repair'.previous = repair.previous
  BY DEF LoadTitle, RecoveryInv, Types, RepairOK, Repairs
<1>7. Types'
  BY <1>1, <1>3, <1>4, <1>5, <1>6 DEF RecoveryInv, Types, RepairOK, GlobalOK, EmergencyOK
<1>8. Single' /\ LocksHaveHolders'
  BY <1>1, <1>4, <1>5, <1>6 DEF RecoveryInv, Single, LocksHaveHolders, Starts
<1>9. GatedUntilConfirmed'
  BY <1>2, <1>4 DEF RecoveryInv, GatedUntilConfirmed, Title
<1> QED  BY <1>7, <1>8, <1>9 DEF RecoveryInv

LEMMA PlayingKeeps ==
  ASSUME RecoveryInv, NEW d \in Decks, StartTitle(d) \/ TitleEnds(d)
  PROVE  RecoveryInv'
<1>1. deck' \in [Decks -> DeckStates] /\ \A e \in Decks : Same(deck[e], deck'[e])
  BY Actor, DeckMoves DEF StartTitle, TitleEnds
<1>2. ui' \in Uis /\ Starts(ui, ui')
  <2>1. ui \in Uis /\ Starts(ui, ui)
    BY DEF RecoveryInv, Types, Starts
  <2> QED  BY <2>1, PausedForTyped DEF StartTitle, TitleEnds, AllCommands
<1>3. UNCHANGED <<state, open, late, service, repair, global, emergency>>
  BY DEF StartTitle, TitleEnds
<1> QED  BY <1>1, <1>2, <1>3, Actor, GuiKeeps
----------------------------------------------------------------------------
(* The invariant of the recovery service.                                  *)

LEMMA InitRecovery ==
  ASSUME Init
  PROVE  RecoveryInv
<1>1. PlayersOK
  <2>1. state \in States
    BY DEF Init, States, Systems, Healths
  <2>2. deck \in [Decks -> DeckStates]
    BY Ranges DEF Init, Model, DeckStates, Models, Titles
  <2> QED  BY <2>1, <2>2, Ranges DEF Init, PlayersOK
<1>2. service \in Services
  BY Ranges, SomeWords DEF Init, Services
<1>3. RepairOK
  BY RepairRests DEF Init, RepairOK, RepairBody
<1>4. GlobalOK /\ global.pc = "idle" /\ global.held = {}
  <2> DEFINE r == RestingGlobal
  <2>1. r.pc = "idle" /\ r.ok = FALSE /\ r \in Globals /\ r.held = {} /\ r.swapped = {}
        /\ r.backend = [d \in Decks |-> NoBackend]
    BY DEF RestingGlobal, Globals, GlobalPcs, EmptyModel, Model, Models, Titles, Nothing, Healths, SomeBackend
  <2> HIDE DEF r
  <2> QED  BY <2>1 DEF Init, GlobalOK, GlobalBody, GlobalStart, r
<1>5. EmergencyOK /\ emergency.thread.pc = "idle"
  BY DEF Init, EmergencyOK, Emergencies, RestingEmergency, EmergencyPcs, SomeDeck
<1>6. ui \in Uis
  BY RecoveryAssumption DEF Init, Uis, SomeDeck
<1>7. Single /\ LocksHaveHolders /\ GatedUntilConfirmed
  BY <1>4, <1>5, RepairRests DEF Init, Single, LocksHaveHolders, GatedUntilConfirmed
<1> QED  BY <1>1, <1>2, <1>3, <1>4, <1>5, <1>6, <1>7 DEF RecoveryInv, Types

LEMMA NextKeeps ==
  ASSUME RecoveryInv, [Next]_vars
  PROVE  RecoveryInv'
<1>1. CASE RepairThread \/ GlobalThread \/ EmergencyThread \/ HandoverEnds \/ LateOperationEnds
  BY <1>1, RepairThreadKeeps, GlobalThreadKeeps, EmergencyThreadKeeps, HandoverEndsKeeps, LateOperationEndsKeeps
<1>2. CASE Results \/ Command
  BY <1>2, FinishRepairKeeps, FinishGlobalKeeps, FinishEmergencyKeeps, StartGlobalKeeps, StartEmergencyKeeps,
     DeviceKeeps, GuiCommandKeeps DEF Results, Command
<1>3. ASSUME NEW d \in Decks, DeckCommand(d) PROVE RecoveryInv'
  BY <1>3, StartRepairKeeps, StatusTickKeeps, StartReplaceKeeps, LoadTitleKeeps, PlayingKeeps DEF DeckCommand
<1>4. CASE UNCHANGED vars
  <2>1. Types'
    BY <1>4 DEF vars, RecoveryInv, Types, PlayersOK, RepairOK, GlobalOK, EmergencyOK
  <2>2. Single' /\ LocksHaveHolders' /\ GatedUntilConfirmed'
    BY <1>4 DEF vars, RecoveryInv, Single, LocksHaveHolders, GatedUntilConfirmed, Title
  <2> QED  BY <2>1, <2>2 DEF RecoveryInv
<1> QED  BY <1>1, <1>2, <1>3, <1>4 DEF Next

\* The invariant on which everything else here rests.
THEOREM RecoveryInvariant == Spec => []RecoveryInv
<1>1. Init => RecoveryInv
  BY InitRecovery
<1>2. RecoveryInv /\ [Next]_vars => RecoveryInv'
  BY NextKeeps
<1> QED  BY <1>1, <1>2, PTL DEF Spec

\* States, backends, locks and counters keep their types: no deck and no global repair is tried more
\* often than its limit (_maximum_attempts, _maximum_global_attempts).
THEOREM RecoveryTypes == Spec => []TypeOK
<1>1. RecoveryInv => TypeOK
  BY DEF RecoveryInv, Types, PlayersOK, States, DeckStates, Models, Services, TypeOK
<1> QED  BY <1>1, RecoveryInvariant, PTL

\* Every lock of AudioRecoveryService has a living holder (the `finally` of recover_deck and of
\* recover_all_backends, also where an illegal state transition ends the thread).
THEOREM LocksAreHeld == Spec => []LocksHaveHolders
<1>1. RecoveryInv => LocksHaveHolders
  BY DEF RecoveryInv
<1> QED  BY <1>1, RecoveryInvariant, PTL

\* An emergency title is not heard before its start was confirmed.
THEOREM EmergencyIsGated == Spec => []ConfirmedBeforeHeard
<1>1. RecoveryInv => ConfirmedBeforeHeard
  BY DEF RecoveryInv, GatedUntilConfirmed, ConfirmedBeforeHeard, Audible
<1> QED  BY <1>1, RecoveryInvariant, PTL
----------------------------------------------------------------------------
(* No audio player is left behind.                                         *)

\* What is in the hands of the two repairs, one fact at a time.
LEMMA InHands ==
  /\ \A b : b \in HeldByRepair <=> \/ repair.pc \in {"media", "commit", "fail"} /\ b = repair.backend
                                   \/ repair.pc = "release" /\ b = repair.previous
  /\ \A b : b \in InHand <=> /\ global.pc \in {"build", "swap", "release", "fail"} /\ b # NoBackend
                             /\ \E d \in Decks : b = global.backend[d]
BY DEF HeldByRepair, Repairing, InHand, Replacements

LEMMA InHandsNext ==
  /\ \A b : b \in HeldByRepair' <=> \/ repair'.pc \in {"media", "commit", "fail"} /\ b = repair'.backend
                                    \/ repair'.pc = "release" /\ b = repair'.previous
  /\ \A b : b \in InHand' <=> /\ global'.pc \in {"build", "swap", "release", "fail"} /\ b # NoBackend
                              /\ \E d \in Decks : b = global'.backend[d]
BY DEF HeldByRepair, Repairing, InHand, Replacements

\* A step that creates nothing, and lets go of nothing that is still open.
LEMMA StillAccounted ==
  ASSUME AllAccounted, open' \subseteq open, late \subseteq late',
         \A d \in Decks : deck'[d].backend = deck[d].backend,
         \A b \in open' : b \in HeldByRepair \cup InHand =>
                            b \in HeldByRepair' \cup InHand' \/ Outlasting(b, "close") \in late'
  PROVE  AllAccounted'
BY DEF AllAccounted, Accounted, Outlasting

LEMMA SameHands ==
  ASSUME repair'.pc = repair.pc, repair'.backend = repair.backend, repair'.previous = repair.previous, global' = global
  PROVE  HeldByRepair' = HeldByRepair /\ InHand' = InHand
BY DEF HeldByRepair, Repairing, InHand, Replacements

LEMMA RepairThreadAccounts ==
  ASSUME PlayersInv, RepairThread, ReleaseFaults \subseteq {"late"}
  PROVE  AllAccounted'
<1>1. global' = global /\ RecoveryInv /\ AllAccounted
  BY DEF PlayersInv, RepairThread, RepairAssess, RepairLock, RepairWarn, RepairEnter, RepairCreate, RepairMedia,
         RepairCommit, RepairRelease, RepairSucceed, RepairFail, RepairLeave
<1>2. InHand' = InHand
  BY <1>1 DEF InHand, Replacements
<1>3. CASE RepairAssess \/ RepairLock \/ RepairWarn \/ RepairEnter \/ RepairSucceed \/ RepairLeave
  <2>1. repair.pc \in {"assess", "lock", "warn", "enter", "succeed", "succeedPending", "leave"}
    BY <1>3 DEF RepairAssess, RepairLock, RepairWarn, RepairEnter, RepairSucceed, RepairLeave, Repairing
  <2>2. UNCHANGED <<deck, open, late>>
    BY <1>3 DEF RepairAssess, RepairLock, RepairWarn, RepairEnter, RepairSucceed, RepairLeave
  <2>3. HeldByRepair = {}
    BY <2>1, InHands
  <2> QED  BY <1>1, <1>2, <2>2, <2>3, StillAccounted
<1>4. CASE RepairCreate
  <2>1. deck' = deck
    BY <1>4 DEF RepairCreate
  <2>2. HeldByRepair = {}
    BY <1>1, <1>4, CreateCases, InHands
  <2>3. open' \subseteq open \cup {Fresh} /\ late \subseteq late'
        /\ (Fresh \in open' => Fresh \in open \/ Fresh \in HeldByRepair' \/ Outlasting(Fresh, "close") \in late')
    BY <1>1, <1>4, CreateCases, InHandsNext DEF Hands
  <2> QED  BY <1>1, <1>2, <2>1, <2>2, <2>3 DEF AllAccounted, Accounted, Outlasting
<1>5. CASE RepairMedia
  <2>1. UNCHANGED <<deck, open>> /\ late \subseteq late'
    BY <1>5 DEF RepairMedia
  <2>2. HeldByRepair = {repair.backend}
    BY <1>1, <1>5, MediaCases, InHands
  <2>3. repair.backend \in HeldByRepair' \/ Outlasting(repair.backend, "close") \in late'
    BY <1>1, <1>5, MediaCases, InHandsNext DEF Hands
  <2> QED  BY <1>1, <1>2, <2>1, <2>2, <2>3, StillAccounted
<1>6. CASE RepairCommit
  <2>1. UNCHANGED <<open, late>>
    BY <1>6 DEF RepairCommit
  <2>2. HeldByRepair = {repair.backend}
    BY <1>1, <1>6, CommitCase, InHands
  <2>3. deck[repair.deck].backend \in HeldByRepair'
    BY <1>1, <1>6, CommitCase, InHandsNext DEF Hands
  <2>4. deck'[repair.deck].backend = repair.backend /\ repair.deck \in Decks
        /\ \A d \in Decks : d # repair.deck => deck'[d].backend = deck[d].backend
    BY <1>1, <1>6, CommitCase
  <2> QED  BY <1>1, <1>2, <2>1, <2>2, <2>3, <2>4 DEF AllAccounted, Accounted, Outlasting
<1>7. CASE RepairRelease
  <2>1. deck' = deck /\ repair.pc = "release"
    BY <1>7 DEF RepairRelease, Repairing
  <2>2. HeldByRepair = {repair.previous}
    BY <2>1, InHands
  <2>3. \/ open' = open \ {repair.previous} /\ late' = late
        \/ open' = open /\ late' = late \cup {Outlasting(repair.previous, "close")}
    BY <1>7 DEF RepairRelease, Released, ReleasedLate, NotReleased
  <2> QED  BY <1>1, <1>2, <2>1, <2>2, <2>3, StillAccounted
<1>8. CASE RepairFail
  <2>1. UNCHANGED <<deck, late>> /\ open' = open \ {repair.backend} /\ repair.pc = "fail"
    BY <1>8 DEF RepairFail, Repairing
  <2>2. HeldByRepair = {repair.backend}
    BY <2>1, InHands
  <2> QED  BY <1>1, <1>2, <2>1, <2>2, StillAccounted
<1> QED  BY <1>3, <1>4, <1>5, <1>6, <1>7, <1>8 DEF RepairThread

LEMMA GlobalThreadAccounts ==
  ASSUME PlayersInv, GlobalThread, ReleaseFaults \subseteq {"late"}
  PROVE  AllAccounted'
<1>1. repair' = repair /\ RecoveryInv /\ AllAccounted
  BY DEF PlayersInv, GlobalThread, GlobalAssess, GlobalLock, GlobalWarn, GlobalEnter, GlobalBuild, GlobalFail,
         GlobalSwap, GlobalRelease, GlobalSucceed, GlobalLeave
<1>2. HeldByRepair' = HeldByRepair
  BY <1>1 DEF HeldByRepair, Repairing
<1>3. CASE GlobalAssess \/ GlobalLock \/ GlobalWarn \/ GlobalEnter \/ GlobalSucceed \/ GlobalLeave
  <2>1. global.pc \in {"assess", "lock", "warn", "enter", "succeed", "leave"}
    BY <1>3 DEF GlobalAssess, GlobalLock, GlobalWarn, GlobalEnter, GlobalSucceed, GlobalLeave, Globally
  <2>2. UNCHANGED <<deck, open, late>>
    BY <1>3 DEF GlobalAssess, GlobalLock, GlobalWarn, GlobalEnter, GlobalSucceed, GlobalLeave
  <2>3. InHand = {}
    BY <2>1, InHands
  <2> QED  BY <1>1, <1>2, <2>2, <2>3, StillAccounted
<1>4. CASE GlobalBuild
  <2>1. deck' = deck /\ global.pc = "build"
    BY <1>4 DEF GlobalBuild, Globally
  <2>2. global.backend[NextDeck] = NoBackend /\ NextDeck \in Decks /\ global.backend \in [Decks -> SomeBackend]
        /\ Fresh # NoBackend
    BY <1>1, <1>4, <2>1, BuildCases, Ranges DEF NextDeck, Decks, RecoveryInv, Types, GlobalOK, Globals
  <2>3. \A b \in InHand : b # NoBackend /\ \E d \in Decks : d # NextDeck /\ b = global.backend[d]
    BY <2>2, InHands
  <2>4. CASE \E pc \in {"swap", "build", "fail"} : Holds(pc, Filled) /\ open' = open \cup {Fresh} /\ late \subseteq late'
    <3>1. Fresh \in InHand' /\ InHand \subseteq InHand'
      BY <2>2, <2>3, <2>4, InHandsNext DEF Holds, Filled
    <3> QED  BY <1>1, <1>2, <2>1, <2>4, <3>1 DEF AllAccounted, Accounted, Outlasting
  <2>5. CASE /\ Holds("fail", global.backend)
             /\ \/ open' = open \cup {Fresh} /\ late' = late \cup {Outlasting(Fresh, "close")}
                \/ UNCHANGED <<open, late>>
    <3>1. InHand \subseteq InHand'
      BY <2>5, InHands, InHandsNext DEF Holds
    <3> QED  BY <1>1, <1>2, <2>1, <2>5, <3>1 DEF AllAccounted, Accounted, Outlasting
  <2> QED  BY <1>1, <1>4, <2>4, <2>5, BuildCases
<1>5. CASE GlobalFail
  <2>1. UNCHANGED <<deck, late>> /\ open' = open \ Replacements /\ global.pc = "fail"
    BY <1>5 DEF GlobalFail, Globally
  <2>2. InHand = Replacements
    BY <2>1 DEF InHand
  <2> QED  BY <1>1, <1>2, <2>1, <2>2, StillAccounted
<1>6. CASE GlobalSwap
  <2>1. UNCHANGED <<open, late>>
    BY <1>6 DEF GlobalSwap
  <2>2. SwapDeck \in Decks /\ deck[SwapDeck].backend \in Backends
    BY <1>1, DeckHasBackend DEF SwapDeck, Decks, RecoveryInv, Types
  <2>3. deck[SwapDeck].backend \in InHand'
    BY <1>1, <1>6, <2>2, SwapCase, InHandsNext, Ranges
  <2>4. \A b \in InHand : b \in InHand' \/ b = deck'[SwapDeck].backend
    BY <1>1, <1>6, <2>2, SwapCase, InHands, InHandsNext
  <2>5. \A d \in Decks : d # SwapDeck => deck'[d].backend = deck[d].backend
    BY <1>1, <1>6, SwapCase
  <2> QED  BY <1>1, <1>2, <2>1, <2>2, <2>3, <2>4, <2>5 DEF AllAccounted, Accounted, Outlasting
<1>7. CASE GlobalRelease
  <2> DEFINE b0 == global.backend[ReleaseDeck]
  <2>1. deck' = deck /\ global.backend \in [Decks -> SomeBackend]
    BY <1>1, <1>7 DEF GlobalRelease, RecoveryInv, Types, GlobalOK, Globals
  <2>2. \/ open' = open \ {b0} /\ late' = late
        \/ open' = open /\ late' = late \cup {Outlasting(b0, "close")}
    BY <1>1, <1>7, ReleaseCase DEF Released, ReleasedLate, NotReleased
  <2>3. \A b \in InHand : b = b0 \/ b \in InHand'
    <3>1. CASE ReleaseDeck = "A"
      BY <1>1, <1>7, <2>1, <3>1, ReleaseCase, InHands, InHandsNext
    <3>2. CASE ReleaseDeck = "B"
      <4>1. global.backend["A"] = NoBackend
        BY <1>1, <1>7, <3>2, ReleaseCase DEF ReleaseDeck, RecoveryInv, Types, GlobalOK
      <4> QED  BY <3>2, <4>1, InHands DEF Decks
    <3> QED  BY <3>1, <3>2 DEF ReleaseDeck
  <2> QED  BY <1>1, <1>2, <2>1, <2>2, <2>3, StillAccounted
<1> QED  BY <1>3, <1>4, <1>5, <1>6, <1>7 DEF GlobalThread

LEMMA LateOperationAccounts ==
  ASSUME AllAccounted, LateOperationEnds
  PROVE  AllAccounted'
<1>1. HeldByRepair' = HeldByRepair /\ InHand' = InHand
  BY SameHands DEF LateOperationEnds
<1>2. PICK op \in late : /\ late' = late \ {op}
                         /\ open' = IF op.then = "close" THEN open \ {op.backend} ELSE open
  BY DEF LateOperationEnds
<1>3. \A b : Outlasting(b, "close") = op => op.then = "close" /\ op.backend = b
  BY DEF Outlasting
<1> QED  BY <1>1, <1>2, <1>3 DEF LateOperationEnds, AllAccounted, Accounted, Outlasting

\* No other step gives a deck another backend.
SamePlayers(dk, to) == \A d \in Decks : to[d].backend = dk[d].backend

LEMMA PlayersStay ==
  ASSUME NEW dk \in [Decks -> DeckStates], NEW d \in Decks, NEW on \in BOOLEAN
  PROVE  /\ SamePlayers(dk, Mute(dk, d, on)) /\ SamePlayers(dk, MuteBoth(dk, on))
         /\ SamePlayers(dk, Play(dk, d, on)) /\ SamePlayers(dk, Gated(dk, d))
         /\ \A t \in Titles : SamePlayers(dk, Loaded(dk, d, t))
<1>1. \A e \in Decks : Gated(dk, d)[e].backend = dk[e].backend
  BY DEF Gated, DeckStates
<1>2. ASSUME NEW t \in Titles PROVE \A e \in Decks : Loaded(dk, d, t)[e].backend = dk[e].backend
  BY LoadedTyped
<1>3. /\ \A e \in Decks : Mute(dk, d, on)[e].backend = dk[e].backend
      /\ \A e \in Decks : MuteBoth(dk, on)[e].backend = dk[e].backend
      /\ \A e \in Decks : Play(dk, d, on)[e].backend = dk[e].backend
  BY DeckMoves DEF Same
<1> QED  BY <1>1, <1>2, <1>3 DEF SamePlayers

LEMMA EmergencyKeepsPlayers ==
  ASSUME RecoveryInv, EmergencyThread \/ HandoverEnds
  PROVE  SamePlayers(deck, deck')
<1>1. deck \in [Decks -> DeckStates] /\ SamePlayers(deck, deck)
  BY Actor DEF SamePlayers
<1>2. CASE EmergencyReplace
  <2> DEFINE d == emergency.thread.affected
             muted == Mute(deck, d, TRUE)
  <2>1. d \in Decks
    BY <1>2 DEF EmergencyReplace, Acting, RecoveryInv, Types, EmergencyOK
  <2>2. muted \in [Decks -> DeckStates] /\ SamePlayers(deck, muted)
    BY <1>1, <2>1, DeckMoves, PlayersStay
  <2>3. deck' = Play(muted, d, FALSE)
    BY <1>2 DEF EmergencyReplace
  <2> HIDE DEF muted
  <2>4. SamePlayers(muted, deck')
    BY <2>1, <2>2, <2>3, PlayersStay
  <2> QED  BY <2>2, <2>4 DEF SamePlayers
<1>3. CASE EmergencyPrepare
  <2>1. deck' = deck \/ deck' = Gated(deck, "A") \/ deck' = Gated(deck, "B")
    BY <1>3 DEF EmergencyPrepare
  <2> QED  BY <1>1, <2>1, Ranges, PlayersStay
<1>4. CASE EmergencyLoad
  <2> DEFINE d == emergency.thread.deck
             loaded == Loaded(deck, d, "emergency")
             gated == Gated(loaded, d)
  <2>1. d \in Decks
    BY <1>4 DEF EmergencyLoad, Acting, RecoveryInv, Types, EmergencyOK
  <2>2. loaded \in [Decks -> DeckStates] /\ SamePlayers(deck, loaded)
    BY <1>1, <2>1, LoadedTyped, PlayersStay DEF Titles
  <2> HIDE DEF loaded
  <2>3. gated \in [Decks -> DeckStates] /\ SamePlayers(loaded, gated)
    BY <2>1, <2>2, DeckMoves, PlayersStay
  <2> HIDE DEF gated
  <2>4. SamePlayers(gated, Mute(gated, d, TRUE))
    BY <2>1, <2>3, PlayersStay
  <2>5. deck' = deck \/ deck' = Mute(gated, d, TRUE)
    BY <1>4 DEF EmergencyLoad, gated, loaded
  <2> QED  BY <1>1, <2>2, <2>3, <2>4, <2>5 DEF SamePlayers
<1>5. CASE EmergencyActivate
  <2> DEFINE d == emergency.prepared
             gated == Gated(deck, d)
  <2>1. CASE d = NoDeck
    BY <1>1, <1>5, <2>1 DEF EmergencyActivate
  <2>2. CASE d # NoDeck
    <3>1. d \in Decks
      BY <2>2, Actor DEF SomeDeck
    <3>2. gated \in [Decks -> DeckStates] /\ SamePlayers(deck, gated)
      BY <1>1, <3>1, DeckMoves, PlayersStay
    <3>3. deck' = deck \/ deck' = gated \/ deck' = Play(gated, d, TRUE)
      BY <1>5 DEF EmergencyActivate
    <3> HIDE DEF gated
    <3>4. SamePlayers(gated, Play(gated, d, TRUE))
      BY <3>1, <3>2, PlayersStay
    <3> QED  BY <1>1, <3>2, <3>3, <3>4 DEF SamePlayers
  <2> QED  BY <2>1, <2>2
<1>6. CASE EmergencyConfirm
  BY <1>1, <1>6 DEF EmergencyConfirm, DeckStates, SamePlayers
<1>7. CASE HandoverEnds
  <2>1. emergency.handover \in Decks
    BY <1>7, Actor DEF HandoverEnds, SomeDeck
  <2> QED  BY <1>1, <1>7, <2>1, PlayersStay DEF HandoverEnds
<1> QED  BY <1>2, <1>3, <1>4, <1>5, <1>6, <1>7 DEF EmergencyThread

LEMMA GuiKeepsPlayers ==
  ASSUME RecoveryInv, Results \/ Command \/ \E d \in Decks : DeckCommand(d)
  PROVE  SamePlayers(deck, deck')
<1>1. deck \in [Decks -> DeckStates] /\ SamePlayers(deck, deck)
  BY Actor DEF SamePlayers
<1>2. CASE Results \/ Command
  <2>1. CASE FinishRepair
    <3>1. deck' \in {deck, MuteBoth(deck, FALSE), Mute(deck, repair.deck, FALSE)} /\ repair.deck \in Decks
      BY <2>1 DEF FinishRepair, Repairing, RecoveryInv, Types, RepairOK
    <3> QED  BY <1>1, <3>1, PlayersStay
  <2>2. CASE ~FinishRepair
    <3>1. deck' \in {deck, MuteBoth(deck, TRUE), MuteBoth(deck, FALSE)}
      BY <1>2, <2>2 DEF Results, FinishGlobal, FinishEmergency, Command, StartGlobal, ReleaseGlobalMute,
         StartEmergency, LoseDevice, ConfirmDevice, ReturnToTwoDecks, StartAutomatic
    <3> QED  BY <1>1, <3>1, Ranges, PlayersStay
  <2> QED  BY <2>1, <2>2
<1>3. ASSUME NEW d \in Decks, DeckCommand(d) PROVE SamePlayers(deck, deck')
  <2>1. CASE \E skip \in BOOLEAN : StartRepair(d, skip)
    BY <1>1, <2>1 DEF StartRepair
  <2>2. CASE StatusTick(d)
    <3>1. deck' = deck \/ deck' = Mute(deck, d, TRUE)
      BY <2>2 DEF StatusTick, RuntimeFailure
    <3> QED  BY <1>1, <3>1, PlayersStay
  <2>3. CASE StartReplace(d)
    BY <1>1, <2>3, PlayersStay DEF StartReplace
  <2>4. CASE LoadTitle(d)
    BY <1>1, <2>4, PlayersStay DEF LoadTitle, Titles
  <2>5. CASE StartTitle(d) \/ TitleEnds(d)
    BY <1>1, <2>5, PlayersStay DEF StartTitle, TitleEnds
  <2> QED  BY <1>3, <2>1, <2>2, <2>3, <2>4, <2>5 DEF DeckCommand
<1> QED  BY <1>2, <1>3

LEMMA OthersAccount ==
  ASSUME PlayersInv, EmergencyThread \/ HandoverEnds \/ Results \/ Command \/ \E e \in Decks : DeckCommand(e)
  PROVE  AllAccounted'
<1>1. RecoveryInv /\ AllAccounted /\ UNCHANGED <<open, late>>
  BY DEF PlayersInv, EmergencyThread, EmergencyReplace, EmergencyPrepare, EmergencyLoad, EmergencyActivate,
     EmergencyConfirm, HandoverEnds, Results, FinishRepair, FinishGlobal, FinishEmergency, Command, StartGlobal,
     ReleaseGlobalMute, StartEmergency, LoseDevice, ConfirmDevice, ReturnToTwoDecks, StartAutomatic,
     DeckCommand, StartRepair, StatusTick, StartReplace, LoadTitle, StartTitle, TitleEnds
<1>2. HeldByRepair \subseteq HeldByRepair'
  <2>1. CASE repair' = repair
    BY <2>1 DEF HeldByRepair, Repairing
  <2>2. CASE repair.pc \in {"idle", "report"}
    BY <2>2, InHands
  <2>3. CASE repair' = [repair EXCEPT !.stale = TRUE]
    <3>1. repair'.pc = repair.pc /\ repair'.backend = repair.backend /\ repair'.previous = repair.previous
      BY <1>1, <2>3 DEF RecoveryInv, Types, RepairOK, Repairs
    <3> QED  BY <3>1, InHands, InHandsNext
  <2> QED
    BY <1>1, <2>1, <2>2, <2>3
       DEF RecoveryInv, Single, EmergencyThread, EmergencyReplace, EmergencyPrepare, EmergencyLoad, EmergencyActivate,
           EmergencyConfirm, HandoverEnds, Results, FinishRepair, FinishGlobal, FinishEmergency, Command, StartGlobal,
           ReleaseGlobalMute, StartEmergency, LoseDevice, ConfirmDevice, ReturnToTwoDecks, StartAutomatic,
           DeckCommand, StartRepair, StatusTick, RuntimeFailure, StartReplace, LoadTitle, StartTitle, TitleEnds, Repairing
<1>3. InHand \subseteq InHand'
  <2>1. CASE global' = global
    BY <2>1 DEF InHand, Replacements
  <2>2. CASE global.pc \in {"idle", "report"}
    BY <2>2, InHands
  <2> QED
    BY <1>1, <2>1, <2>2
       DEF RecoveryInv, Single, EmergencyThread, EmergencyReplace, EmergencyPrepare, EmergencyLoad, EmergencyActivate,
           EmergencyConfirm, HandoverEnds, Results, FinishRepair, FinishGlobal, FinishEmergency, Command, StartGlobal,
           ReleaseGlobalMute, StartEmergency, LoseDevice, ConfirmDevice, ReturnToTwoDecks, StartAutomatic,
           DeckCommand, StartRepair, StatusTick, StartReplace, LoadTitle, StartTitle, TitleEnds, Globally
<1>4. SamePlayers(deck, deck')
  BY <1>1, EmergencyKeepsPlayers, GuiKeepsPlayers
<1> QED  BY <1>1, <1>2, <1>3, <1>4, StillAccounted DEF SamePlayers

LEMMA AccountsStay ==
  ASSUME PlayersInv, [Next]_vars, ReleaseFaults \subseteq {"late"}
  PROVE  PlayersInv'
<1>1. RecoveryInv'
  BY NextKeeps DEF PlayersInv
<1>2. CASE UNCHANGED vars
  <2>1. HeldByRepair' = HeldByRepair /\ InHand' = InHand
    BY <1>2, SameHands DEF vars
  <2> QED  BY <1>1, <1>2, <2>1, StillAccounted DEF vars, PlayersInv
<1>3. AllAccounted'
  BY <1>2, RepairThreadAccounts, GlobalThreadAccounts, LateOperationAccounts, OthersAccount DEF Next, PlayersInv
<1> QED  BY <1>1, <1>3 DEF PlayersInv

LEMMA InitAccounts ==
  ASSUME Init
  PROVE  AllAccounted
BY Ranges DEF Init, AllAccounted, Accounted, Decks

\* No audio player is left behind, as long as releasing the previous backend is at worst late
\* (release_recovered_backend; where it is refused or never starts, the code itself forgets it).
THEOREM PlayersAreAccounted ==
  ASSUME ReleaseFaults \subseteq {"late"}
  PROVE  Spec => []BackendsAccounted
<1>1. Init => PlayersInv
  BY InitRecovery, InitAccounts DEF PlayersInv
<1>2. PlayersInv /\ [Next]_vars => PlayersInv'
  BY AccountsStay
<1>3. PlayersInv => BackendsAccounted
  BY DEF PlayersInv, AllAccounted, Accounted, InHand, BackendsAccounted
<1> QED  BY <1>1, <1>2, <1>3, PTL DEF Spec
=============================================================================
