---------------------------- MODULE MCTransition ----------------------------
(* Small instances of Transition: what may happen besides the run itself.  *)
EXTENDS Transition

Events == AllCommands \cup AllFaults
Budget(s) == [c \in Events |-> Cardinality({i \in DOMAIN s : s[i] = c})]

Nobody == {Budget(<< >>)}

\* Any command or fault alone; what pauses or stops the run, with a resume; any fault with
\* a failing start or a second time; two seeks.
MCScenarios ==
  Nobody \cup {Budget(<<x>>) : x \in Events}
         \cup {Budget(<<x, "resume">>) : x \in {"pause", "fader", "load", "seek"}}
         \cup {Budget(<<"deckpause", "deckresume">>), Budget(<<"seek", "seek">>)}
         \cup {Budget(<<x, y>>) : x \in AllFaults, y \in {"dead", "lost"}}
=============================================================================
