-------------------------- MODULE MCQueueLifecycle --------------------------
(* For TLC: entries are interchangeable, and so are decks: nothing in QueueLifecycle compares them. *)
EXTENDS QueueLifecycle, TLC

Symmetry == Permutations(Entries) \cup Permutations(Decks)
=============================================================================
