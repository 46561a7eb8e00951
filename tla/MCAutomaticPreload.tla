------------------------ MODULE MCAutomaticPreload ------------------------
(* For TLC: the entries are interchangeable, as the queue's order is left open; the decks are not, *)
(* deck A is asked first. *)
EXTENDS AutomaticPreload, TLC

Symmetry == Permutations(Entries)
=============================================================================
