-------------------------- MODULE MCSelectionPlan --------------------------
(* SelectionPlan with numbers for TLC: what can meet a plan, one or two    *)
(* things at a time.                                                       *)
EXTENDS SelectionPlan

Encounters == {{"adopt"}, {"dialog"}, {"end", "drop"}, {"restart"}, {"foreign", "close"}}
=============================================================================
