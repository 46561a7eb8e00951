SPECIFICATION Spec
CONSTANTS
  Entries = {e1,e2}
  DeckA = "A"
  DeckB = "B"
  Capacity = 2
  MaxEvents = 0
  Operators = {"load","play","remove","move","retry","pause"}
  Slow = {"prepare"}
  Failing = {"adopt","persist","handover"}
SYMMETRY Symmetry
INVARIANTS TypeOK
 
CHECK_DEADLOCK FALSE
