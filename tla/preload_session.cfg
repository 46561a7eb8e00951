SPECIFICATION FairSpec
CONSTANTS
  Entries = {e1,e2,e3}
  DeckA = "A"
  DeckB = "B"
  Capacity = 2
  MaxEvents = 0
  Operators = {"skip","resume"}
  Slow = {"prepare"}
  Failing = {"media"}
  
PROPERTIES HeardEntryKept DeckGetsFilled
CHECK_DEADLOCK FALSE
