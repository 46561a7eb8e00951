SPECIFICATION FairSpec
CONSTANTS
  MaxPlans = 3
  MaxEntries = 2
  Depth = 2
  Target = 2
  Scenarios <- Encounters
INVARIANTS TypeOK OneAccount
PROPERTIES  OnlyActivePlanQueues ChangeIsCounted
CHECK_DEADLOCK FALSE
