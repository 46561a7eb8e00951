SPECIFICATION FairSpec
CONSTANTS
  Last = 2
  MaxPending = 3
  Scenarios <- MCScenarios
INVARIANTS TypeOK CompletedIsStored RunningIsOwned
PROPERTIES EndedStaysEnded QueuedIsTaken
CHECK_DEADLOCK FALSE
