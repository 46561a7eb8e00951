SPECIFICATION Spec
CONSTANTS
  Backends <- MCBackends
  MaxDeckAttempts = 1
  MaxGlobalAttempts = 1
  MaxStartAttempts = 1
  Scenarios <- MCScenarios
  ReleaseFaults = {"late"}
INVARIANTS  LocksHaveHolders  TypeOK
CHECK_DEADLOCK FALSE
