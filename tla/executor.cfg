SPECIFICATION FairSpec
CONSTANTS
  c1 = c1
  c2 = c2
  c3 = c3
  f1 = f1
  f2 = f2
  Calls <- ThreeCalls
  Finalizers <- OneFinalizer
  MaxWorkers = 1
  MaximumPending = 2
INVARIANTS TypeOK PermitsAccounted DrainedStaysQuiet
PROPERTIES JobsEnd ImplementsParticipant
CHECK_DEADLOCK FALSE
