SPECIFICATION Spec
CONSTANTS
  Last = 2
  MaxPending = 4
  Scenarios <- TwoResumes
INVARIANT PollingGoesOn
CHECK_DEADLOCK FALSE
