SPECIFICATION FairSpec
CONSTANTS
  N = 3
  Scenarios <- MCScenarios
INVARIANTS TypeOK OutgoingStaysHeard PlayedWasHeard
PROPERTIES HandoverIsOpen HandoverEnds PublishedAfterBoth
CHECK_DEADLOCK FALSE
