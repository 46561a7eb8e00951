SPECIFICATION FairSpec
CONSTANTS
  party = party
  c1 = c1
  c2 = c2
  Participants = 2
  Original = party
  Candidates <- TwoCandidates
  Slots = 2
  Maintenance = TRUE
  Crashes = TRUE
INVARIANTS TypeOK QuietExchange
PROPERTIES KeptUntilVerified FailureRestoresAll StoppedGoesOn
