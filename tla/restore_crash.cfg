SPECIFICATION Spec
CONSTANTS
  party = party
  c1 = c1
  c2 = c2
  Participants = 2
  Original = party
  Candidates <- OneCandidate
  Slots = 2
  Maintenance = FALSE
  Crashes = TRUE
INVARIANTS AlwaysSomeDatabase
