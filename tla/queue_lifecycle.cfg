SPECIFICATION Spec
CONSTANTS
  Entries = {e1,e2}
  Decks = {A}
  NoDeck = NoDeck
  Gui = "gui"
  Threads = {"gui", "preload"}
  NewSessions = TRUE
SYMMETRY Symmetry
INVARIANTS TypeOK OneActivePerDeck StatusMatchesDeck
PROPERTIES RemovedIsFinal
