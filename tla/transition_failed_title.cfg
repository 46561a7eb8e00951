SPECIFICATION Spec
CONSTANTS
  N = 3
  Scenarios <- Nobody
INVARIANTS SoundTitlesDoNotFail
CHECK_DEADLOCK FALSE
