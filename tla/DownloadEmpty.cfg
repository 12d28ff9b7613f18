\* An empty file.
CONSTANTS
  Chunks = 0
SPECIFICATION Spec
INVARIANTS
  DoneIsWhole
CHECK_DEADLOCK FALSE
