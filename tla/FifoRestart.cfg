CONSTANTS
  Sessions = 2
  W = 1
  N = 1
  MayFail = FALSE
SPECIFICATION Spec
INVARIANTS
  EndsMeet
CHECK_DEADLOCK FALSE
