CONSTANTS
  N = 1
  W = 2
  B = 6
  Readings = {93}
  MaxFailures = 1
  ServerMayDie = TRUE
  RmvBuilt = FALSE
  Quit = Quit
SPECIFICATION Spec
INVARIANTS
  NeverOvercounts
  OrderlyUnlessSkipped
CHECK_DEADLOCK FALSE
