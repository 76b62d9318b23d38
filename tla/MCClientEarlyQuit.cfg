CONSTANTS
  N = 1
  W = 2
  B = 3
  Readings = {93}
  MaxFailures = 1
  ServerMayDie = FALSE
  RmvBuilt = FALSE
  Quit = Quit
SPECIFICATION Spec
INVARIANTS
  QuitBehindResponses
CHECK_DEADLOCK FALSE
