CONSTANTS
  N = 2
  W = 1
  B = 1
  Readings = {93}
  MaxFailures = 0
  ServerMayDie = TRUE
  RmvBuilt = TRUE
  Quit = Quit
SPECIFICATION FairSpec
PROPERTIES
  EventuallyReports
