CONSTANTS
  N = 1
  W = 2
  B = 1
  Readings = {7, 93}
  MaxFailures = 0
  ServerMayDie = FALSE
  RmvBuilt = TRUE
  Quit = Quit
SPECIFICATION Spec
INVARIANTS
  TypeOK
  RequestsConserved
  AnswersConserved
  ReportExact
  QuitsComeLast
  WorkersStopLast
  StatQuitsAfterWorkers
  KillAfterWorkers
  NothingLeftBehind
PROPERTIES
  ImplementsSurvey
  ImplementsConnection
