CONSTANTS
  Sessions = 2
  W = 2
  N = 2
  MayFail = TRUE
SPECIFICATION FairSpec
INVARIANTS
  TypeOK
  EndsMeetUnlessStolen
  NobodyBroken
  LeavesNoFiles
PROPERTIES
  SessionsEnd
CHECK_DEADLOCK FALSE
