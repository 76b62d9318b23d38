CONSTANTS
  Runs = {r1, r2, r3}
  W = 2
  Free = Free
  Busy = Busy
SPECIFICATION FairSpec
INVARIANTS
  TypeOK
  FailsForAReason
PROPERTIES
  RunsEnd
CHECK_DEADLOCK FALSE
