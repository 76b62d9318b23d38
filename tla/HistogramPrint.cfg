CONSTANTS
  Patients = 2
  Bins = 2
  N = 2
  MaxAlarms = 1
SPECIFICATION Spec
INVARIANTS
  TypeOK
  NoUpdateLost
  PrintedInBetween
  LastPrintExact
