CONSTANTS
  Threads = {t1, t2, t3, t4}
  Value = {a, b}
  MaxSize = 2
  NoThread = NoThread
  NoValue = NoValue
SPECIFICATION FairSpec
INVARIANTS
  TypeOK
  MutexOwnership
  WithinCapacity
  NoLostWakeup
PROPERTIES
  ImplementsFIFO
  ImplementsProgress
