CONSTANTS
  Conns = {w1, w2, k1}
  Controls = {k1}
  MaxFds = 2
  MaxRequests = 1
  MaxFailures = 1
  MayVanish = TRUE
  NoConn = NoConn
SPECIFICATION Spec
SYMMETRY Symmetry
INVARIANTS
  TypeOK
  OneThreadEach
  AnsweredOnce
  EndsForAReason
PROPERTIES
  ImplementsConnection
CHECK_DEADLOCK FALSE
