CONSTANTS
  Conns = {w1, w2}
  Controls = {}
  MaxFds = 2
  MaxRequests = 1
  MaxFailures = 0
  MayVanish = FALSE
  NoConn = NoConn
SPECIFICATION Spec
INVARIANTS
  ServesItsConnection
CHECK_DEADLOCK FALSE
