CONSTANTS
  Conns = {w1, w2, w3}
  Controls = {}
  MaxFds = 1
  MaxRequests = 1
  MaxFailures = 1
  MayVanish = FALSE
  NoConn = NoConn
SPECIFICATION EchoFairSpec
INVARIANTS
  OwnTextIsTheGoodbye
PROPERTIES
  GoodbyeEnds
  EveryoneIsServed
CHECK_DEADLOCK FALSE
