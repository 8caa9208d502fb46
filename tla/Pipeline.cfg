SPECIFICATION FairSpec
CONSTANTS
  Gateways = {g1, g2}
  g1 = g1
  g2 = g2
  InboundSize = 2
  IngressSize = 2
  EgressSize = 2
  HWM = 2
  PubHWM = 2
  PerDatagram = 1
  MaxOrders = 3
  MaxEvents = 1
INVARIANTS
  JournaledFirst
  NothingLeftBehind
PROPERTIES
  ShutdownCompletes
  RunsDry
CHECK_DEADLOCK FALSE
