SPECIFICATION Spec
CONSTANTS
  a = a
  b = b
  Node = {a, b}
  StreamId = {0}
  Session = {1, 2, 3}
  Routes <- MCRoutes
  Asks <- MCAsks
  RelayMaxHop = 2
  HopLimit = 1
  MaxTotal = 2
  MaxPerRemote = 1
  PoolSize = 3
  MaxClients = 2
  None = None
INVARIANTS TypeOK SlotsAccounted SlotsBounded ChainBounded
PROPERTIES SlotsComeBack
CHECK_DEADLOCK FALSE
