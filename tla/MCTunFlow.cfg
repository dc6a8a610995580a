SPECIFICATION Spec
CONSTANTS
  Dest = {"d1"}
  Caller = {"f1"}
  MaxPaths = 1
  FailThresh = 2
  Cooldown = FALSE
  PeerDial = TRUE
  PeerUse = {"tcp", "quic", "udp"}
  MaxPeerHops = 1
  Tables <- MCTables
  NoAsk = NoAsk
  PlannerV2 = TRUE
  Attempts = 2
  DegradeAt = 2
  ProbeEvery = 2
INVARIANTS WiresAccounted
PROPERTIES DeliversOneResult
CHECK_DEADLOCK FALSE
