SPECIFICATION Spec
CONSTANTS
  Dest = {d1, d2, d3}
  Caller = {f1, f2}
  MaxPaths = 1
  FailThresh = 2
  Cooldown = TRUE
  PeerDial = TRUE
  PeerUse = {"tcp", "quic", "udp"}
  MaxPeerHops = 1
  Tables <- MCTables
  NoAsk = NoAsk
  Bits = 3
  K = 1
  MaxEntries = 2
  Nodes <- MCNodes
  FindK = 1
  Alpha = 2
  Profiles <- MCProfiles
  Job = {w1, w2}
  MaxJobs = 2
  MaxSessions = 2
SYMMETRY Symmetry
INVARIANTS PathsBounded StickHasReason KeepsNearest OnlyAdmitted
CHECK_DEADLOCK FALSE
