SPECIFICATION Spec
CONSTANTS
  Attempts = 2
  CmdCap = 1
  WireCap = 2
  Clicks = 1
  Seeds <- MCSeeds
  Ttl = 2
  MaxMisses = 1
  MaxMoves = 1
  MaxDelayed = 1
INVARIANTS
  HandleKept
  ViewsAgree
  BypassInPlace
PROPERTIES
  LeavesOnceTrayIsGone
  PresenceFollows
CHECK_DEADLOCK FALSE
