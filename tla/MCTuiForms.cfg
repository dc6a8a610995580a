SPECIFICATION Spec
CONSTANTS
  Nil = Nil
  Names <- MCNames
  TicketStore = "peer-tickets"
  Begin <- MCBegin
  Envs = {"", "paranoid"}
  MaxFaults = 1
  MaxWrites = 2
  Current <- MCCurrent
  Releases <- MCReleases
  MaxKills = 2
  Entry = {e1}
  Server <- MCServer
  Lines <- MCLines
  MaxFetches = 2
  MaxEdits = 1
  Plans <- MCPlans
  Instances = 2
  CpSeed = {"k1", "k2"}
  MsgTtl = 1
  KVMaxKeys = 2
  SeenMax = 4
  SeenTtl = 2
  MaxClock = 3
  MaxAstray = 1
INVARIANTS ListAgrees PanicsOnlyAfterShrink ConnectsAsRead RunsWhatWasChecked ProbesFindTheirServer SessionsReachable GlobalsOwned CountedOnce
PROPERTIES FormsKeepTheRest
CHECK_DEADLOCK FALSE
