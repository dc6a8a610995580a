CONSTANTS
  w1 = w1
  w2 = w2
  f1 = f1
  f2 = f2
  Writer = {w1, w2}
  Flow = {f1, f2}
  Key <- MCKey
  Gen = {1, 2}
  Session <- MCSession
  MaxSessions = 1
  EvictBatch = 1
  MaxHandlers = 2
  None = None
SPECIFICATION Spec
INVARIANTS ChannelsAccounted TableBounded
PROPERTY HandlersEnd
CHECK_DEADLOCK FALSE
