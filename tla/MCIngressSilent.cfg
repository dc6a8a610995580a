SPECIFICATION Spec
CONSTANTS
  t1 = t1
  t2 = t2
  q1 = q1
  q2 = q2
  Tcp <- MCTcp
  Quic <- MCQuic
  Loop = {"l1", "l2"}
  LoopOf <- MCLoopOf
  Core <- MCCore
  Max <- MCMax
  Cap <- MCCap
  MaxHandshakes = 1
PROPERTIES HandshakeTimesOut
CHECK_DEADLOCK FALSE
