SPECIFICATION Spec
CONSTANTS
  Length <- MCLength
  Slots = 2
  High = 4
  EOF = EOF
  None = None
INVARIANTS Conservation CutOff RingBounded
PROPERTIES EveryChunkIsRead CloseReachesReader
\* The stream really stops: everything read, or closed and ended.
CHECK_DEADLOCK FALSE
