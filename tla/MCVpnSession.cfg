SPECIFICATION Spec
CONSTANTS
  N = 2
  Attempts = 2
  Tries = 1
  MaxMisses = 2
  Flow = {"f1", "f2"}
  Key <- MCKey
  KeyOf <- MCKeyOf
  Mirror <- MCMirror
  None = None
INVARIANTS RepliesFindTheirFlow PanicOnlyWhileStopping
PROPERTIES StopsClean
CHECK_DEADLOCK FALSE
