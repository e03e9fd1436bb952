CONSTANTS
  Clients = {c1, c2}
  Queue = 1
  MaxFrame = 2
SPECIFICATION RawFairSpec
INVARIANT NoSilentGap
PROPERTY ClientsLeave
CHECK_DEADLOCK FALSE
