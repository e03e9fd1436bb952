CONSTANTS
  Clients = {c1}
  Queue = 2
  MaxObs = 2
  MaxSta = 2
SPECIFICATION FairSpec
INVARIANTS StationIsCurrent NoSilentGap TapIsSafe
PROPERTIES ClosedEnds
CHECK_DEADLOCK FALSE
