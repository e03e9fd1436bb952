SPECIFICATION MCSpec
CONSTANTS
  MaxPeriod = 2
  MaxAlt = 2
  Queue = 1
  MaxFrame = 2
  MaxFaults = 1
  MaxCrashes = 1
  MaxLate = 1
INVARIANTS
  ShareIsFaithful
  SpoolKept
PROPERTIES
  ImplementsMirror
  PendingDrains
CHECK_DEADLOCK FALSE
