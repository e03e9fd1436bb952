SPECIFICATION FairSpec
CONSTANTS
  MaxRelease = 2
  Values = {"old", "new", "bad", "empty"}
  Default = "old"
  Refused = {"bad"}
  Empty = "empty"
  MaxDoc = 1
INVARIANTS
  UpdateKeepsStation
  SettingsHold
  RestoreIsWhole
PROPERTIES
  StationServes
CHECK_DEADLOCK FALSE
