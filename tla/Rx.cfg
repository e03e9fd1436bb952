CONSTANTS
  NBatch = 2
  MaxTxn = 2
  MaxFaults = 1
  MaxResets = 1
  Plain = {}
  Position = {2}
  Killer = {}
SPECIFICATION FairSpec
INVARIANTS
  TypeOK
  SnapshotIsTruth
  FlashHoldsKnownGood
  OutcomeIsTrue
  ConfigFollowsKept
  OnlyLatestIsLive
PROPERTIES
  ImplementsTrial
  HandlersReturn
CHECK_DEADLOCK FALSE
