CONSTANTS
  Conns = {c1, c2, c3}
  MaxId = 1
  MaxLimit = 2
  MaxAccounts = 2
SPECIFICATION FairSpec
INVARIANTS TypeOK LimitHolds RowsAreStreams
PROPERTIES RequestsAnswered
CHECK_DEADLOCK FALSE
