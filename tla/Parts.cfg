SPECIFICATION MCSpec
CONSTANTS
  Enough = 1
  MaxRun = 2
  MaxDay = 1
  MaxFault = 1
  Streams <- MCStreams
  BufSize = 8
  Issues = 2
  MaxAge = 1
  MaxSet = 3
  Longest = 2
  Cap = 3
  Pause = 2
  MinInterval = 1
  SyncLate = 4
  Fine = 2
  Coarse = 2
  Retention = 4
  Limits = {1, 2}
  ChartLate = 6
  MaxBack = 1
  Keys = {"a", "b"}
  Burst = 3
  Cost = 2
  Rate = 1
  MaxLen = 1
  LimitLate = 5
  MaxTries = 3
  Interval = 9
  Period = 3
  Jitter = 2
  MaxEpoch = 12
INVARIANTS RowsAreTrue FramesAreExact PartsAreFaithful
PROPERTIES RunsEnd
CHECK_DEADLOCK FALSE
