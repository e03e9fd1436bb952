SPECIFICATION MCSpec
CONSTANTS
  Absent = Absent
  Targets = {t1}
  Addrs = {a1}
  Passwords = {p1,p2}
  Handlers = {h1, h2}
  MaxSecond = 1
  MaxFaults = 1
INVARIANTS ReloadFollows UnlistedIsStopped
PROPERTIES RunnersServe
CHECK_DEADLOCK FALSE
