SPECIFICATION MCSpec
CONSTANTS
  ad = ad
  v1 = v1
  v2 = v2
  v3 = v3
  k1 = k1
  k2 = k2
  r1 = r1
  r2 = r2
  r3 = r3
  Admins = {ad}
  Visitors = {v1, v2, v3}
  Conversions = {k1, k2}
  Requests = {r1, r2, r3}
  AnonLimit = 2
  MaxRestart = 1
INVARIANTS ConversionsAreBounded
PROPERTIES EveryJobEnds
CHECK_DEADLOCK FALSE
