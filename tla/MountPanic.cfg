CONSTANTS
  Clients = {c1}
  Queue = 1
  MaxObs = 3
  MaxSta = 1
SPECIFICATION Spec
INVARIANTS DroppingIsHarmless
CHECK_DEADLOCK FALSE
