SPECIFICATION Spec
CONSTANTS
  Issues = 2
  MaxAge = 1
  MaxSet = 3
  Longest = 2
INVARIANTS BeidouSetsAreWhole
CHECK_DEADLOCK FALSE
