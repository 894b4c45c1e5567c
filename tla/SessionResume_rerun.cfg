SPECIFICATION Spec
CONSTANTS
  Calls = {c1, c2, c3}
  NumSteps = 3
  MaxStarts = 2
CHECK_DEADLOCK FALSE
INVARIANT NeverRerun
