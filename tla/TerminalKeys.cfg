SPECIFICATION KeysSpec
CONSTANTS
  NumSteps = 2
  EarlyPhases = 1
  MaxLost = 0
  None = None
  Prompts = {p1}
  Past = {h1}
  Compact = TRUE
INVARIANT
  PlansRunAsMeant
CHECK_DEADLOCK FALSE
