SPECIFICATION FairSpec
CONSTANTS
  NumSteps = 2
  EarlyPhases = 1
  MaxLost = 1
  None = None
  Prompts = {p1}
  Past = {h1}
  Compact = TRUE
INVARIANTS
  TypeOK
  
  EscapeIsVisible

  
CHECK_DEADLOCK FALSE
