SPECIFICATION FairSpec
CONSTANTS
  NumSteps = 3
  MaxPoints = 4
  MaxAttempts = 3
  MaxRetries = 2
  ErrorClass = {e1, e2}
INVARIANTS
  RunsWereApproved
  ExposurePaid
  BlastRadius
PROPERTIES
  CostlyPlansEnd
  ImplementsFixRun
