SPECIFICATION Spec
CONSTANTS
  MaxStarts = 3
  NumPhases = 3
  NumSteps = 2
  Limit = 4
  MaxRequests = 2
  MaxMissed = 1
  MaxTies = 1
INVARIANTS
  TypeOK
  DivergenceIsOneWrite
  ReplayIsFaithful
  OnlyNewestIsOffered
CHECK_DEADLOCK FALSE
