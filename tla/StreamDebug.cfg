SPECIFICATION FairSpec
CONSTANTS
  r1 = r1
  r2 = r2
  r3 = r3
  s1 = s1
  s2 = s2
  Requests = {r1, r2, r3}
  Sessions = {s1, s2}
  SessionOf <- MixedSessionOf
  NumSteps = 2
  FirstSame <- SameCommand
INVARIANTS
  TypeOK
  NoStaleResolver
  LockFollowsWork
  AloneIsIsolated
  OutcomeIsPersisted
PROPERTY
  AloneEnds
CHECK_DEADLOCK FALSE
