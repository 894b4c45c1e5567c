SPECIFICATION LockFairSpec
CONSTANTS
  Executors = {x1, x2, x3}
  Interactive = {x1, x2}
INVARIANTS
  ExclusiveUnlessOverridden
  OrphanHasCause
PROPERTY
  LockFreed
CHECK_DEADLOCK FALSE
