SPECIFICATION Spec
CONSTANTS
  Old = Old
  Filings = {f1, f2}
  Readers = {r1}
  NumEntities = 2
  MaxWal = 1
  MaxFaults = 1
  MaxRestarts = 1
INVARIANTS
  TypeOK
  LoggedBeforeStored
  EntitiesHaveIncident
  LossHasACause
CHECK_DEADLOCK FALSE
