SPECIFICATION ContextSpec
CONSTANTS
  Window = 12
  Threshold = 10
  Target = 7
  Cap = 5
  Sections <- MCSections
  MaxSections = 3
  MaxFacts = 3
  FactTokens = {2}
  SummaryTokens = {2, 8}
  MemoryTokens = {0, 4}
INVARIANTS
  CompactionIsEnough
  EvictedIsSaved
  ErrorCodesLast
CHECK_DEADLOCK FALSE
