SPECIFICATION FairSpec
CONSTANTS
  expert = expert
  logs = logs
  db = db
  host = host
  Requests = {r1, r2}
  Skills = {expert, logs}
  Targets = {db, host}
  Commands <- SkillCommands
  Streaming = {r1}
  Scheduled = {r1, r2}
  Preferred = {expert}
INVARIANTS
  OneCommandPerTarget
  GroundedDiagnosis
PROPERTIES
  EveryRequestMoves
  ImplementsDebugRequest
CHECK_DEADLOCK FALSE
