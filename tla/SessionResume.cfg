SPECIFICATION Spec
CONSTANTS
  Calls = {c1, c2, c3}
  NumSteps = 3
  MaxStarts = 2
INVARIANTS
  TypeOK
  SavedStepsAreDone
  NoStepMissed
  FirstResumeRerunsNothing
  LostOnlyByDebug
CHECK_DEADLOCK FALSE
