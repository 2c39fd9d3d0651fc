CONSTANTS
  Stages = {"remediation"}
  MaxRuns = 2
  MaxStarts = 1
  MaxControlPlane = 1
  MaxContinuations = 1
SPECIFICATION Spec
INVARIANTS
  RearmedRunPushedNothing
CHECK_DEADLOCK FALSE
