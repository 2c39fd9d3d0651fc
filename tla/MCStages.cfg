\* Every stage of a delivery, and the audit of an adopted pull request.
CONSTANTS
  Stages = {"remediation", "audit", "hygiene"}
  MaxRuns = 3
  MaxStarts = 1
  MaxControlPlane = 1
  MaxContinuations = 2
  MaxMoves = 1
SPECIFICATION AdoptionSpec
INVARIANTS
  AdoptionTypeOK
  OneLiveRun
  ResultStands
  CheckpointAgrees
PROPERTIES
  AutomationEnds
  StagePromiseKept
CHECK_DEADLOCK FALSE
