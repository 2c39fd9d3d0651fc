\* One session and one retry are enough for the disagreement.
CONSTANTS
  Stages = {"audit"}
  MaxRuns = 2
  MaxStarts = 1
  MaxControlPlane = 0
  MaxContinuations = 1
  MaxMoves = 1
SPECIFICATION AdoptionSpec
INVARIANTS
  EveryAuditCanBeBound
CHECK_DEADLOCK FALSE
