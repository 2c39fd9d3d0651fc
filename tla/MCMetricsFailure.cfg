\* An audit run that is lost, its retry, and the release.
SPECIFICATION Spec
CONSTANTS
  MaxRuns = 3
  MaxHeads = 1
  MaxOthers = 0
INVARIANTS
  MetricsNeverFailADelivery
CHECK_DEADLOCK FALSE
