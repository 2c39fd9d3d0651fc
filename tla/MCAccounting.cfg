\* Three provider runs, one push or remediation, one record of another delivery.
SPECIFICATION Spec
CONSTANTS
  MaxRuns = 3
  MaxHeads = 2
  MaxOthers = 1
INVARIANTS
  TypeOK
  StoredReadable
  CountedOnce
  AdvanceIsAccounted
  GroupsAddUp
PROPERTIES
  CountersNeverRestart
  OthersKept
CHECK_DEADLOCK FALSE
