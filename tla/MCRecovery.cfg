\* One release of the control plane, and fairness (in Spec).
CONSTANTS
  MaxHead = 2
  MaxBase = 0
  MaxControlPlane = 1
  PlanRisks = {"standard"}
  StandardAuditRequired = TRUE
  MaxImplementationAttempts <- MCMaxImplementationAttempts
SPECIFICATION Spec
INVARIANTS
  LaunchesAreCharged
PROPERTIES
  AttemptsNeverDecrease
  EscalationIsKept
  SessionEnds
CHECK_DEADLOCK FALSE
