CONSTANTS
  MaxHead = 2
  MaxBase = 0
  MaxControlPlane = 0
  PlanRisks = {"fast", "standard"}
  StandardAuditRequired = TRUE
  MaxImplementationAttempts <- MCMaxImplementationAttempts
SPECIFICATION Spec
INVARIANTS
  VerdictStaysAuthoritative
CHECK_DEADLOCK FALSE
