CONSTANTS
  MaxHead = 2
  MaxBase = 1
  MaxControlPlane = 0
  PlanRisks = {"standard"}
  StandardAuditRequired = TRUE
  MaxImplementationAttempts <- MCMaxImplementationAttempts
SPECIFICATION Spec
PROPERTIES
  SuccessIsForConfirmedBase
CHECK_DEADLOCK FALSE
