\* Every risk that a plan can have, in a repository that audits standard deliveries.
CONSTANTS
  MaxHead = 2
  MaxBase = 0
  MaxControlPlane = 0
  PlanRisks = {"fast", "standard", "critical"}
  StandardAuditRequired = TRUE
  MaxImplementationAttempts <- MCMaxImplementationAttempts
SPECIFICATION Spec
INVARIANTS
  TypeOK
  EvidenceBound
  ReadyIsJustified
  RiskCoversHead
  SuccessStatusSound
  NoStaleSuccess
  CommentLoads
PROPERTIES
  PromiseKept
CHECK_DEADLOCK FALSE
