\* Two attempts, one release of the control plane, one edit of the issue and
\* two sessions after what earlier ones left behind.
SPECIFICATION FairSpec
CONSTANTS
  MaxAttempts = 2
  MaxHead = 2
  MaxContract = 2
  MaxRuns = 3
INVARIANTS
  TypeOK
  SessionHoldsLease
  OneWorkerRuns
  AuthorityIsCurrent
  RunsAreCharged
  MaterialEndsBootstrap
PROPERTIES
  AttemptsNeverFall
  SessionEnds
CHECK_DEADLOCK FALSE
