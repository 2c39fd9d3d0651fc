\* Three sessions, so that a control plane may grant a recovery and meet the
\* lease it left behind; nobody edits the issue.
SPECIFICATION Spec
CONSTANTS
  MaxAttempts = 2
  MaxHead = 2
  MaxContract = 1
  MaxRuns = 4
INVARIANTS
  OneGrantPerCause
CHECK_DEADLOCK FALSE
