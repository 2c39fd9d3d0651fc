\* One branch that takes two commits, two starters of cycles and a person at the command,
\* four commits of main (one broken), three events around them.
CONSTANTS
  Branches = {"topic"}
  Sweepers = {"timer", "manual", "cli"}
  LockFiles = {"service", "default"}
  MaxTips = 2
  MaxEvents = 3
  Cycles = {"timer", "manual"}
  Timer = "timer"
  Cli = "cli"
  ServiceLock = "service"
  Commits = {1, 2, 3, 4}
  Ancestors <- Line
  Broken = {4}
  Installed = {1, 2}
  First = 2
  Retention = 2
SPECIFICATION Spec
INVARIANTS
  ActiveIsSound
PROPERTIES
  DeletesWhatItReread
  AdvancesAlongMain
  RollbackKept
  CatchesUp
CHECK_DEADLOCK FALSE
