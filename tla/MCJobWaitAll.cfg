\* One job is enough.
CONSTANTS
  Pids = {p1}
  Shell = shell
  MaxLength = 1
SPECIFICATION JobFairSpec
PROPERTIES
  WaitAllReturns
CHECK_DEADLOCK FALSE
