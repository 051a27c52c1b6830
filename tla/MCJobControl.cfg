\* Three children at a time; the list's field length up to 4, so that it runs
\* ahead of the number of nodes.
CONSTANTS
  Pids = {p1, p2, p3}
  Shell = shell
  MaxLength = 4
SPECIFICATION JobFairSpec
INVARIANTS
  JobTypeOK
  LengthCovers
  JobsAreChildren
  StoppedIsStopped
  TerminalReturns
PROPERTIES
  WaitAllSettles
  WaitsReturn
\* The shell ends.
CHECK_DEADLOCK FALSE
