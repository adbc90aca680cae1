SPECIFICATION FairSpec
CONSTANTS
  a = a  b = b
  Jobs = {a, b}
  Specs <- Mixed
  Patches <- None
  Backoff <- MCBackoff
  Stuck = 2
  NoJob = NoJob  NoTask = NoTask
  MaxTime = 2  MaxFaults = 0  MaxWait = 0
PROPERTIES DueJobsRun
CHECK_DEADLOCK FALSE
