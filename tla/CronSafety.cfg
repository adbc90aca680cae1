SPECIFICATION Spec
CONSTANTS
  a = a  b = b
  Jobs = {a}
  Specs <- Kinds
  Patches <- Edits
  Backoff <- MCBackoff
  Stuck = 2
  NoJob = NoJob  NoTask = NoTask
  MaxTime = 3  MaxFaults = 1  MaxWait = 1
INVARIANTS OneShotRunsOnce SlotRunsOnce BackoffRespected IdleCrashLosesNothing CrashRepeatsUnfinished NoWakeUpLost
CHECK_DEADLOCK FALSE
