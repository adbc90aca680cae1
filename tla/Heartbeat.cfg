SPECIFICATION FairSpec
CONSTANTS
  Runs = {r1}
  Wakes = {w1}
  JobEvent = job
  MaxJobs = 1
  MaxToggles = 1
  Timer = timer
  NoOne = noone
INVARIANTS OkMeansDelivered OverlapsLateRunsOnly
PROPERTIES WakeServed ToolCallEnds
CHECK_DEADLOCK FALSE
