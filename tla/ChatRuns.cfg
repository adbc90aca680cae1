SPECIFICATION FairSpec
CONSTANTS
  c = c  l = l  run = run  main = main
  Sends = {c, l}
  RunIds = {run}
  RunOf <- MCRunOf
  Sessions = {main}
  SessionOf <- MCSessionOf
  Kind <- MCKind
  Notes = {note}
  SysEvents = {e1, e2}
  MaxQueue = 1
  NoSend = NoSend  NoEvent = NoEvent
INVARIANTS OneRunPerId RerunMeansOvertaken AnswersMatchEvents TranscriptOnlyFinished
PROPERTIES AbortedRunsEnd
CHECK_DEADLOCK FALSE
