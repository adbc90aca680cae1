SPECIFICATION Spec
CONSTANTS
  c = c  l = l  run = run  main = main
  Sends = {c}
  RunIds = {run}
  RunOf <- MCRunOf
  Sessions = {main}
  SessionOf <- MCSessionOf
  Kind <- MCKind
  Notes = {}
  SysEvents = {e1, e2}
  MaxQueue = 2
  NoSend = NoSend  NoEvent = NoEvent
PROPERTIES ClearedEventsWerePrompted
CHECK_DEADLOCK FALSE
