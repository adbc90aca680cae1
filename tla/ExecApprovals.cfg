SPECIFICATION FairSpec
CONSTANTS
  w1 = w1  w2 = w2  c1 = c1  c2 = c2
  bash = bash  http = http  id1 = id1  id2 = id2  x = x
  Requests = {w1, c1, c2}
  ToolWrites = {w1}
  Tools = {bash, http}
  ToolOf <- MCToolOf
  Ids = {id1, x}
  IdOf <- MCIdOf
  Edits <- MCEdits
  NoRequest = NoRequest
INVARIANTS WritesAreApproved DecisionLostOnlyByItsRequest NoOrphanRecord
PROPERTIES EveryRequestAnswered ImplementsApproval
CHECK_DEADLOCK FALSE
