SPECIFICATION FairSpec
CONSTANTS
  i1 = i1  c1 = c1  c2 = c2  n1 = n1  n2 = n2  a1 = a1  a2 = a2  tick = tick  delta = delta
  Conns = {c1, c2}
  Senders = {i1, tick, delta}
  Droppable = {tick, delta}
  MaxBuffered = 1
  Invokes = {i1}
  ToolCalls = {i1}
  Answers = {a1, a2}
  Nodes = {n1, n2}
  TargetOf <- MCTargetOf
  NodeOf <- MCNodeOf
  CarrierOf <- MCCarrierOf
  NoConn = NoConn  CloseFrame = CloseFrame  NoFrame = NoFrame  NoInvoke = NoInvoke  NoNode = NoNode
INVARIANTS CallerReachable EntriesOutliveNobody BytesAccounted BufferBounded
PROPERTIES EveryInvokeEnds ImplementsRemoteCall
CHECK_DEADLOCK FALSE
