SPECIFICATION FairSpec
CONSTANTS
  r1 = r1  r2 = r2  r3 = r3  k1 = k1  k2 = k2
  Requests = {r1, r2, r3}
  Keys = {k1, k2}
  KeyOf <- MCKeyOf
  NoRequest = NoRequest
  NoEntry = NoEntry
  TTL = 2
  MaxKeys = 1
  MaxTime = 2
CHECK_DEADLOCK FALSE
INVARIANTS OneLeaderPerKey NoRerunWhileCached
PROPERTIES EveryRequestAnswered Refinement
