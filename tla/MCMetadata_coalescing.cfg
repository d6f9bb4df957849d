CONSTANTS
  Requests = {r1, r2, r3}
  Keys = {k1}
  Calls = {c1, c2, c3}
  NoCall = NoCall
  NoKey = NoKey
  TTL = 0
  CacheMax = 0
  MaxClock = 0
SPECIFICATION Spec
INVARIANT IdenticalCallsCoalesced
CHECK_DEADLOCK FALSE
