CONSTANTS
  Requests = {r1, r2}
  Keys = {k1}
  Calls = {c1, c2}
  Contents = {x1}
  Repos = {p1}
  k1 = k1  p1 = p1
  RepoOf <- OneKey
  NoCall = NoCall  NoKey = NoKey  NoRepo = NoRepo
  TTL = 1
  CacheMax = 1
  MaxClock = 1
  RepoCap = 1
  GlobalCap = 1
SPECIFICATION RegistryFairSpec
PROPERTIES NeverBusyByItself CoalescerUnderSlots EveryCallerAnswered
ACTION_CONSTRAINT ContentAtOnce
CHECK_DEADLOCK FALSE
