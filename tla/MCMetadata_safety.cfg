CONSTANTS
  Requests = {r1, r2, r3}
  Keys = {k1, k2}
  Calls = {c1, c2, c3}
  NoCall = NoCall
  NoKey = NoKey
  TTL = 1
  CacheMax = 1
  MaxClock = 1
SPECIFICATION Spec
SYMMETRY Symmetry
INVARIANTS
  CancellationIsolated
  AbandonedCommandsAreCancelled
  CancelledMeansOwnContext
  SingleFlightWhilePatient
  ServedDataWasRead
  CacheBounded
CHECK_DEADLOCK FALSE
