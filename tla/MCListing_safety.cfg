CONSTANTS
  t1 = t1  t2 = t2  r1 = r1  r2 = r2  None = None
  Ids <- ThreeIds
  Traversals <- TwoTraversals
  Requests <- TwoRequests
  Times <- ThreeTimes
  MaxPage = 2
  MaxOffset = 1
  MaxCursors = 1
  TTL = 1
  MaxClock = 1
  Caching = TRUE
SPECIFICATION Spec
SYMMETRY Symmetry
INVARIANTS
  PagesDescend
  NothingStableMissed
  NoFork
  StoreBounded
CHECK_DEADLOCK FALSE
