CONSTANTS
  Runs = {r1, r2, r3}
  Repos = {p1, p2}
  NoRepo = NoRepo
  RepoCap = 2
  GlobalCap = 2
SPECIFICATION FairSpec
INVARIANTS
  SlotsExact
PROPERTIES
  BusyBecauseOfOthers
  AdmissionPromise
  EveryRunReturns
CHECK_DEADLOCK FALSE
