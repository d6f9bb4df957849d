SPECIFICATION FairSpec
CONSTANTS
  Leader = Leader
  Helpers = {h1, h2}
  Timeout = 4
  Graceful = 2
  WaitDelay = 3
INVARIANTS ReturnsInTime GroupKillComesFirst OkIsComplete SurvivorsMeanFailure
PROPERTIES LeaderGetsItsGrace RunReturns
CHECK_DEADLOCK FALSE
