SPECIFICATION Spec
CONSTANTS
  Leader = Leader
  Helpers = {h1}
  Timeout = 4
  Graceful = 2
  WaitDelay = 3
INVARIANT CancellationEndsGroup
CHECK_DEADLOCK FALSE
