SPECIFICATION Spec
CONSTANTS
  MaxBytes = 4
  MaxDecoded = 4
  MaxLimit = 2
  MaxStream = 5
INVARIANTS PageWithinLimit
CHECK_DEADLOCK FALSE
