SPECIFICATION FairSpec
CONSTANTS
  MaxBytes = 5
  MaxDecoded = 4
  MaxLimit = 2
  MaxStream = 6
INVARIANTS PagesAreConsecutive CompleteMeansAll NothingCutInSilence
PROPERTIES TraversalEnds
CHECK_DEADLOCK FALSE
