CONSTANTS
  LastPage = 3
  ParallelLimit = 2
  None = None
  NeutralNext = 2
  NeutralPrevious = 1
  Biased = 3
  MaxRequests = 3
  MaxGeneration = 2
  MaxListing = 1
SPECIFICATION Spec
CHECK_DEADLOCK FALSE
INVARIANTS
  TypeOK
  ParallelBound
  PowerSaverIsQuiet
  LatestSelectionWins
