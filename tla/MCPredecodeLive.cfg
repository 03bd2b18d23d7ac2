CONSTANTS
  LastPage = 4
  ParallelLimit = 2
  None = None
  NeutralNext = 2
  NeutralPrevious = 1
  Biased = 3
  MaxRequests = 2
  MaxGeneration = 2
  MaxListing = 2
SPECIFICATION FairSpec
CHECK_DEADLOCK FALSE
PROPERTIES
  StartsAreAdmitted
  NeighboursPrepared
