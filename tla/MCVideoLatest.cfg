SPECIFICATION Spec
CONSTANTS
  Urls <- MCUrls
  NoUrl <- MCNoUrl
  MaxCalls = 3
INVARIANTS
  LatestSourceWins
CHECK_DEADLOCK FALSE
