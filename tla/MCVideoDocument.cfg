SPECIFICATION Spec
CONSTANTS
  Urls <- MCUrls
  NoUrl <- MCNoUrl
  MaxCalls = 3
INVARIANTS
  TypeOK
  RestingStateIsWhole
  StatusIsCurrent
PROPERTIES
  DestroyedIsInert
  ImplementsLatestRequest
  SourceSettles
CHECK_DEADLOCK FALSE
