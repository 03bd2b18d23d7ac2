CONSTANTS
  LastRow = 2
  LastBucket = 2
  Supported = {1, 2}
  Cacheable = {1}
  Capacity = 1
  ScanBudget = 2
  None = None
  Wanted <- AllDemands
  MaxCalls = 2
  MaxPressure = 1
  Refusals = {TRUE}
SPECIFICATION FairSpec
CHECK_DEADLOCK FALSE
INVARIANTS
  TypeOK
  RowSetsAgree
  AdmissionBound
  ForegroundFirst
PROPERTY
  DemandIsServedByLedger
