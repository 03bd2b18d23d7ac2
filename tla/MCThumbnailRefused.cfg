CONSTANTS
  LastRow = 1
  LastBucket = 2
  Supported = {1}
  Cacheable = {}
  Capacity = 2
  ScanBudget = 4
  None = None
  Wanted <- OneDemand
  MaxCalls = 1
  MaxPressure = 2
  Refusals = {TRUE}
SPECIFICATION WeakFairSpec
CHECK_DEADLOCK FALSE
PROPERTY DemandIsServed
