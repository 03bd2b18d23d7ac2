CONSTANTS
  LastRow = 1
  LastBucket = 2
  Supported = {1}
  Cacheable = {}
  Capacity = 2
  ScanBudget = 2
  None = None
  Wanted <- SmallDemands
  MaxCalls = 3
  MaxPressure = 0
  Refusals = {}
SPECIFICATION WeakFairSpec
CHECK_DEADLOCK FALSE
PROPERTY DemandIsServed
