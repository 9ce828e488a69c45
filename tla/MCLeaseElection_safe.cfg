SPECIFICATION Spec
CONSTANTS
  p1 = p1
  p2 = p2
  p3 = p3
  Pod <- ThreePods
  Nobody = Nobody
  LeaseDuration = 8
  RenewDeadline = 3
  RetryPeriod = 1
  LoopDelay = 1
  AttemptLatency = 1
  StopLatency = 1
  ClockOffset <- ClocksSkewed
  BackendFaults = TRUE
  MaxTime = 18
SYMMETRY Symmetry
INVARIANTS AtMostOneAccessor AccessorOwnsLease CutOffLeaderStops
PROPERTIES TakeoverOnlyAfterExpiry ImplementsSingleAccessor
