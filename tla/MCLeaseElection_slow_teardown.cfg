SPECIFICATION Spec
CONSTANTS
  p1 = p1
  p2 = p2
  p3 = p3
  Pod <- TwoPods
  Nobody = Nobody
  LeaseDuration = 7
  RenewDeadline = 3
  RetryPeriod = 1
  LoopDelay = 1
  AttemptLatency = 1
  StopLatency = 3
  ClockOffset <- ClocksAgree
  BackendFaults = TRUE
  MaxTime = 12
INVARIANTS AtMostOneAccessor
