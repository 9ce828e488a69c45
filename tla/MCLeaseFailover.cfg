SPECIFICATION ObservedSpec
CONSTANTS
  p1 = p1
  p2 = p2
  Pod <- Pods
  Nobody = Nobody
  LeaseDuration = 7
  RenewDeadline = 2
  RetryPeriod = 1
  LoopDelay = 1
  AttemptLatency = 1
  StopLatency = 1
  ClockOffset <- ClocksSkewed
  BackendFaults = FALSE
  MaxTime = 16
INVARIANTS FailoverBound
