SPECIFICATION HBFairSpec
CONSTANTS
  HasSecondary = TRUE
  ClearsHint = TRUE
  MaxDisturbances = 2
CHECK_DEADLOCK FALSE
INVARIANTS DownAfterStop
PROPERTIES SlotsRecover HealthConverges HintIsTakenBack
