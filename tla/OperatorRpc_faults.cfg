SPECIFICATION FairSpec
CONSTANTS
  Consumer = {c1, c2}
  Nobody = Nobody
  Faults = {"read", "write", "ack", "group", "health", "crash"}
  MaxCommands = 2
  MaxFailures = 2
  MaxStops = 1
INVARIANTS NoCommandLost ReexecutionNeedsFailure AnswerIsFinal
PROPERTIES InStreamOrder LeftOnlyByFailedWrite EveryCommandSettled ImplementsCommandService
