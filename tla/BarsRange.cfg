SPECIFICATION Spec
CONSTANTS
  Times = {0, 1, 2, 3, 4, 5, 6, 7}
  Chunk = 2
  Excess = 1
  MaxLoops = 3
  None = None
INVARIANTS PartialMeansHole RepeatsOnlyAtSeams
