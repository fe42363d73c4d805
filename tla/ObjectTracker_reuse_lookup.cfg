SPECIFICATION Spec
CONSTANTS
  Pixels = 4
  Position <- MCPosition
  Trunc <- MCTrunc
  Round <- MCRound
  ReadBack <- MCTrunc
  Dist <- MCDist
  DetectionLists <- SeparatedLists
  Flows <- MCCalmFlows
  GarbageIds <- MCGarbageIds
  ForgetThreshold = 2
  MaxMoveThreshold = 4
  MaxFrame = 2
  MaxRuns = 2
INVARIANTS
  LookupSafe
CHECK_DEADLOCK FALSE
