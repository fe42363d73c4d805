SPECIFICATION Spec
CONSTANTS
  Pixels = 4
  Position <- MCPosition
  Trunc <- MCTrunc
  Round <- MCRound
  ReadBack <- MCTrunc
  Dist <- MCDist
  DetectionLists <- OverlappingLists
  Flows <- MCCalmFlows
  GarbageIds <- MCGarbageIds
  ForgetThreshold = 2
  MaxMoveThreshold = 4
  MaxFrame = 4
  MaxRuns = 1
INVARIANTS
  LookupSafe
CHECK_DEADLOCK FALSE
