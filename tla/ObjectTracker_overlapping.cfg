SPECIFICATION Spec
CONSTANTS
  Pixels = 4
  Position <- MCPosition
  Trunc <- MCTrunc
  Round <- MCRound
  ReadBack <- MCTrunc
  Dist <- MCDist
  DetectionLists <- OverlappingLists
  Flows <- MCCalmFlows
  GarbageIds <- MCGarbageIds
  ForgetThreshold = 3
  MaxMoveThreshold = 4
  MaxFrame = 5
  MaxRuns = 1
INVARIANTS
  UniqueIds
  NotForgottenEarly
PROPERTIES
  IdsNotReused
CHECK_DEADLOCK FALSE
