SPECIFICATION Spec
CONSTANTS
  Pixels = 4
  Position <- MCPosition
  Trunc <- MCTrunc
  Round <- MCRound
  ReadBack <- MCTrunc
  Dist <- MCDist
  DetectionLists <- SeparatedLists
  Flows <- MCFlows
  GarbageIds <- MCGarbageIds
  ForgetThreshold = 2
  MaxMoveThreshold = 4
  MaxFrame = 4
  MaxRuns = 1
INVARIANTS
  TypeOK
  LookupSafe
  NoGaps
  RecordsAgree
  DetectionsCovered
  StaleForgotten
  TwiceOnlyIfCoinciding
PROPERTIES
  KeepsPromise
