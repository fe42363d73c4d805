SPECIFICATION ModelSpec
CONSTANTS
  Sizes <- MCSizes
  Batches <- MCBatches
  MaxLearns = 2
  MaxSamples = 2
INVARIANTS
  WholeModelAnswers
  NoReadPastSample
  PairClassifies
