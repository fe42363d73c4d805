SPECIFICATION RunSpec
CONSTANTS
  Lengths = {0, 2, 40}
  CancelAt = 5
  MaxCounter = 3
  MaxCalls = 3
  MaxCancels = 3
INVARIANTS
  OneMoreFrameAtMost
  ThrowsAnswerCancels
  StaleCancelHitsFirstFrame
PROPERTIES
  CancelEndsCall
CHECK_DEADLOCK FALSE
