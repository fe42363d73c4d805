SPECIFICATION Spec
CONSTANTS
  Height = 3
  MaxFrames = 3
INVARIANTS
  ViewIsFresh
  TearIsOneFrameDeep
PROPERTIES
  ViewsSettle
CHECK_DEADLOCK FALSE
