SPECIFICATION Spec
CONSTANTS
  Width = 3
  Height = 2
  MaxFrames = 2
  MaxClicks = 6
INVARIANTS
  OneFramePerTexture
  TexturesWhole
  ScreenIsTrue
CHECK_DEADLOCK FALSE
