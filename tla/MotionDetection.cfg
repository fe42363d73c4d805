SPECIFICATION ProgramSpec
CONSTANTS
  Values = {0, 30, 100, 200}
  CannyValues = {0, 255}
  HistoryLengths <- MCHistoryLengths
  Thresholds = {0, 30, 64, 256, 320}
  UnsignedRange = 16
  MaxFrames = 5
  Rows <- MCRows
  Cols <- MCCols
  BlockSizes = {1, 2, 3, 4}
INVARIANTS
  HistoryIsRecent
  StillSceneSettles
  ChangeIsSeen
  WholeBlocksAreSafe
  CellShowsItsOwnPoint
CHECK_DEADLOCK FALSE
