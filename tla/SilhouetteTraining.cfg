SPECIFICATION Spec
CONSTANTS
  Position <- MCPosition
  DetectionLists <- MCDetectionLists
  Flows <- MCFlows
  MissLimit = 3
  MaxFrames = 4
  MaxClicks = 3
INVARIANTS
  ExpiredAreGone
  NotRemovedSoon
  OlderGoesFirst
  TrackedFromShownFrame
PROPERTIES
  OldestLabelWins
  ForgetsOnlyExpired
CHECK_DEADLOCK FALSE
