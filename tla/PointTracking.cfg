SPECIFICATION Spec
CONSTANTS
  Position <- MCPosition
  Dist <- MCDist
  Flows <- MCFlows
  MaxFrames = 3
  MaxClicks = 3
INVARIANTS
  TrackedFromItsFrame
PROPERTIES
  OldestNearestGoes
CHECK_DEADLOCK FALSE
