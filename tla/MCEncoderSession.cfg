SPECIFICATION Spec
CONSTANTS
  AccessUnits <- Units
  MaxPayload = 4
  MaxHeld = 1
  MaxTime = 2
  MaxFrames = 3
  MaxChanges = 4
  None = None
INVARIANTS DormantIsNotEncoded OutputHasItsMetadata PacketsCarryTheUnit
PROPERTIES TimestampsIncrease EpochKeepsItsTimeline
CHECK_DEADLOCK FALSE
