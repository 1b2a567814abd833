CONSTANTS
  None = None
  Capacity = 2
  MaxDelay = 1
  MaxUnits = 5
  MaxDisturbances = 2
SPECIFICATION Spec
INVARIANTS
  TypeOK
  DemandHasConsumer
  StoppedIsQuiet
  EpochOpensSoon
PROPERTIES
  PublishedInOrder
  InfoBeforeFrames
  DroppedIsNotOvercounted
