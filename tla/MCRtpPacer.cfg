CONSTANTS
  None = None
  Batches = 2
  MaxDelay = 1
  MaxUnits = 4
  MaxChanges = 3
SPECIFICATION FairSpec
INVARIANTS
  TypeOK
  DrainedIsSilent
PROPERTIES
  DeltaFollowsItsReference
  InFlightEnds
CHECK_DEADLOCK FALSE
