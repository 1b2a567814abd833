CONSTANTS
  Sensors = {s1}
  Streamed = {s1}
  None = None
  MaxCaptures = 2
SPECIFICATION FairSpec
PROPERTY CaptureBudgetHolds
CHECK_DEADLOCK FALSE
