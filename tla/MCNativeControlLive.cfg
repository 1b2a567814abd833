CONSTANTS
  Requests = {a, b}
  Jpegs = {q1}
  Calibrations = {c1}
  InitJpeg = q1
  InitCal = c1
  None = None
  ReceiptSlots = 2
  Watchers = {v}
  MaxHeld = 1
  MaxRevision = 3
  MaxEvents = 0
  MaxDisturbances = 1
SPECIFICATION FairSpec
INVARIANT ObserverMissesNothing
PROPERTY MutationIsAnswered
  ContractIsKept
