CONSTANTS
  Requests = {a, b}
  Jpegs = {q1, q2}
  Calibrations = {c1, c2}
  InitJpeg = q1
  InitCal = c1
  None = None
  ReceiptSlots = 2
  Watchers = {}
  MaxHeld = 1
  MaxRevision = 4
  MaxEvents = 1
  MaxDisturbances = 1
SPECIFICATION Spec
SYMMETRY Symmetry
INVARIANTS
  TypeOK
  MutationHasOneHolder
  DeadlineMeansNotApplied
  StoppedIsSilent
  ActiveIsServed
  AppliedConfigIsReal
  RetryIsNotReplayed
