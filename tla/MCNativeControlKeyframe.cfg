\* A start, a stop that is dropped at its deadline, a request-keyframe.
CONSTANTS
  Requests = {a, b}
  Jpegs = {q1}
  Calibrations = {c1}
  InitJpeg = q1
  InitCal = c1
  None = None
  ReceiptSlots = 1
  Watchers = {}
  MaxHeld = 1
  MaxRevision = 4
  MaxEvents = 0
  MaxDisturbances = 0
SPECIFICATION FairSpec
PROPERTY RenderAcknowledges
