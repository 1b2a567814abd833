CONSTANTS
  Sensors = {s1, s2}
  Streamed = {}
  None = None
  MaxCaptures = 3
SPECIFICATION Spec
SYMMETRY Symmetry
INVARIANTS
  TypeOK
  WorkOwnsTheSlot
  AnswerIsFresh
PROPERTIES
  CaptureContractIsKept
CHECK_DEADLOCK FALSE
