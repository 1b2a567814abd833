CONSTANTS
  MaxJobs = 3
  None = None
SPECIFICATION Spec
INVARIANTS
  GPUReadsWhatIsHeld
  ResultFitsPictureAndPolicy
  NothingIsLeft
CHECK_DEADLOCK FALSE
