SPECIFICATION FairPlaneSpec
CONSTANTS
  s1 = s1
  s2 = s2
  Sensors = {s1}
  cam = cam
  other = other
  SourceIds <- Ids
  Watched = cam
  Capacity = 2
  MaxHosts = 1
  MaxLoads = 1
  None = None
  Jpegs = {j1}
  InitJpeg = j1
  authored = authored
  wanted = wanted
  Calibrations = {authored, wanted}
  InitCal = authored
  Wanted = wanted
  FixedInstance = FALSE
  MaxForeign = 1
  MaxFaults = 0
PROPERTY PeerReconnects
CHECK_DEADLOCK FALSE
