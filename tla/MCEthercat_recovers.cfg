SPECIFICATION FairSpec
CONSTANTS
  Poses = {p1}
  Origin = Origin
  NaN = NaN
  AutoFaultResets = {TRUE, FALSE}
  CheckPeriod = 2
  MaxUpsets = 2
  FramesGetLost = FALSE
  HardFaults = FALSE
  ManualResets = TRUE
PROPERTIES Recovers
