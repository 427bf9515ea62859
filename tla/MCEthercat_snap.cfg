SPECIFICATION Spec
CONSTANTS
  Poses = {p1}
  Origin = Origin
  NaN = NaN
  AutoFaultResets = {TRUE}
  CheckPeriod = 2
  MaxUpsets = 0
  FramesGetLost = FALSE
  HardFaults = FALSE
  ManualResets = FALSE
INVARIANTS NoSnap
