SPECIFICATION Spec
CONSTANTS
  Poses = {p1, p2}
  Origin = Origin
  NaN = NaN
  AutoFaultResets = {TRUE}
  CheckPeriod = 2
  MaxUpsets = 2
  FramesGetLost = TRUE
  HardFaults = TRUE
  ManualResets = FALSE
INVARIANTS TypeOK SeededInv
PROPERTIES NoZeroTarget EnabledInPlace NoDropOut
SYMMETRY Symmetry
