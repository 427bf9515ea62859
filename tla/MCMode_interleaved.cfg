SPECIFICATION Spec
CONSTANTS
  Clients = {c1, c2}
  RampTime = 5
  EngageDelay = 6
  SwitchDelay = 3
  ModeLatency = 2
  ManageDrive = TRUE
  AutoEnable = TRUE
  Faults = {}
INVARIANTS NoDrop
