SPECIFICATION FairSpec
CONSTANTS
  Clients = {c1}
  RampTime = 5
  EngageDelay = 6
  SwitchDelay = 3
  ModeLatency = 2
  ManageDrive = TRUE
  AutoEnable = TRUE
  Faults = {"switch", "stiffness"}
INVARIANTS TypeOK ModeMeansControllers NoDrop
PROPERTIES EngagesWeightless ChangesComplete NoJerk HandsOver
