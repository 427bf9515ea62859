SPECIFICATION Spec
CONSTANTS
  Launches <- MCLaunches
  StartModes = {"force", "position", "impedance"}
  MayDie = TRUE
INVARIANTS TypeOK StartModeTrue
PROPERTIES ChainCompletes
CHECK_DEADLOCK FALSE
