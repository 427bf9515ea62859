SPECIFICATION Spec
CONSTANTS
  Reach <- MCReach
  Room <- MCRoom
  NoPose = NoPose
  Depth = 1
  Offsets <- MCOffsets
  Slides <- MCOffsets
  Joints = {"joint1", "joint2"}
  Pulses = 2
  Sessions <- MCSessions
INVARIANTS TypeOK ShownTrue HandsOff
PROPERTY SpringAtRest
