SPECIFICATION MCSpec
CONSTANTS
  Callers = {"program", "user", "collect"}
  Poses <- MCPoses
  Examples = {"program"}
  User = "user"
  Jobs = {"pick_and_place", "teach_playback", "pose_grid", "hello_world"}
  UserGoals = 1
  UserPoses = {"a"}
  Node = "collect"
  Targets <- MCTargets
  Position <- MCPosition
  Lower = 0
  Upper = 8
  Margin = 2
  AutoEstop = TRUE
  Clears = 1
  MayCrash = TRUE
INVARIANTS TypeOK VerdictsTrue PairingTrue
PROPERTIES GripperInPlace CutMeansEnd ProgramsReturn ExitsStop
CHECK_DEADLOCK FALSE
