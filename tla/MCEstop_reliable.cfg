SPECIFICATION Spec
CONSTANTS
  Clients = {c1, c2, c3}
  NumThreads = 4
  RpcMayFail = FALSE
  RpcMayBeLate = FALSE
  SpawnerRaces = FALSE
  NoClient = NoClient
INVARIANTS TypeOK SettledAgree
PROPERTIES TriggerAnswerTrue ImplementsCycle
SYMMETRY Symmetry
