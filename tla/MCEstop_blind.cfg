SPECIFICATION Spec
CONSTANTS
  Clients = {c1}
  NumThreads = 4
  RpcMayFail = TRUE
  RpcMayBeLate = FALSE
  SpawnerRaces = FALSE
  NoClient = NoClient
PROPERTIES TriggerAnswerTrue
