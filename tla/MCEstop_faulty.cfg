SPECIFICATION FairSpec
CONSTANTS
  Clients = {c1, c2}
  NumThreads = 2
  RpcMayFail = TRUE
  RpcMayBeLate = FALSE
  SpawnerRaces = TRUE
  NoClient = NoClient
INVARIANTS NeverSilentlyStopped SafeInv
PROPERTIES ClearAnswerTrue HolderReturns
