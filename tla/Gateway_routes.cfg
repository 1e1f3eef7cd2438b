CONSTANTS
  Requests = {r1, r2}
  Headers = {"c1"}
  NoHeader = "none"
  Default = "default"
  Bodies <- MCBodies
  ModelRoutes <- MCRoutes
  DefaultProvider = "openai"
  WireShape <- MCShape
  PoolSize = 1
  MaxRestarts = 1
  NoPrefix = NoPrefix
SPECIFICATION FairSpec
INVARIANTS
  GatewayTypeOK
  GuardedPrefixStable
  ConflictsAreTrue
  TruthfulStatus
PROPERTIES
  ConnectionsClose
  EveryRequestAnswered
