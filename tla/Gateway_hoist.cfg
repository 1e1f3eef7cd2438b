CONSTANTS
  Requests = {r1, r2}
  Headers = {"c1"}
  NoHeader = "none"
  Default = "default"
  Bodies <- MCHoist
  ModelRoutes <- MCRoutes
  DefaultProvider = "openai"
  WireShape <- MCShape
  PoolSize = 1
  MaxRestarts = 0
  NoPrefix = NoPrefix
SPECIFICATION Spec
INVARIANT PrefixStable
