SPECIFICATION Spec
CONSTANTS
  Own = 1
  Fallback = 3
  NoApp = NoApp
  Unknown = 4
  App = {1, 2}
  Pools <- MCPools
  Resolutions <- Unresolved
  MaxInstance = 2
  Beginnings <- MCBeginnings
  Limits = {0, 9}
  DefaultLimit = 1
  MaxLimit = 2
  MaxCalls = 1
  MaxChanges = 0
INVARIANTS NoAppListedTwice
