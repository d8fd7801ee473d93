SPECIFICATION FairSpec
CONSTANTS
  Own = 1
  Fallback = 3
  NoApp = NoApp
  Unknown = 4
  App = {1, 2}
  Pools <- MCPools
  Resolutions <- Resolved
  MaxInstance = 2
  Beginnings <- MCBeginnings
  Limits = {0, 9}
  DefaultLimit = 1
  MaxLimit = 2
  MaxCalls = 2
  MaxChanges = 2
INVARIANTS TypeOK NothingSilentlyMissing NoPhantom AccountsBalance NoAppListedTwice
PROPERTIES CallReturns
