SPECIFICATION Spec
CONSTANTS
  Own = 1
  Fallback = 3
  NoApp = NoApp
  App = {1, 2}
  Pools <- MCPools
  Resolutions = {TRUE, FALSE}
  Asked <- MCAsked
  Call = {c1, c2}
  Instance = {i1}
  NoInstance = NoInstance
  MaxEvent = 1
  EventIDs <- MCEventIDs
SYMMETRY Callers
INVARIANTS TypeOK OnlyTheNamedSidecar AtMostOneEffect SuccessIsTrue RerunEventExact
