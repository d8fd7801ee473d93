SPECIFICATION FairSpec
CONSTANTS
  Request = {r1}
  Envs <- MCEnvs
  Paths <- MCPaths
  Token = {t1, t2}
  t1 = t1
  t2 = t2
  Lists = {t1}
  Svid <- MCSvid
  NoToken = NoToken
  Garbage = Garbage
  MaxEvents = 1
INVARIANTS TypeOK OnlyAuthenticatedAreServed RefusedByAll OutageOnlyDegrades
PROPERTIES EveryRequestAnswered
