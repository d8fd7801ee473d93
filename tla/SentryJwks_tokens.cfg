SPECIFICATION FairSpec
CONSTANTS
  Request = {r1}
  Ctor = Ctor
  NoKid = NoKid
  A = A
  B = B
  C = C
  Token <- AllTokens
  Key <- MCKey
  MaxVersion = 2
  Publication <- MCPublication
  RefreshInterval = 2
  FetchTimeout = 1
  MaxClock = 5
PROPERTIES CallsReturn
