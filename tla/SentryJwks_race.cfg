SPECIFICATION Spec
CONSTANTS
  Request = {r1, r2}
  Ctor = Ctor
  NoKid = NoKid
  A = A
  B = B
  C = C
  Token <- RotationTokens
  Key <- MCKey
  MaxVersion = 1
  Publication <- MCReplacement
  RefreshInterval = 1
  FetchTimeout = 1
  MaxClock = 4
SYMMETRY Symmetry
INVARIANTS TypeOK CacheAsOf RetiredKeysExpire PublishedKeyFound
PROPERTIES RollbackOnlyByOverlap ImplementsVerifier
