SPECIFICATION Spec
CONSTANTS
  Request = {r1}
  Envs <- OidcOnly
  Paths <- RootOnly
  Token = {t1, t2}
  t1 = t1
  t2 = t2
  Lists = {t1}
  Svid <- MCSvid
  NoToken = NoToken
  Garbage = Garbage
  MaxEvents = 0
INVARIANTS VerifiedIsAccepted
