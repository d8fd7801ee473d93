--------------------------- MODULE SentryVerifier ---------------------------
(***************************************************************************)
(* The Sentry authenticator as an implementation of TokenVerifier: a call  *)
(* that is neither idle nor done is under way, a key set that was replaced *)
(* may verify for a refresh interval and a fetch, and a new one may go     *)
(* unnoticed for the duration of a fetch.                                  *)
(***************************************************************************)
EXTENDS SentryJwks

Status(p) ==
  CASE p = "idle" -> "idle" [] p = "done" -> "done" [] OTHER -> "called"

\* The times at which the claims of a token are what Authenticate asks for.
Sound(t) ==
  {n \in Nat : t.nbf <= n /\ n <= t.exp /\ t.audience /\ t.subject = "trusted"}

Verifier == INSTANCE TokenVerifier WITH
  VerifiedBy  <- [t \in Token |-> {v \in Version : Vouches(v, t)}],
  KnownTo     <- [t \in Token |-> {v \in Version : Matching(v, t.kid) # {}}],
  SoundAt     <- [t \in Token |-> Sound(t)],
  AcceptSlack <- RefreshInterval + FetchTimeout,
  MissSlack   <- FetchTimeout,
  status      <- [r \in Request |-> Status(pc[r])],
  excused     <- [r \in Request |-> outage[r]]

\* The authenticator keeps the promise of TokenVerifier: every call that it
\* answers, whatever the cache held and whatever other calls fetched, gets one
\* verdict that the published key sets justify, and the verdict stays.
ImplementsVerifier == Verifier!Spec
=============================================================================
