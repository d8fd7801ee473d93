---------------------------- MODULE TokenVerifier ----------------------------
(***************************************************************************)
(* What an authenticator promises its callers, without a cache, fetches or *)
(* locks: every call gets one verdict, for good, and the verdict is just   *)
(* by the key sets that the issuer published and by the time of the call.  *)
(* A token is accepted only by a set that was published not long before    *)
(* the call began, and a key is missed only if such a set did not hold it. *)
(* What "not long" means are two constants; a call that could not reach    *)
(* the issuer is excused from the first.                                   *)
(***************************************************************************)
EXTENDS Naturals

CONSTANTS
  Request,      \* calls
  Token,        \* tokens
  Version,      \* the key sets that the issuer publishes, in this order
  VerifiedBy,   \* for each token, the versions with a key that verifies it
  KnownTo,      \* for each token, the versions with a key of its key ID
  SoundAt,      \* for each token, the times at which its claims hold
  AcceptSlack,  \* how long a replaced set may still verify
  MissSlack     \* how long a new set may go unnoticed

VARIABLES clock, version, publishedAt, token, status, began, excused, verdict

world == <<clock, version, publishedAt>>
calls == <<status, began, excused, verdict>>
vars  == <<world, token, calls>>

Init ==
  /\ clock = 0
  /\ version = 0
  /\ publishedAt = [v \in Version |-> 0]
  /\ token \in [Request -> Token]
  /\ status = [r \in Request |-> "idle"]
  /\ began = [r \in Request |-> 0]
  /\ excused = [r \in Request |-> FALSE]
  /\ verdict = [r \in Request |-> "none"]

Pass ==
  /\ clock' = clock + 1
  /\ UNCHANGED <<version, publishedAt, token, calls>>

Publish ==
  /\ version' = version + 1
  /\ publishedAt' = [publishedAt EXCEPT ![version'] = clock]
  /\ UNCHANGED <<clock, token, calls>>

Call(r) ==
  /\ status[r] = "idle"
  /\ status' = [status EXCEPT ![r] = "called"]
  /\ began' = [began EXCEPT ![r] = clock]
  /\ UNCHANGED <<world, token, excused, verdict>>

\* A token that does not parse.
Malformed(r) ==
  /\ status[r] = "idle"
  /\ status' = [status EXCEPT ![r] = "done"]
  /\ began' = [began EXCEPT ![r] = clock]
  /\ verdict' = [verdict EXCEPT ![r] = "bad_jwt"]
  /\ UNCHANGED <<world, token, excused>>

\* The issuer could not be reached.
Excuse(r) ==
  /\ status[r] = "called"
  /\ excused' = [excused EXCEPT ![r] = TRUE]
  /\ UNCHANGED <<world, token, status, began, verdict>>

\* Version v was the published one at some moment after t - slack.
Recent(v, t, slack) == v = version \/ publishedAt[v + 1] + slack >= t

Just(r, w) ==
  /\ w = "accepted" =>
       /\ clock \in SoundAt[token[r]]
       /\ \E v \in 0 .. version :
            /\ v \in VerifiedBy[token[r]]
            /\ excused[r] \/ Recent(v, began[r], AcceptSlack)
  /\ w = "unknown_key" =>
       \E v \in 0 .. version :
         v \notin KnownTo[token[r]] /\ Recent(v, began[r], MissSlack)

Decide(r, w) ==
  /\ status[r] = "called"
  /\ Just(r, w)
  /\ status' = [status EXCEPT ![r] = "done"]
  /\ verdict' = [verdict EXCEPT ![r] = w]
  /\ excused' = [excused EXCEPT ![r] = @ \/ w = "refresh_failed"]
  /\ UNCHANGED <<world, token, began>>

Refusals == {"unknown_key", "refresh_failed", "bad_signature", "expired",
             "not_yet_valid", "bad_audience", "no_subject", "bad_domain"}

Next ==
  \/ Pass \/ Publish
  \/ \E r \in Request : Call(r) \/ Malformed(r) \/ Excuse(r)
  \/ \E r \in Request, w \in Refusals \cup {"accepted"} : Decide(r, w)

Spec == Init /\ [][Next]_vars
=============================================================================
