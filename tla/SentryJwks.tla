----------------------------- MODULE SentryJwks -----------------------------
(***************************************************************************)
(* The Dapr Sentry authenticator (pkg/auth/sentry.go): a cache of the JSON *)
(* web key set that Sentry publishes, read and refilled by concurrent      *)
(* Authenticate calls.  A read-write mutex protects the pair               *)
(* (jwks, lastRefresh), but it is released around every HTTP fetch, so     *)
(* fetches overlap, answers are installed in any order, and a caller works *)
(* on a snapshot that others may have replaced.                            *)
(*                                                                         *)
(* Key sets are named by the version under which Sentry published them;    *)
(* Publication[v] is the list of keys of version v.  Time is an integer    *)
(* clock.  A fetch takes at most FetchTimeout, the http.Client's Timeout,  *)
(* headers and body included; parsing the body and taking the lock that    *)
(* installs it take no time of that clock.  Every other step may come any  *)
(* time after the one before it.                                           *)
(***************************************************************************)
EXTENDS Naturals, Sequences, FiniteSetsExt

CONSTANTS
  Request,          \* Authenticate calls, one value per call
  Ctor,             \* the constructor NewDaprSentryAuthenticator
  Token,            \* the tokens callers present (records, see TokenShape)
  Key,              \* published keys, records with a kid and a secret
  MaxVersion,       \* bound: key sets published after the first
  Publication,      \* the keys of each version, in published order
  RefreshInterval,  \* DAPR_SENTRY_JWKS_REFRESH_INTERVAL
  FetchTimeout,     \* Timeout of the authenticator's http.Client
  MaxClock,         \* bound on the clock
  NoKid             \* the key ID of a header that names none

Version == 0 .. MaxVersion
NoJwks  == MaxVersion + 1      \* the nil pointer jwks holds before any fetch
Pending == MaxVersion + 2      \* a fetch that the endpoint has not answered
Proc    == Request \cup {Ctor}

\* A token as Authenticate sees it: whether it parses, the key ID of its
\* header (kid), the secret that signed it (signer), its time window, and
\* whether its audience, its subject and the trust domain in it are the
\* configured ones.
TokenShape(t) ==
  /\ t.parses \in BOOLEAN
  /\ t.exp \in Nat
  /\ t.nbf \in Nat
  /\ t.audience \in BOOLEAN
  /\ t.subject \in {"none", "foreign", "trusted"}

ASSUME ConstantsAssumption ==
  /\ Ctor \notin Request
  /\ MaxVersion \in Nat
  /\ Publication \in [Version -> Seq(Key)]
  /\ RefreshInterval \in Nat
  /\ FetchTimeout \in Nat
  /\ MaxClock \in Nat

ASSUME TokenAssumption == \A t \in Token : TokenShape(t)

VARIABLES
  clock,        \* wall-clock time
  version,      \* the key set Sentry publishes now
  publishedAt,  \* when each version was published (read up to version only)
  jwks,         \* a.jwks, as a version
  lastRefresh,  \* a.lastRefresh
  pc,           \* where each call stands
  token,        \* the token of each call
  began,        \* when each call began
  seen,         \* the local jwks of getSigningKey
  seenRefresh,  \* the local lastRefresh of getSigningKey
  sentAt,       \* when the fetch of each call was sent
  reply,        \* the version in the answer to it, or Pending
  outage,       \* whether a refresh of this call failed
  verdict       \* the result of each call

external == <<version, publishedAt>>
cache    == <<jwks, lastRefresh>>
local    == <<token, began, seen, seenRefresh>>
http     == <<sentAt, reply>>
vars     == <<clock, external, cache, pc, local, http, outage, verdict>>

Fetching == {"constructing", "ageFetch", "missFetch"}
Places   == Fetching \cup {"idle", "snapshot", "check", "ageReread", "lookup",
                           "missReread", "verify", "done", "ready", "failed"}
Verdicts == {"none", "accepted", "bad_jwt", "unknown_key", "refresh_failed",
             "bad_signature", "expired", "not_yet_valid", "bad_audience",
             "no_subject", "bad_domain"}

Init ==
  /\ clock = 0
  /\ version = 0
  /\ publishedAt = [v \in Version |-> 0]
  /\ jwks = NoJwks
  /\ lastRefresh = 0
  /\ pc = [p \in Proc |-> IF p = Ctor THEN "constructing" ELSE "idle"]
  /\ token \in [Request -> Token]
  /\ began = [r \in Request |-> 0]
  /\ seen = [r \in Request |-> NoJwks]
  /\ seenRefresh = [r \in Request |-> 0]
  /\ sentAt = [p \in Proc |-> 0]
  /\ reply = [p \in Proc |-> Pending]
  /\ outage = [p \in Proc |-> FALSE]
  /\ verdict = [r \in Request |-> "none"]

-----------------------------------------------------------------------------
(* Time, Sentry and the network.                                           *)

\* Mistake: the client has no Timeout.
OverdueNever(p) == FALSE

\* The http.Client cancels a fetch at its deadline, so no fetch outlives it.
Overdue(p) == pc[p] \in Fetching /\ clock >= sentAt[p] + FetchTimeout

Tick ==
  /\ clock < MaxClock
  /\ \A p \in Proc : ~Overdue(p)
  /\ clock' = clock + 1
  /\ UNCHANGED <<external, cache, pc, local, http, outage, verdict>>

\* Sentry publishes its next key set.
Rotate ==
  /\ version < MaxVersion
  /\ version' = version + 1
  /\ publishedAt' = [publishedAt EXCEPT ![version + 1] = clock]
  /\ UNCHANGED <<clock, cache, pc, local, http, outage, verdict>>

\* The JWKS endpoint answers with the key set of the moment; the answer is
\* then under way for any time the deadline allows.
Answer(p) ==
  /\ pc[p] \in Fetching
  /\ reply[p] = Pending
  /\ reply' = [reply EXCEPT ![p] = version]
  /\ UNCHANGED <<clock, external, cache, pc, local, sentAt, outage, verdict>>

-----------------------------------------------------------------------------
(* refreshJWKS, as its three callers use it.                               *)

\* A fetch leaves: a new request with an answer of its own.
Send(p, place) ==
  /\ pc' = [pc EXCEPT ![p] = place]
  /\ sentAt' = [sentAt EXCEPT ![p] = clock]
  /\ reply' = [reply EXCEPT ![p] = Pending]

\* The variables of a fetch go out of scope.
Received(p) ==
  /\ sentAt' = [sentAt EXCEPT ![p] = 0]
  /\ reply' = [reply EXCEPT ![p] = Pending]

\* Mistake: a call that missed a key looks up again until it is found.
AfterRefreshRetry(place) ==
  CASE place = "constructing" -> "ready"
    [] place = "ageFetch"     -> "ageReread"
    [] place = "missFetch"    -> "ageReread"

\* Where a call stands after a refresh that succeeded.
AfterRefresh(place) ==
  CASE place = "constructing" -> "ready"
    [] place = "ageFetch"     -> "ageReread"
    [] place = "missFetch"    -> "missReread"

\* Mistake: an answer that is no key set is installed as an empty one.
InstallAnyway(p) ==
  /\ pc[p] \in Fetching
  /\ jwks' = reply[p]
  /\ lastRefresh' = clock
  /\ pc' = [pc EXCEPT ![p] = AfterRefresh(pc[p])]
  /\ Received(p)
  /\ UNCHANGED <<clock, external, local, outage, verdict>>

\* The body arrived with status 200 and parsed: jwks and lastRefresh change
\* together under the write lock, whatever was installed in the meantime.
Install(p) ==
  /\ pc[p] \in Fetching
  /\ reply[p] # Pending
  /\ jwks' = reply[p]
  /\ lastRefresh' = clock
  /\ pc' = [pc EXCEPT ![p] = AfterRefresh(pc[p])]
  /\ Received(p)
  /\ UNCHANGED <<clock, external, local, outage, verdict>>

\* Mistake: a call that falls back on the cached keys puts its snapshot back.
FailRefreshRestoring(p) ==
  /\ pc[p] = "ageFetch"
  /\ outage' = [outage EXCEPT ![p] = TRUE]
  /\ jwks' = seen[p]
  /\ pc' = [pc EXCEPT ![p] = "ageReread"]
  /\ Received(p)
  /\ UNCHANGED <<clock, external, lastRefresh, local, verdict>>

\* Connection error, timeout, cancelled caller, other status or unparsable
\* body: the cache stays.  A constructor fails, a call that found its cache
\* expired goes on with the cached keys, one that missed a key is rejected.
FailRefresh(p) ==
  /\ pc[p] \in Fetching
  /\ outage' = [outage EXCEPT ![p] = TRUE]
  /\ \/ /\ pc[p] = "constructing"
        /\ pc' = [pc EXCEPT ![p] = "failed"]
        /\ UNCHANGED verdict
     \/ /\ pc[p] = "ageFetch"
        /\ pc' = [pc EXCEPT ![p] = "ageReread"]
        /\ UNCHANGED verdict
     \/ /\ pc[p] = "missFetch"
        /\ pc' = [pc EXCEPT ![p] = "done"]
        /\ verdict' = [verdict EXCEPT ![p] = "refresh_failed"]
  /\ Received(p)
  /\ UNCHANGED <<clock, external, cache, local>>

-----------------------------------------------------------------------------
(* Authenticate and getSigningKey.                                         *)

\* jwks.Key(keyID), or every key when the header names none.
\* These are the places of the matches in the set.
Matching(v, kid) ==
  {i \in DOMAIN Publication[v] : kid \in {NoKid, Publication[v][i].kid}}

\* getSigningKey returns the first match only.
SigningKey(v, kid) == Publication[v][Min(Matching(v, kid))]

Finish(r, result) ==
  /\ pc' = [pc EXCEPT ![r] = "done"]
  /\ verdict' = [verdict EXCEPT ![r] = result]

\* A call arrives at an authenticator that was constructed; its token parses
\* and has a header, or it is rejected at once.
Begin(r) ==
  /\ pc[Ctor] = "ready"
  /\ pc[r] = "idle"
  /\ began' = [began EXCEPT ![r] = clock]
  /\ \/ /\ token[r].parses
        /\ pc' = [pc EXCEPT ![r] = "snapshot"]
        /\ UNCHANGED verdict
     \/ /\ ~token[r].parses
        /\ Finish(r, "bad_jwt")
  /\ UNCHANGED <<clock, external, cache, token, seen, seenRefresh, http, outage>>

\* The first read lock: both fields at once.
Snapshot(r) ==
  /\ pc[r] = "snapshot"
  /\ seen' = [seen EXCEPT ![r] = jwks]
  /\ seenRefresh' = [seenRefresh EXCEPT ![r] = lastRefresh]
  /\ pc' = [pc EXCEPT ![r] = "check"]
  /\ UNCHANGED <<clock, external, cache, token, began, http, outage, verdict>>

\* Mistake: the age of the cache is never too great.
ExpiredNever(refresh) == FALSE

\* time.Since(lastRefresh) > RefreshInterval, on the snapshot; the local
\* lastRefresh is not used again.
Expired(refresh) == clock - refresh > RefreshInterval

CheckAge(r) ==
  /\ pc[r] = "check"
  /\ \/ /\ Expired(seenRefresh[r])
        /\ Send(r, "ageFetch")
     \/ /\ ~Expired(seenRefresh[r])
        /\ pc' = [pc EXCEPT ![r] = "lookup"]
        /\ UNCHANGED http
  /\ seenRefresh' = [seenRefresh EXCEPT ![r] = 0]
  /\ UNCHANGED <<clock, external, cache, token, began, seen, outage, verdict>>

\* The second read lock, after the refresh of an expired cache.
RereadAged(r) ==
  /\ pc[r] = "ageReread"
  /\ seen' = [seen EXCEPT ![r] = jwks]
  /\ pc' = [pc EXCEPT ![r] = "lookup"]
  /\ UNCHANGED <<clock, external, cache, token, began, seenRefresh, http, outage,
                 verdict>>

\* No match in the snapshot: refresh once, however young the cache is.
Lookup(r) ==
  /\ pc[r] = "lookup"
  /\ \/ /\ Matching(seen[r], token[r].kid) = {}
        /\ Send(r, "missFetch")
     \/ /\ Matching(seen[r], token[r].kid) # {}
        /\ pc' = [pc EXCEPT ![r] = "verify"]
        /\ UNCHANGED http
  /\ UNCHANGED <<clock, external, cache, local, outage, verdict>>

\* Mistake: the second look-up is in the snapshot from before the refresh.
RereadMissedBefore(r) ==
  /\ pc[r] = "missReread"
  /\ \/ /\ Matching(seen[r], token[r].kid) = {}
        /\ Finish(r, "unknown_key")
     \/ /\ Matching(seen[r], token[r].kid) # {}
        /\ pc' = [pc EXCEPT ![r] = "verify"]
        /\ UNCHANGED verdict
  /\ UNCHANGED <<clock, external, cache, local, http, outage>>

\* The third read lock, after the refresh for a missing key, and the second
\* and last look-up.
RereadMissed(r) ==
  /\ pc[r] = "missReread"
  /\ seen' = [seen EXCEPT ![r] = jwks]
  /\ \/ /\ Matching(jwks, token[r].kid) = {}
        /\ Finish(r, "unknown_key")
     \/ /\ Matching(jwks, token[r].kid) # {}
        /\ pc' = [pc EXCEPT ![r] = "verify"]
        /\ UNCHANGED verdict
  /\ UNCHANGED <<clock, external, cache, token, began, seenRefresh, http, outage>>

\* The signature under the key found, then the claims in the code's order.
Judgement(t, key) ==
  IF t.signer # key.secret THEN "bad_signature"
  ELSE IF clock > t.exp THEN "expired"
  ELSE IF clock < t.nbf THEN "not_yet_valid"
  ELSE IF ~t.audience THEN "bad_audience"
  ELSE CASE t.subject = "none"    -> "no_subject"
         [] t.subject = "foreign" -> "bad_domain"
         [] t.subject = "trusted" -> "accepted"

Validate(r) ==
  /\ pc[r] = "verify"
  /\ Finish(r, Judgement(token[r], SigningKey(seen[r], token[r].kid)))
  /\ UNCHANGED <<clock, external, cache, local, http, outage>>

\* The end of the bounded behaviour: time is used up and no call is under way.
Quiesce ==
  /\ clock = MaxClock
  /\ pc[Ctor] = "failed" \/ \A r \in Request : pc[r] = "done"
  /\ UNCHANGED vars

-----------------------------------------------------------------------------

Fetch(p) == Answer(p) \/ Install(p) \/ FailRefresh(p)

Step(r) ==
  Snapshot(r) \/ CheckAge(r) \/ RereadAged(r) \/ Lookup(r) \/ RereadMissed(r)
    \/ Validate(r)

Next ==
  \/ Tick
  \/ Rotate
  \/ \E p \in Proc : Fetch(p)
  \/ \E r \in Request : Begin(r) \/ Step(r)
  \/ Quiesce

Spec == Init /\ [][Next]_vars

\* The Go scheduler runs every runnable goroutine; the deadline ends every
\* fetch, as an answer or as an error.  Nothing obliges Sentry to answer.
Fairness ==
  \A p \in Proc :
    /\ WF_vars(Install(p) \/ FailRefresh(p))
    /\ p \in Request => WF_vars(Step(p))

FairSpec == Spec /\ Fairness

-----------------------------------------------------------------------------
(* Properties.                                                             *)

TypeOK ==
  /\ clock \in 0 .. MaxClock
  /\ version \in Version
  /\ publishedAt \in [Version -> 0 .. MaxClock]
  /\ jwks \in Version \cup {NoJwks}
  /\ lastRefresh \in 0 .. MaxClock
  /\ pc \in [Proc -> Places]
  /\ token \in [Request -> Token]
  /\ began \in [Request -> 0 .. MaxClock]
  /\ seen \in [Request -> Version \cup {NoJwks}]
  /\ seenRefresh \in [Request -> 0 .. MaxClock]
  /\ sentAt \in [Proc -> 0 .. MaxClock]
  /\ reply \in [Proc -> Version \cup {Pending}]
  /\ outage \in [Proc -> BOOLEAN]
  /\ verdict \in [Request -> Verdicts]

\* Version v was the published one at time t - slack or later.
CurrentAfter(v, t, slack) ==
  /\ v \in 0 .. version
  /\ v = version \/ publishedAt[v + 1] + slack >= t

\* The cached key set is never older than its time stamp claims by more than
\* one fetch: it was still the published one FetchTimeout before lastRefresh,
\* although answers may be installed in another order than they were given.
CacheAsOf == jwks # NoJwks => CurrentAfter(jwks, lastRefresh, FetchTimeout)

\* Key v of the published set verifies the token and bears its key ID.
Vouches(v, t) ==
  \E i \in DOMAIN Publication[v] :
    /\ Publication[v][i].secret = t.signer
    /\ t.kid \in {NoKid, Publication[v][i].kid}

\* The key behind an accepted token was still published a refresh interval and
\* a fetch before the call began, unless the call's own refresh failed.
AcceptedOK(r) ==
  verdict[r] = "accepted" =>
    \E v \in 0 .. version :
      /\ Vouches(v, token[r])
      /\ outage[r] \/ CurrentAfter(v, began[r], RefreshInterval + FetchTimeout)

\* A token is accepted only on a key that Sentry still published a refresh
\* interval and a fetch before the call began; an older key counts only in a
\* call whose own refresh failed, where getSigningKey falls back on the cache.
RetiredKeysExpire == \A r \in Request : AcceptedOK(r)

\* A key reported missing was missing from a set that was still published a
\* fetch before the call began.
MissingOK(r) ==
  verdict[r] = "unknown_key" =>
    \E v \in 0 .. version :
      /\ CurrentAfter(v, began[r], FetchTimeout)
      /\ Matching(v, token[r].kid) = {}

\* A key ID is reported as not found only if Sentry did not publish it at some
\* moment later than a fetch's duration before the call: a key that has been
\* published for FetchTimeout is found however old the cache is, and whatever
\* answer of another call was installed between this call's refresh and its
\* second look-up.
PublishedKeyFound == \A r \in Request : MissingOK(r)

\* The cache goes back to an older key set only when a slow fetch ends that
\* was sent before the newer set was published: an answer to a request sent
\* later can never undo a refresh.
RollbackOnlyByOverlap ==
  [][ jwks # NoJwks /\ jwks' < jwks =>
        \E p \in Proc : /\ pc[p] \in Fetching
                        /\ reply[p] = jwks'
                        /\ sentAt[p] <= publishedAt[jwks] ]_vars

\* Every call returns: a refresh is tried at most twice, no lock is held
\* across a fetch, and the deadline ends each fetch.
CallsReturn ==
  \A r \in Request : pc[r] \notin {"idle", "done"} ~> pc[r] = "done"

-----------------------------------------------------------------------------
(* The inductive invariant behind the safety properties.                   *)

HistoryInv ==
  /\ \A v \in 0 .. version : publishedAt[v] <= clock
  /\ \A v, w \in 0 .. version : v <= w => publishedAt[v] <= publishedAt[w]

CacheInv ==
  /\ lastRefresh <= clock
  /\ CacheAsOf
  /\ pc[Ctor] \in {"constructing", "ready", "failed"}
  /\ pc[Ctor] = "ready" => jwks # NoJwks

\* An answer under way was current when its request was sent or later, and a
\* fetch under way is within its deadline.
FetchOK(p) ==
  /\ reply[p] # Pending =>
        pc[p] \in Fetching /\ CurrentAfter(reply[p], sentAt[p], 0)
  /\ pc[p] \in Fetching => sentAt[p] <= clock /\ clock <= sentAt[p] + FetchTimeout

\* How fresh the snapshot of a call is at each of its steps.
CallOK(r) ==
  /\ began[r] <= clock
  /\ pc[r] \notin {"constructing", "ready", "failed"}
  /\ pc[r] # "idle" => pc[Ctor] = "ready"
  /\ pc[r] = "check" =>
        /\ seenRefresh[r] <= clock
        /\ CurrentAfter(seen[r], seenRefresh[r], FetchTimeout)
  /\ pc[r] = "ageReread" => outage[r] \/ began[r] <= lastRefresh
  /\ pc[r] = "missReread" => began[r] <= lastRefresh
  /\ pc[r] \in {"lookup", "verify"} =>
        /\ seen[r] \in 0 .. version
        /\ outage[r] \/ CurrentAfter(seen[r], began[r], RefreshInterval + FetchTimeout)
  /\ pc[r] = "verify" => Matching(seen[r], token[r].kid) # {}
  /\ verdict[r] # "none" => pc[r] = "done"

\* Together with the types and the two properties of verdicts, preserved by
\* every step.
IInv ==
  /\ TypeOK
  /\ HistoryInv
  /\ CacheInv
  /\ \A p \in Proc : FetchOK(p)
  /\ \A r \in Request : CallOK(r)
  /\ RetiredKeysExpire
  /\ PublishedKeyFound
=============================================================================
