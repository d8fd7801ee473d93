---------------------------- MODULE AuthMiddleware ----------------------------
(***************************************************************************)
(* The way of an HTTP request to the MCP server (main.go, the mux, and     *)
(* pkg/auth/middleware.go): probes go to the handlers of Health, of which  *)
(* one asks the sidecar how it is; every other                             *)
(* request is let through, refused for want of a token, or offered to the  *)
(* authenticators one after the other, each of which may have to ask its   *)
(* identity provider.  Requests are served concurrently.                   *)
(*                                                                         *)
(* The identity providers are external, as are the libraries that verify   *)
(* tokens for them: each accepts tokens until they expire or are revoked,  *)
(* and while one is out its authenticator may fail for want of keys (or    *)
(* accept a token with the keys it has).  What oidc.go and spiffe.go make  *)
(* of a verified token is modelled.                                        *)
(***************************************************************************)
EXTENDS AuthConfig, Health, Naturals

CONSTANTS
  Request,     \* HTTP requests
  Envs,        \* environments that the server may be started with
  Paths,       \* request paths
  Token,       \* tokens that clients hold
  NoToken,     \* no such header, or an empty one
  Garbage,     \* a header value that is no token, such as one with a scheme
  Lists,       \* the tokens whose audience is a list, not a single string
  Svid,        \* the trust domain and the SPIFFE ID that each token names
  MaxEvents    \* bound: expiries and outages of the identity providers

ASSUME MiddlewareAssumption ==
  /\ NoToken \notin Token \cup {Garbage} /\ Garbage \notin Token
  /\ \A env \in Envs : env.flags \cup env.complete \subseteq Method
  /\ Lists \subseteq Token
  /\ DOMAIN Svid = Token
  /\ MaxEvents \in Nat

\* An Authorization header is a token with or without the scheme "Bearer", in
\* any case, or one with another scheme.
Headers ==
  [custom : Token \cup {NoToken}, scheme : {"", "bearer", "other"}, token : Token]
    \cup [custom : Token \cup {NoToken}, scheme : {""}, token : {NoToken}]

VARIABLES
  config,          \* the settings, fixed at startup
  accepts,         \* the tokens that each identity provider accepts
  out,             \* the identity providers that are out
  sidecar,         \* whether the server's sidecar answers
  events,          \* number of expiries and outages so far
  pc,              \* "idle", "probing", "trying", "served" or "refused"
  path, headers,   \* what each request asks and carries
  token,           \* the token extracted from its headers
  next,            \* the authenticator that it is offered to
  identity,        \* the identity it was given
  failed,          \* history: methods that may fail its client's token: see Spoiled
  probe,           \* what a probe was answered
  during           \* history: whether the sidecar answered, in the course of a probe

provider == <<accepts, out, sidecar, events>>
request  == <<path, headers, token>>
probes   == <<probe, during>>
vars     == <<config, provider, pc, request, next, identity, failed, probes>>

NoHeaders  == [custom |-> NoToken, scheme |-> "", token |-> NoToken]
NoIdentity == [method |-> "", token |-> NoToken]
NoReply    == Reply(0, "none")

Init ==
  /\ \E env \in Envs : config = DefaultConfig(env) /\ Validate(config)
  /\ accepts \in [Method -> SUBSET Token]
  /\ out = {}
  /\ sidecar = TRUE
  /\ events = 0
  /\ pc = [r \in Request |-> "idle"]
  /\ path = [r \in Request |-> <<>>]
  /\ headers = [r \in Request |-> NoHeaders]
  /\ token = [r \in Request |-> NoToken]
  /\ next = [r \in Request |-> 1]
  /\ identity = [r \in Request |-> NoIdentity]
  /\ failed = [r \in Request |-> {}]
  /\ probe = [r \in Request |-> NoReply]
  /\ during = [r \in Request |-> {}]

-----------------------------------------------------------------------------
(* What a client presents, whatever the middleware makes of it.            *)

\* The token of a client: the custom header's, when that is configured and the
\* request has one, and otherwise Authorization's, raw or with "Bearer".
Own(h) ==
  IF config.header = "X-Sentry" /\ h.custom # NoToken THEN h.custom
  ELSE IF h.scheme = "other" THEN Garbage ELSE h.token

-----------------------------------------------------------------------------
(* The identity providers (external).                                      *)

\* Methods whose library would not verify a token now.
Spoiled(t) == {m \in Method : m \in out \/ t \notin accepts[m]}

Spoil ==
  failed' = [r \in Request |->
               IF pc[r] = "trying"
               THEN failed[r] \cup Spoiled(Own(headers[r]))'
               ELSE failed[r]]

Expire(m, t) ==
  /\ events < MaxEvents /\ t \in accepts[m]
  /\ events' = events + 1
  /\ accepts' = [accepts EXCEPT ![m] = @ \ {t}]
  /\ UNCHANGED <<config, out, sidecar, pc, request, next, identity, probes>>
  /\ Spoil

Outage(m) ==
  /\ events < MaxEvents /\ m \notin out
  /\ events' = events + 1
  /\ out' = out \cup {m}
  /\ UNCHANGED <<config, accepts, sidecar, pc, request, next, identity, probes>>
  /\ Spoil

Recover(m) ==
  /\ m \in out
  /\ out' = out \ {m}
  /\ UNCHANGED <<config, accepts, sidecar, events, pc, request, next, identity,
                 failed, probes>>

\* Probes under way are there to see whether the sidecar answers.
Witness(up) ==
  during' = [r \in Request |->
               IF pc[r] = "probing" THEN during[r] \cup {up} ELSE during[r]]

\* The sidecar stops answering, or answers again.
SidecarDown ==
  /\ events < MaxEvents /\ sidecar
  /\ events' = events + 1
  /\ sidecar' = FALSE
  /\ Witness(FALSE)
  /\ UNCHANGED <<config, accepts, out, pc, request, next, identity, failed, probe>>

SidecarUp ==
  /\ ~sidecar
  /\ sidecar' = TRUE
  /\ Witness(TRUE)
  /\ UNCHANGED <<config, accepts, out, events, pc, request, next, identity, failed,
                 probe>>

-----------------------------------------------------------------------------
(* The middleware.                                                         *)

\* Requests that the mux routes around the middleware.
Unprotected == HealthPaths \cup {<<"/dapr/subscribe">>}

\* The value of the Authorization header, read as a header of its own.
RawAuthorization(h) ==
  IF h.scheme = "" THEN h.token ELSE Garbage

BearerToken(h) == IF h.scheme = "bearer" THEN h.token ELSE RawAuthorization(h)

\* extractTokenWithSource.  The name of the custom header is compared with
\* "Authorization" case and all, but headers are looked up without case.
ExtractToken(h) ==
  LET custom == CASE config.header = "X-Sentry"      -> h.custom
                  [] config.header = "authorization" -> RawAuthorization(h)
                  [] OTHER                           -> NoToken
  IN  IF custom # NoToken THEN custom ELSE BearerToken(h)

Serve(r)  == pc' = [pc EXCEPT ![r] = "served"]
Refuse(r) == pc' = [pc EXCEPT ![r] = "refused"]

\* A probe arrives: two of its handlers answer at once, readiness asks first.
ReceiveProbe(r, p) ==
  /\ pc[r] = "idle"
  /\ path' = [path EXCEPT ![r] = p]
  /\ \/ /\ p = <<"/livez">> /\ Serve(r)
        /\ probe' = [probe EXCEPT ![r] = LivenessHandler]
        /\ UNCHANGED during
     \/ /\ p = <<"/startupz">> /\ Serve(r)
        /\ probe' = [probe EXCEPT ![r] = StartupHandler(NewHandler)]
        /\ UNCHANGED during
     \/ /\ p = <<"/readyz">>
        /\ pc' = [pc EXCEPT ![r] = "probing"]
        /\ during' = [during EXCEPT ![r] = {sidecar}]
        /\ UNCHANGED probe
  /\ UNCHANGED <<config, provider, headers, token, next, identity, failed>>

\* The sidecar answers, or the probe's five seconds with it are over.
Probed(r) ==
  /\ pc[r] = "probing"
  /\ probe' = [probe EXCEPT ![r] = ReadinessHandler(NewHandler, CheckDapr(sidecar))]
  /\ Serve(r)
  /\ UNCHANGED <<config, provider, request, next, identity, failed, during>>

PassesThrough(p) == p \in Unprotected \/ ShouldSkip(config, p) \/ ~AuthOn(config)

\* A request arrives: the checks before the authenticators.
Receive(r, p, h) ==
  /\ pc[r] = "idle"
  /\ path' = [path EXCEPT ![r] = p]
  /\ headers' = [headers EXCEPT ![r] = h]
  /\ p \notin HealthPaths
  /\ UNCHANGED <<config, provider, next, identity, probes>>
  /\ \/ /\ PassesThrough(p)
        /\ Serve(r)
        /\ UNCHANGED <<token, failed>>
     \/ /\ ~PassesThrough(p) /\ ExtractToken(h) = NoToken
        /\ Refuse(r)
        /\ UNCHANGED <<token, failed>>
     \/ /\ ~PassesThrough(p) /\ ExtractToken(h) # NoToken
        /\ pc' = [pc EXCEPT ![r] = "trying"]
        /\ token' = [token EXCEPT ![r] = ExtractToken(h)]
        /\ failed' = [failed EXCEPT ![r] = Spoiled(Own(h))]

Offered(r) == Authenticators(config)[next[r]]

\* OIDCAuthenticator unmarshals the claims of a verified token into a struct
\* whose audience is a []string: a single string is an error.
OidcParses(t) == t \in Lists

\* SPIFFEAuthenticator checks the trust domain of a verified SVID and, when
\* there is an allowlist, its ID.
SpiffeAllows(t) ==
  /\ Svid[t].domain = config.domain
  /\ config.allowed # {} => Svid[t].id \in config.allowed

\* What a method demands of a token that its library verified.
Admits(m, t) ==
  /\ m = "oidc" => OidcParses(t)
  /\ m = "spiffe" => SpiffeAllows(t)

\* The authenticator accepts the token: the loop ends and the handler runs.
Accept(r) ==
  /\ pc[r] = "trying" /\ next[r] <= Len(Authenticators(config))
  /\ token[r] \in accepts[Offered(r)] /\ Admits(Offered(r), token[r])
  /\ identity' = [identity EXCEPT ![r] = [method |-> Offered(r), token |-> token[r]]]
  /\ Serve(r)
  /\ UNCHANGED <<config, provider, request, next, failed, probes>>

\* A method may fail a token that its library does not verify or that it does
\* not admit.
Refuses(m, t) == ~(m \notin Spoiled(t) /\ Admits(m, t))

\* Mistake: the first authenticator that fails ends the loop.
FailAndStop(r) ==
  /\ pc[r] = "trying" /\ next[r] <= Len(Authenticators(config))
  /\ Refuses(Offered(r), token[r])
  /\ next' = [next EXCEPT ![r] = Len(Authenticators(config)) + 1]
  /\ UNCHANGED <<config, provider, pc, request, identity, failed, probes>>

\* Mistake: the same authenticator is asked again.
FailAgain(r) ==
  /\ pc[r] = "trying" /\ next[r] <= Len(Authenticators(config))
  /\ Refuses(Offered(r), token[r])
  /\ UNCHANGED vars

\* Mistake: the loop does not stop after the last one.
FailOn(r) ==
  /\ pc[r] = "trying"
  /\ next' = [next EXCEPT ![r] = @ + 1]
  /\ UNCHANGED <<config, provider, pc, request, identity, failed, probes>>

\* It fails: the next one gets the token.
Fail(r) ==
  /\ pc[r] = "trying" /\ next[r] <= Len(Authenticators(config))
  /\ Refuses(Offered(r), token[r])
  /\ next' = [next EXCEPT ![r] = @ + 1]
  /\ UNCHANGED <<config, provider, pc, request, identity, failed, probes>>

\* Mistake: a loop that found no identity falls through to the handler.
ExhaustedServes(r) ==
  /\ pc[r] = "trying" /\ next[r] > Len(Authenticators(config))
  /\ Serve(r)
  /\ UNCHANGED <<config, provider, request, next, identity, failed, probes>>

Exhausted(r) ==
  /\ pc[r] = "trying" /\ next[r] > Len(Authenticators(config))
  /\ Refuse(r)
  /\ UNCHANGED <<config, provider, request, next, identity, failed, probes>>

Authenticate(r) == Accept(r) \/ Fail(r) \/ Exhausted(r)

-----------------------------------------------------------------------------

Providers ==
  \/ SidecarDown \/ SidecarUp
  \/ \E m \in Method : Outage(m) \/ Recover(m) \/ \E t \in Token : Expire(m, t)

Quiesce == (\A r \in Request : pc[r] \in {"served", "refused"}) /\ UNCHANGED vars

Next ==
  \/ \E r \in Request, p \in Paths, h \in Headers : Receive(r, p, h)
  \/ \E r \in Request, p \in Paths : ReceiveProbe(r, p)
  \/ \E r \in Request : Authenticate(r) \/ Probed(r)
  \/ Providers
  \/ Quiesce

Spec == Init /\ [][Next]_vars

\* Every authenticator comes to a verdict on every token; a probe gives the
\* sidecar five seconds.
FairSpec ==
  Spec /\ \A r \in Request : WF_vars(Authenticate(r)) /\ WF_vars(Probed(r))

-----------------------------------------------------------------------------
(* Properties.                                                             *)

TypeOK ==
  /\ config.methods \subseteq Method /\ config.complete \subseteq Method
  /\ accepts \in [Method -> SUBSET Token]
  /\ out \subseteq Method
  /\ sidecar \in BOOLEAN
  /\ events \in 0 .. MaxEvents
  /\ pc \in [Request -> {"idle", "probing", "trying", "served", "refused"}]
  /\ path \in [Request -> Paths \cup {<<>>}]
  /\ headers \in [Request -> Headers]
  /\ token \in [Request -> Token \cup {NoToken, Garbage}]
  /\ next \in [Request -> 1 .. Len(Methods) + 1]
  /\ identity \in [Request -> [method : Method \cup {""}, token : Token \cup {NoToken}]]
  /\ failed \in [Request -> SUBSET Method]
  /\ probe \in [Request -> [code : {0, 200, 503},
                            status : {"none", "healthy", "degraded", "unhealthy"}]]
  /\ during \in [Request -> SUBSET BOOLEAN]

\* The operator opened this path: no pattern reaches further than it says.
Opened(p) == \E s \in config.skip : p = s.path \/ (s.wild /\ IsPrefix(s.path, p))

\* Method m is turned on by the operator's settings.
TurnedOn(m) == m = config.mode \/ (config.mode = "hybrid" /\ m \in config.methods)

\* Every request for the MCP handler that was served outside the paths the
\* operator opened carries an identity, and one that a method the operator
\* turned on gave it for the token of its own header: the custom header's when
\* it has one, Authorization's otherwise.  A SPIFFE identity is of the trust
\* domain and, if there is an allowlist, on it.
OnlyAuthenticatedAreServed ==
  \A r \in Request :
    LET guarded == path[r] \notin Unprotected /\ ~Opened(path[r]) /\ AuthOn(config)
        own == Own(headers[r])
    IN  pc[r] = "served" /\ guarded =>
          /\ TurnedOn(identity[r].method)
          /\ identity[r].token = own /\ own # NoToken
          /\ identity[r].method = "spiffe" => SpiffeAllows(own)

\* A Bearer header where the custom header is called "authorization", in lower
\* case.  middleware.go:187 says 'Support "Bearer <token>" format', but :174 takes
\* that header for a custom one and passes its value on with the scheme.
Misread(h) == config.header = "authorization" /\ h.scheme = "bearer"

\* No client is turned away while one of the methods turned on would have the
\* token that it presents: if it was refused, each of them refuses that token or
\* was out at some moment of the request.  The authenticators fail one by one,
\* others are never skipped.  The header that is misread is excepted: its clients
\* are turned away whatever their token.
RefusedByAll ==
  \A r \in Request :
    pc[r] = "refused" /\ Own(headers[r]) # NoToken /\ ~Misread(headers[r]) =>
      \A m \in Method : TurnedOn(m) =>
        m \in failed[r] \/ ~Admits(m, Own(headers[r]))

\* oidc.go:40, "Authenticate validates an OIDC token and returns the identity":
\* where OIDC is turned on, a token that its provider's library verifies is not
\* refused, whichever way its audience is written.
VerifiedIsAccepted ==
  \A r \in Request :
    pc[r] = "refused" /\ token[r] # NoToken /\ TurnedOn("oidc") =>
      "oidc" \in failed[r]

\* A readiness probe tells of the sidecar what was so while the probe asked:
\* "degraded" of one that was out, "healthy" of one that answered, so that an outage
\* that lasts shows (health_test.go:138, "degraded when dapr unavailable").  The
\* other probes never tell of it, and it makes none fail: nobody restarts the
\* server or takes its traffic away for it.
OutageOnlyDegrades ==
  \A r \in Request : path[r] \in HealthPaths /\ pc[r] = "served" =>
    /\ probe[r].code = 200
    /\ IF path[r] = <<"/readyz">>
       THEN \E up \in during[r] :
              probe[r].status = (IF up THEN "healthy" ELSE "degraded")
       ELSE probe[r].status = "healthy"

\* Every request is answered, however many authenticators fail it, and every
\* probe, whether the sidecar answers or not.
EveryRequestAnswered ==
  \A r \in Request : pc[r] \in {"trying", "probing"} ~> pc[r] \in {"served", "refused"}
=============================================================================
