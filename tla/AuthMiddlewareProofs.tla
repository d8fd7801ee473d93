------------------------- MODULE AuthMiddlewareProofs -------------------------
(***************************************************************************)
(* Proofs about the way of a request through the authentication, for any   *)
(* environment that the server starts with, any requests, headers, paths   *)
(* and tokens, and any number of expiries and outages.                     *)
(*                                                                         *)
(* The invariant follows the loop over the authenticators: the token that  *)
(* is offered is that of the request's own headers, and, but for a Bearer  *)
(* header that the branch for custom headers takes, each authenticator     *)
(* before the next one was kept from accepting the client's token at some  *)
(* moment of the request, or does not admit it.                            *)
(***************************************************************************)
EXTENDS AuthMiddleware, TLAPS

Authenticator == Authenticators(config)

\* The n-th authenticator had a reason to refuse the client's token.
HasRefused(r, n) ==
  \/ Authenticator[n] \in failed[r]
  \/ ~Admits(Authenticator[n], Own(headers[r]))

\* So had all before the n-th, unless the header was misread.
Tried(r, n) ==
  ~Misread(headers[r]) =>
    \A i \in 1 .. Len(Authenticator) : i < n => HasRefused(r, i)

Identified(r) ==
  /\ token[r] = ExtractToken(headers[r]) /\ token[r] \in Token
  /\ identity[r].token = token[r]
  /\ \E i \in 1 .. Len(Authenticator) : identity[r].method = Authenticator[i]
  /\ Admits(identity[r].method, token[r])

RequestInv(r) ==
  /\ pc[r] = "idle" => next[r] = 1 /\ token[r] = NoToken
  /\ pc[r] = "trying" =>
        /\ token[r] = ExtractToken(headers[r]) /\ token[r] # NoToken
        /\ Spoiled(Own(headers[r])) \subseteq failed[r]
        /\ Tried(r, next[r])
        /\ path[r] \notin HealthPaths
  /\ pc[r] = "refused" =>
        ExtractToken(headers[r]) = NoToken \/ Tried(r, Len(Authenticator) + 1)
  /\ pc[r] = "served" =>
        path[r] \in HealthPaths \/ PassesThrough(path[r]) \/ Identified(r)

ProbeInv(r) ==
  /\ pc[r] = "probing" => path[r] = <<"/readyz">> /\ sidecar \in during[r]
  /\ path[r] \in HealthPaths /\ pc[r] = "served" =>
        /\ probe[r].code = 200
        /\ IF path[r] = <<"/readyz">>
           THEN \E up \in during[r] :
                  probe[r].status = (IF up THEN "healthy" ELSE "degraded")
           ELSE probe[r].status = "healthy"

AInv ==
  /\ TypeOK
  /\ \A r \in Request : RequestInv(r) /\ ProbeInv(r)

-----------------------------------------------------------------------------
(* The authenticators that a server has.                                   *)

LEMMA MethodSet == Method = {"oidc", "spiffe", "dapr-sentry"}
BY DEF Method, Methods, Range

LEMMA IfOnType ==
  ASSUME NEW m \in Method
  PROVE  IfOn(config, m) \in Seq(Method) /\ Len(IfOn(config, m)) \in 0 .. 1
<1>1. <<m>> \in Seq(Method) /\ Len(<<m>>) = 1
  OBVIOUS
<1>2. <<>> \in Seq(Method) /\ Len(<<>>) = 0
  OBVIOUS
<1>3. IfOn(config, m) = <<m>> \/ IfOn(config, m) = <<>>
  BY DEF IfOn
<1>4. CASE IfOn(config, m) = <<m>>
  BY <1>1, <1>4
<1>5. CASE IfOn(config, m) = <<>>
  BY <1>2, <1>5
<1> QED
  BY <1>3, <1>4, <1>5

LEMMA AuthenticatorsType ==
  /\ Authenticator \in Seq(Method)
  /\ Len(Authenticator) \in 0 .. 3
<1> DEFINE a == IfOn(config, "oidc")
           b == IfOn(config, "spiffe")
           s == IfOn(config, "dapr-sentry")
<1>1. /\ a \in Seq(Method) /\ b \in Seq(Method) /\ s \in Seq(Method)
      /\ Len(a) \in 0 .. 1 /\ Len(b) \in 0 .. 1 /\ Len(s) \in 0 .. 1
  BY MethodSet, IfOnType
<1> HIDE DEF a, b, s
<1>2. (a \o b) \o s \in Seq(Method) /\ Len((a \o b) \o s) = Len(a) + Len(b) + Len(s)
  <2>1. a \o b \in Seq(Method) /\ Len(a \o b) = Len(a) + Len(b)
    BY <1>1
  <2> QED
    BY <1>1, <2>1
<1>3. Authenticator = (a \o b) \o s
  BY DEF Authenticator, Authenticators, a, b, s
<1>4. Len(a) + Len(b) + Len(s) \in 0 .. 3
  <2>1. \A i, j, k \in 0 .. 1 : i + j + k \in 0 .. 3
    OBVIOUS
  <2> QED
    BY <1>1, <2>1
<1> QED
  BY <1>2, <1>3, <1>4

\* The authenticators are those of the methods that are turned on.
LEMMA AuthenticatorsAreOn ==
  ASSUME NEW m \in Method
  PROVE  TurnedOn(m) <=> \E i \in 1 .. Len(Authenticator) : m = Authenticator[i]
<1> DEFINE a == IfOn(config, "oidc")
           b == IfOn(config, "spiffe")
           s == IfOn(config, "dapr-sentry")
           Has(q, x) == \E i \in 1 .. Len(q) : x = q[i]
<1>1. ASSUME NEW x \in Method PROVE IfOn(config, x) = (IF TurnedOn(x) THEN <<x>> ELSE <<>>)
  BY DEF IfOn, TurnedOn
<1>2. ASSUME NEW x \in Method PROVE Has(IfOn(config, x), m) <=> (m = x /\ TurnedOn(x))
  BY <1>1
<1>3. ASSUME NEW p \in Seq(Method), NEW q \in Seq(Method)
      PROVE  Has(p \o q, m) <=> Has(p, m) \/ Has(q, m)
  <2>1. ASSUME Has(p, m) PROVE Has(p \o q, m)
    BY <2>1
  <2>2. ASSUME Has(q, m) PROVE Has(p \o q, m)
    <3>1. PICK i \in 1 .. Len(q) : m = q[i]
      BY <2>2
    <3>2. Len(p) + i \in 1 .. Len(p \o q) /\ (p \o q)[Len(p) + i] = q[i]
      OBVIOUS
    <3> QED
      BY <3>1, <3>2
  <2>3. ASSUME Has(p \o q, m) PROVE Has(p, m) \/ Has(q, m)
    <3>1. PICK i \in 1 .. Len(p \o q) : m = (p \o q)[i]
      BY <2>3
    <3>2. CASE i <= Len(p)
      BY <3>1, <3>2
    <3>3. CASE i > Len(p)
      <4>1. i - Len(p) \in 1 .. Len(q) /\ (p \o q)[i] = q[i - Len(p)]
        BY <3>3
      <4> QED
        BY <3>1, <4>1
    <3> QED
      BY <3>2, <3>3
  <2> QED
    BY <2>1, <2>2, <2>3
<1>4. a \in Seq(Method) /\ b \in Seq(Method) /\ s \in Seq(Method) /\ a \o b \in Seq(Method)
  BY MethodSet, IfOnType
<1>5. /\ Has(a, m) <=> (m = "oidc" /\ TurnedOn("oidc"))
      /\ Has(b, m) <=> (m = "spiffe" /\ TurnedOn("spiffe"))
      /\ Has(s, m) <=> (m = "dapr-sentry" /\ TurnedOn("dapr-sentry"))
  BY <1>2, MethodSet
<1>6. Authenticator = (a \o b) \o s
  BY DEF Authenticator, Authenticators
<1> HIDE DEF a, b, s, Has
<1>7. Has(Authenticator, m) <=> TurnedOn(m)
  BY <1>3, <1>4, <1>5, <1>6, MethodSet
<1> QED
  BY <1>7 DEF Has

-----------------------------------------------------------------------------
(* The invariant.                                                          *)

LEMMA InitInv == Init => AInv
<1> SUFFICES ASSUME Init PROVE AInv
  OBVIOUS
<1>1. config.methods \subseteq Method /\ config.complete \subseteq Method
  <2>1. PICK env \in Envs : config = DefaultConfig(env)
    BY DEF Init
  <2>2. /\ config.methods = env.flags \cup ({env.mode} \cap Method)
        /\ config.complete = env.complete
    BY <2>1 DEF DefaultConfig
  <2>3. env.flags \cup env.complete \subseteq Method
    BY MiddlewareAssumption
  <2> QED
    BY <2>2, <2>3
<1>2. NoHeaders \in Headers
  BY DEF NoHeaders, Headers
<1>3. NoIdentity \in [method : Method \cup {""}, token : Token \cup {NoToken}]
  BY DEF NoIdentity
<1>4. NoReply \in [code : {0, 200, 503},
                  status : {"none", "healthy", "degraded", "unhealthy"}]
  BY DEF NoReply, Reply
<1>5. 1 \in 1 .. Len(Methods) + 1
  BY DEF Methods
<1>6. TypeOK
  <2>1. /\ accepts \in [Method -> SUBSET Token]
        /\ out \subseteq Method /\ sidecar \in BOOLEAN /\ events \in 0 .. MaxEvents
    BY MiddlewareAssumption DEF Init
  <2>2. /\ pc \in [Request -> {"idle", "probing", "trying", "served", "refused"}]
        /\ path \in [Request -> Paths \cup {<<>>}]
        /\ headers \in [Request -> Headers]
        /\ token \in [Request -> Token \cup {NoToken, Garbage}]
    BY <1>2 DEF Init
  <2>3. next \in [Request -> 1 .. Len(Methods) + 1]
    BY <1>5 DEF Init
  <2>4. identity \in [Request -> [method : Method \cup {""}, token : Token \cup {NoToken}]]
    BY <1>3 DEF Init
  <2>5. /\ failed \in [Request -> SUBSET Method]
        /\ during \in [Request -> SUBSET BOOLEAN]
    BY DEF Init
  <2>6. probe \in [Request -> [code : {0, 200, 503},
                               status : {"none", "healthy", "degraded", "unhealthy"}]]
    BY <1>4 DEF Init
  <2> QED
    BY <1>1, <2>1, <2>2, <2>3, <2>4, <2>5, <2>6 DEF TypeOK
<1>7. \A r \in Request : RequestInv(r) /\ ProbeInv(r)
  BY DEF Init, RequestInv, ProbeInv
<1> QED
  BY <1>6, <1>7 DEF AInv

\* What is known of a request lasts while it rests and what has failed it grows.
LEMMA RequestRests ==
  ASSUME NEW r \in Request, RequestInv(r), config' = config,
         pc'[r] = pc[r], path'[r] = path[r], headers'[r] = headers[r],
         token'[r] = token[r], next'[r] = next[r], identity'[r] = identity[r],
         failed[r] \subseteq failed'[r],
         pc[r] = "trying" => Spoiled(Own(headers[r]))' \subseteq failed'[r]
  PROVE  RequestInv(r)'
<1>1. Authenticator' = Authenticator
  BY DEF Authenticator, Authenticators, IfOn
<1>2. \A m, t : Admits(m, t)' = Admits(m, t)
  BY DEF Admits, SpiffeAllows, OidcParses
<1>3. \A n : Tried(r, n) => Tried(r, n)'
  <2>1. Own(headers[r])' = Own(headers[r]) /\ Misread(headers[r])' = Misread(headers[r])
    BY DEF Own, Misread
  <2>2. \A n : HasRefused(r, n) => HasRefused(r, n)'
    BY <1>1, <1>2, <2>1 DEF HasRefused
  <2> QED
    BY <1>1, <2>1, <2>2 DEF Tried
<1>4. ExtractToken(headers[r])' = ExtractToken(headers[r])
  BY DEF ExtractToken, RawAuthorization, BearerToken
<1>5. Identified(r) => Identified(r)'
  BY <1>1, <1>2, <1>4 DEF Identified
<1>6. PassesThrough(path[r])' = PassesThrough(path[r])
  BY DEF PassesThrough, ShouldSkip, AuthOn
<1> QED
  BY <1>1, <1>3, <1>4, <1>5, <1>6 DEF RequestInv

LEMMA ProbeRests ==
  ASSUME NEW r \in Request, ProbeInv(r), sidecar' = sidecar,
         pc'[r] = pc[r], path'[r] = path[r], probe'[r] = probe[r], during'[r] = during[r]
  PROVE  ProbeInv(r)'
BY DEF ProbeInv

\* A step of one request disturbs no other.
LEMMA OthersRest ==
  ASSUME AInv, NEW r \in Request, UNCHANGED <<config, provider>>,
         \A q \in Request \ {r} :
           /\ pc'[q] = pc[q] /\ path'[q] = path[q] /\ headers'[q] = headers[q]
           /\ token'[q] = token[q] /\ next'[q] = next[q]
           /\ identity'[q] = identity[q] /\ failed'[q] = failed[q]
           /\ probe'[q] = probe[q] /\ during'[q] = during[q]
  PROVE  \A q \in Request \ {r} : RequestInv(q)' /\ ProbeInv(q)'
<1> TAKE q \in Request \ {r}
<1>1. RequestInv(q) /\ ProbeInv(q)
  BY DEF AInv
<1>2. pc[q] = "trying" => Spoiled(Own(headers[q]))' \subseteq failed'[q]
  BY <1>1 DEF RequestInv, Spoiled, Own, provider
<1> QED
  BY <1>1, <1>2, RequestRests, ProbeRests DEF provider

-----------------------------------------------------------------------------
(* Headers and the token in them.                                          *)

LEMMA HeaderFields ==
  ASSUME NEW h \in Headers
  PROVE  /\ h.custom \in Token \cup {NoToken} /\ h.token \in Token \cup {NoToken}
         /\ h.scheme \in {"", "bearer", "other"}
BY DEF Headers

LEMMA ExtractType ==
  ASSUME NEW h \in Headers
  PROVE  ExtractToken(h) \in Token \cup {NoToken, Garbage}
<1>1. BearerToken(h) \in Token \cup {NoToken, Garbage}
  BY HeaderFields DEF BearerToken, RawAuthorization
<1>2. RawAuthorization(h) \in Token \cup {NoToken, Garbage}
  BY HeaderFields DEF RawAuthorization
<1> QED
  BY <1>1, <1>2, HeaderFields DEF ExtractToken

\* What is extracted is the client's own token, if it is a token at all.
LEMMA ExtractIsOwn ==
  ASSUME NEW h \in Headers, ExtractToken(h) \in Token
  PROVE  ExtractToken(h) = Own(h)
<1>1. NoToken \notin Token /\ Garbage \notin Token
  BY MiddlewareAssumption
<1>2. \/ config.header = "X-Sentry" /\ h.custom # NoToken
      \/ h.scheme = "other" \/ h.scheme = "bearer" \/ h.scheme = ""
  BY HeaderFields
<1> QED
  BY <1>1, <1>2 DEF ExtractToken, BearerToken, RawAuthorization, Own

\* It always is, but for the header that is misread.
LEMMA ExtractIsRead ==
  ASSUME NEW h \in Headers, ~Misread(h)
  PROVE  ExtractToken(h) = Own(h)
<1>1. h.scheme = "other" \/ h.scheme = "bearer" \/ h.scheme = ""
  BY HeaderFields
<1>2. NoToken # Garbage
  BY MiddlewareAssumption
<1> QED
  BY <1>1, <1>2 DEF ExtractToken, BearerToken, RawAuthorization, Own, Misread

-----------------------------------------------------------------------------
(* The types, with the sets that no step looks into named.                 *)

Place    == {"idle", "probing", "trying", "served", "refused"}
Value    == Token \cup {NoToken, Garbage}
Turn     == 1 .. Len(Methods) + 1
Identity == [method : Method \cup {""}, token : Token \cup {NoToken}]
Answer   == [code : {0, 200, 503},
             status : {"none", "healthy", "degraded", "unhealthy"}]

ProviderTypes ==
  /\ config.methods \subseteq Method /\ config.complete \subseteq Method
  /\ accepts \in [Method -> SUBSET Token]
  /\ out \subseteq Method
  /\ sidecar \in BOOLEAN
  /\ events \in 0 .. MaxEvents

RequestTypes ==
  /\ pc \in [Request -> Place]
  /\ path \in [Request -> Paths \cup {<<>>}]
  /\ headers \in [Request -> Headers]
  /\ token \in [Request -> Value]
  /\ next \in [Request -> Turn]
  /\ identity \in [Request -> Identity]
  /\ failed \in [Request -> SUBSET Method]

ProbeTypes ==
  /\ probe \in [Request -> Answer]
  /\ during \in [Request -> SUBSET BOOLEAN]

LEMMA Types == TypeOK <=> ProviderTypes /\ RequestTypes /\ ProbeTypes
BY DEF TypeOK, ProviderTypes, RequestTypes, ProbeTypes, Place, Value, Turn, Identity, Answer

LEMMA TypesNext == TypeOK' <=> ProviderTypes' /\ RequestTypes' /\ ProbeTypes'
BY DEF TypeOK, ProviderTypes, RequestTypes, ProbeTypes, Place, Value, Turn, Identity, Answer

LEMMA Turns == Turn = 1 .. 4
<1>1. Len(Methods) = 3
  BY DEF Methods
<1> QED
  BY <1>1 DEF Turn

LEMMA Places ==
  /\ "idle" \in Place /\ "probing" \in Place /\ "trying" \in Place
  /\ "served" \in Place /\ "refused" \in Place
BY DEF Place

-----------------------------------------------------------------------------
(* The steps of a request.                                                 *)

LEMMA ReceivePreserves ==
  ASSUME AInv, NEW r \in Request, NEW p \in Paths, NEW h \in Headers, Receive(r, p, h)
  PROVE  AInv'
<1>1. ProviderTypes /\ RequestTypes /\ ProbeTypes /\ RequestInv(r)
  BY Types DEF AInv
<1>2. /\ pc[r] = "idle" /\ p \notin HealthPaths
      /\ path' = [path EXCEPT ![r] = p] /\ headers' = [headers EXCEPT ![r] = h]
      /\ UNCHANGED <<config, accepts, out, sidecar, events, next, identity, probe, during>>
  BY DEF Receive, provider, probes
<1>3. path'[r] = p /\ headers'[r] = h /\ next[r] = 1 /\ token[r] = NoToken
  BY <1>1, <1>2 DEF RequestTypes, RequestInv
<1>4. /\ ExtractToken(h)' = ExtractToken(h) /\ PassesThrough(p)' = PassesThrough(p)
      /\ Own(h)' = Own(h) /\ \A t : Spoiled(t)' = Spoiled(t)
  BY <1>2 DEF Own, ExtractToken, RawAuthorization, BearerToken, PassesThrough, ShouldSkip,
              AuthOn, Spoiled
<1>5. \/ PassesThrough(p) /\ Serve(r) /\ UNCHANGED <<token, failed>>
      \/ ExtractToken(h) = NoToken /\ Refuse(r) /\ UNCHANGED <<token, failed>>
      \/ /\ ExtractToken(h) # NoToken
         /\ pc' = [pc EXCEPT ![r] = "trying"]
         /\ token' = [token EXCEPT ![r] = ExtractToken(h)]
         /\ failed' = [failed EXCEPT ![r] = Spoiled(Own(h))]
  BY DEF Receive
<1>6. ExtractToken(headers[r])' = ExtractToken(h)
  <2>1. config' = config /\ headers'[r] = h
    BY <1>2, <1>3
  <2>2. RawAuthorization(headers[r])' = RawAuthorization(h)
    BY <2>1 DEF RawAuthorization
  <2>3. BearerToken(headers[r])' = BearerToken(h)
    BY <2>1, <2>2 DEF BearerToken
  <2>4. headers'[r].custom = h.custom
    BY <2>1
  <2> QED
    BY <2>1, <2>2, <2>3, <2>4 DEF ExtractToken
<1>7. RequestInv(r)' /\ ProbeInv(r)'
  <2>1. CASE PassesThrough(p) /\ Serve(r) /\ UNCHANGED <<token, failed>>
    <3>1. pc'[r] = "served"
      BY <1>1, <2>1 DEF Serve, RequestTypes
    <3> QED
      BY <1>2, <1>3, <1>4, <2>1, <3>1 DEF RequestInv, ProbeInv
  <2>2. CASE ExtractToken(h) = NoToken /\ Refuse(r) /\ UNCHANGED <<token, failed>>
    <3>1. pc'[r] = "refused"
      BY <1>1, <2>2 DEF Refuse, RequestTypes
    <3>2. ExtractToken(headers[r])' = NoToken
      BY <1>6, <2>2
    <3> QED
      BY <3>1, <3>2 DEF RequestInv, ProbeInv
  <2>3. CASE /\ ExtractToken(h) # NoToken
             /\ pc' = [pc EXCEPT ![r] = "trying"]
             /\ token' = [token EXCEPT ![r] = ExtractToken(h)]
             /\ failed' = [failed EXCEPT ![r] = Spoiled(Own(h))]
    <3>1. /\ pc'[r] = "trying" /\ token'[r] = ExtractToken(h)
          /\ failed'[r] = Spoiled(Own(h)) /\ next'[r] = 1
      BY <1>1, <1>2, <1>3, <2>3 DEF RequestTypes
    <3>2. Tried(r, next[r])'
      BY <3>1, AuthenticatorsType DEF Tried
    <3>4. Spoiled(Own(headers[r]))' = Spoiled(Own(h))
      BY <1>2, <1>3 DEF Spoiled, Own
    <3> QED
      BY <1>2, <1>3, <2>3, <1>6, <3>1, <3>2, <3>4 DEF RequestInv, ProbeInv
  <2> QED
    BY <1>5, <2>1, <2>2, <2>3
<1>8. \A q \in Request \ {r} : RequestInv(q)' /\ ProbeInv(q)'
  <2>1. \A q \in Request \ {r} : pc'[q] = pc[q] /\ token'[q] = token[q] /\ failed'[q] = failed[q]
    BY <1>1, <1>5 DEF RequestTypes, Serve, Refuse
  <2>2. \A q \in Request \ {r} : path'[q] = path[q] /\ headers'[q] = headers[q]
    BY <1>1, <1>2 DEF RequestTypes
  <2> QED
    BY <1>2, <2>1, <2>2, OthersRest DEF provider
<1>9. TypeOK'
  <2>1. ExtractToken(h) \in Value
    BY ExtractType DEF Value
  <2>2. Spoiled(Own(h)) \in SUBSET Method
    BY DEF Spoiled
  <2>3. pc' \in [Request -> Place]
    BY <1>1, <1>5, Places DEF RequestTypes, Serve, Refuse
  <2>4. token' \in [Request -> Value] /\ failed' \in [Request -> SUBSET Method]
    BY <1>1, <1>5, <2>1, <2>2 DEF RequestTypes
  <2>5. path' \in [Request -> Paths \cup {<<>>}] /\ headers' \in [Request -> Headers]
    BY <1>1, <1>2 DEF RequestTypes
  <2>6. RequestTypes'
    BY <1>1, <1>2, <2>3, <2>4, <2>5 DEF RequestTypes, Headers, Value, Turn, Identity
  <2>7. ProviderTypes' /\ ProbeTypes'
    BY <1>1, <1>2 DEF ProviderTypes, ProbeTypes, Answer
  <2> QED
    BY <2>6, <2>7, TypesNext
<1> QED
  BY <1>7, <1>8, <1>9 DEF AInv

LEMMA ReceiveProbePreserves ==
  ASSUME AInv, NEW r \in Request, NEW p \in Paths, ReceiveProbe(r, p)
  PROVE  AInv'
<1>1. ProviderTypes /\ RequestTypes /\ ProbeTypes
  BY Types DEF AInv
<1>2. /\ path' = [path EXCEPT ![r] = p]
      /\ UNCHANGED <<config, accepts, out, sidecar, events, headers, token, next,
                     identity, failed>>
  BY DEF ReceiveProbe, provider
<1>3. \/ /\ p = <<"/readyz">> /\ pc' = [pc EXCEPT ![r] = "probing"]
         /\ during' = [during EXCEPT ![r] = {sidecar}] /\ UNCHANGED probe
      \/ /\ p \in HealthPaths /\ p # <<"/readyz">> /\ Serve(r)
         /\ probe' = [probe EXCEPT ![r] = Reply(200, "healthy")] /\ UNCHANGED during
  BY DEF ReceiveProbe, HealthPaths, LivenessHandler, StartupHandler, NewHandler
<1>4. path'[r] = p
  BY <1>1, <1>2 DEF RequestTypes
<1>5. RequestInv(r)' /\ ProbeInv(r)'
  <2>1. CASE /\ p = <<"/readyz">> /\ pc' = [pc EXCEPT ![r] = "probing"]
             /\ during' = [during EXCEPT ![r] = {sidecar}]
    <3>1. pc'[r] = "probing" /\ during'[r] = {sidecar}
      BY <1>1, <2>1 DEF RequestTypes, ProbeTypes
    <3> QED
      BY <1>1, <1>2, <1>4, <2>1, <3>1 DEF RequestInv, ProbeInv, ProviderTypes
  <2>2. CASE /\ p \in HealthPaths /\ p # <<"/readyz">> /\ Serve(r)
             /\ probe' = [probe EXCEPT ![r] = Reply(200, "healthy")]
    <3>1. pc'[r] = "served" /\ probe'[r] = Reply(200, "healthy")
      BY <1>1, <2>2 DEF Serve, RequestTypes, ProbeTypes
    <3>2. Reply(200, "healthy").code = 200 /\ Reply(200, "healthy").status = "healthy"
      BY DEF Reply
    <3> QED
      BY <1>4, <2>2, <3>1, <3>2 DEF RequestInv, ProbeInv
  <2> QED
    BY <1>3, <2>1, <2>2
<1>6. \A q \in Request \ {r} : RequestInv(q)' /\ ProbeInv(q)'
  <2>1. \A q \in Request \ {r} : pc'[q] = pc[q] /\ path'[q] = path[q]
    BY <1>1, <1>2, <1>3 DEF RequestTypes, Serve
  <2>2. \A q \in Request \ {r} : probe'[q] = probe[q] /\ during'[q] = during[q]
    BY <1>1, <1>3 DEF ProbeTypes
  <2> QED
    BY <1>2, <2>1, <2>2, OthersRest DEF provider
<1>7. TypeOK'
  <2>0. {sidecar} \in SUBSET BOOLEAN
    BY <1>1 DEF ProviderTypes
  <2>1. Reply(200, "healthy") \in Answer
    BY DEF Reply, Answer
  <2>2. pc' \in [Request -> Place] /\ path' \in [Request -> Paths \cup {<<>>}]
    BY <1>1, <1>2, <1>3, Places DEF RequestTypes, Serve
  <2>3. probe' \in [Request -> Answer] /\ during' \in [Request -> SUBSET BOOLEAN]
    BY <1>1, <1>3, <2>1, <2>0 DEF ProbeTypes
  <2>4. RequestTypes' /\ ProbeTypes'
    BY <1>1, <1>2, <2>2, <2>3 DEF RequestTypes, ProbeTypes, Headers, Value, Turn, Identity, Answer
  <2>5. ProviderTypes'
    BY <1>1, <1>2 DEF ProviderTypes
  <2> QED
    BY <2>4, <2>5, TypesNext
<1> QED
  BY <1>5, <1>6, <1>7 DEF AInv

LEMMA AcceptPreserves ==
  ASSUME AInv, NEW r \in Request, Accept(r)
  PROVE  AInv'
<1>1. ProviderTypes /\ RequestTypes /\ ProbeTypes /\ RequestInv(r)
  BY Types DEF AInv
<1>2. /\ pc[r] = "trying" /\ next[r] <= Len(Authenticator)
      /\ token[r] \in accepts[Offered(r)] /\ Admits(Offered(r), token[r])
      /\ identity' = [identity EXCEPT ![r] = [method |-> Offered(r), token |-> token[r]]]
      /\ pc' = [pc EXCEPT ![r] = "served"]
      /\ UNCHANGED <<config, accepts, out, sidecar, events, path, headers, token, next,
                     failed, probe, during>>
  BY DEF Accept, Authenticator, Serve, provider, request, probes
<1>3. next[r] \in 1 .. Len(Authenticator)
  BY <1>1, <1>2, AuthenticatorsType DEF RequestTypes, Turn, Methods
<1>4. Offered(r) = Authenticator[next[r]] /\ Offered(r) \in Method
  BY <1>3, AuthenticatorsType DEF Offered, Authenticator
<1>5. token[r] \in Token
  BY <1>1, <1>2, <1>4 DEF ProviderTypes
<1>6. /\ pc'[r] = "served" /\ identity'[r].method = Offered(r)
      /\ identity'[r].token = token[r]
  BY <1>1, <1>2 DEF RequestTypes
<1>7. RequestInv(r)' /\ ProbeInv(r)'
  <2>1. Authenticator' = Authenticator /\ ExtractToken(headers[r])' = ExtractToken(headers[r])
    BY <1>2 DEF Authenticator, Authenticators, IfOn, ExtractToken, RawAuthorization,
                BearerToken
  <2>2. Admits(Offered(r), token[r])'
    <3>1. Offered(r)' = Offered(r)
      BY <1>2 DEF Offered
    <3> QED
      BY <1>2, <3>1 DEF Admits, SpiffeAllows, OidcParses
  <2>3. Offered(r)' = Offered(r)
    BY <1>2 DEF Offered
  <2>4. Admits(identity[r].method, token[r])'
    BY <1>6, <2>2, <2>3 DEF Admits, SpiffeAllows, OidcParses
  <2>5. Identified(r)'
    BY <1>1, <1>2, <1>3, <1>4, <1>5, <1>6, <2>1, <2>4 DEF Identified, RequestInv
  <2> QED
    BY <1>1, <1>2, <1>6, <2>5 DEF RequestInv, ProbeInv
<1>8. \A q \in Request \ {r} : RequestInv(q)' /\ ProbeInv(q)'
  <2>1. \A q \in Request \ {r} : pc'[q] = pc[q] /\ identity'[q] = identity[q]
    BY <1>1, <1>2 DEF RequestTypes
  <2> QED
    BY <1>2, <2>1, OthersRest DEF provider
<1>9. TypeOK'
  <2>1. [method |-> Offered(r), token |-> token[r]] \in Identity
    BY <1>4, <1>5 DEF Identity
  <2>2. pc' \in [Request -> Place] /\ identity' \in [Request -> Identity]
    BY <1>1, <1>2, <2>1, Places DEF RequestTypes
  <2>3. ProviderTypes' /\ RequestTypes' /\ ProbeTypes'
    BY <1>1, <1>2, <2>2
       DEF ProviderTypes, RequestTypes, ProbeTypes, Headers, Value, Turn, Identity, Answer
  <2> QED
    BY <2>3, TypesNext
<1> QED
  BY <1>7, <1>8, <1>9 DEF AInv

LEMMA FailPreserves ==
  ASSUME AInv, NEW r \in Request, Fail(r)
  PROVE  AInv'
<1>1. ProviderTypes /\ RequestTypes /\ ProbeTypes /\ RequestInv(r)
  BY Types DEF AInv
<1>2. /\ pc[r] = "trying" /\ next[r] <= Len(Authenticator)
      /\ Refuses(Offered(r), token[r])
      /\ next' = [next EXCEPT ![r] = @ + 1]
      /\ UNCHANGED <<config, accepts, out, sidecar, events, pc, path, headers, token,
                     identity, failed, probe, during>>
  BY DEF Fail, Authenticator, provider, request, probes
<1>3. next[r] \in 1 .. Len(Authenticator) /\ next[r] + 1 \in Turn
  <2>1. next[r] \in 1 .. 4
    BY <1>1, Turns DEF RequestTypes
  <2>2. next[r] <= Len(Authenticator)
    BY <1>2
  <2>3. Len(Authenticator) \in 0 .. 3
    BY AuthenticatorsType
  <2>4. \A n \in 1 .. 4, k \in 0 .. 3 : n <= k => n \in 1 .. k /\ n + 1 \in 1 .. 4
    OBVIOUS
  <2> QED
    BY <2>1, <2>2, <2>3, <2>4, Turns
<1>4. next'[r] = next[r] + 1
  BY <1>1, <1>2 DEF RequestTypes
<1>5. RequestInv(r)' /\ ProbeInv(r)'
  <2>1. /\ Authenticator' = Authenticator
        /\ ExtractToken(headers[r])' = ExtractToken(headers[r])
        /\ Spoiled(Own(headers[r]))' = Spoiled(Own(headers[r]))
        /\ Misread(headers[r])' = Misread(headers[r])
    BY <1>2 DEF Authenticator, Authenticators, IfOn, ExtractToken, RawAuthorization,
                BearerToken, Spoiled, Own, Misread
  <2>2. \A n : HasRefused(r, n)' = HasRefused(r, n)
    BY <1>2, <2>1 DEF HasRefused, Admits, SpiffeAllows, OidcParses, Own
  <2>3. ~Misread(headers[r]) => HasRefused(r, next[r])
    <3>1. headers[r] \in Headers
      BY <1>1 DEF RequestTypes
    <3>2. ~Misread(headers[r]) => token[r] = Own(headers[r])
      BY <1>1, <1>2, <3>1, ExtractIsRead DEF RequestInv
    <3> QED
      BY <1>1, <1>2, <3>2 DEF RequestInv, Refuses, Offered, Authenticator, HasRefused
  <2>4. Tried(r, next[r])
    BY <1>1, <1>2 DEF RequestInv
  <2>5. \A i \in 1 .. Len(Authenticator) : i < next[r] + 1 => i < next[r] \/ i = next[r]
    BY <1>3, AuthenticatorsType
  <2>6. Tried(r, next[r])'
    BY <1>2, <1>4, <2>1, <2>2, <2>3, <2>4, <2>5 DEF Tried
  <2> QED
    BY <1>1, <1>2, <2>1, <2>6 DEF RequestInv, ProbeInv
<1>6. \A q \in Request \ {r} : RequestInv(q)' /\ ProbeInv(q)'
  <2>1. \A q \in Request \ {r} : next'[q] = next[q]
    BY <1>1, <1>2 DEF RequestTypes
  <2> QED
    BY <1>2, <2>1, OthersRest DEF provider
<1>7. TypeOK'
  <2>1. next' \in [Request -> Turn]
    BY <1>1, <1>2, <1>3 DEF RequestTypes
  <2>2. ProviderTypes' /\ RequestTypes' /\ ProbeTypes'
    BY <1>1, <1>2, <2>1
       DEF ProviderTypes, RequestTypes, ProbeTypes, Headers, Value, Turn, Identity, Answer
  <2> QED
    BY <2>2, TypesNext
<1> QED
  BY <1>5, <1>6, <1>7 DEF AInv

LEMMA ExhaustedPreserves ==
  ASSUME AInv, NEW r \in Request, Exhausted(r)
  PROVE  AInv'
<1>1. ProviderTypes /\ RequestTypes /\ ProbeTypes /\ RequestInv(r)
  BY Types DEF AInv
<1>2. /\ pc[r] = "trying" /\ next[r] > Len(Authenticator)
      /\ pc' = [pc EXCEPT ![r] = "refused"]
      /\ UNCHANGED <<config, accepts, out, sidecar, events, path, headers, token, next,
                     identity, failed, probe, during>>
  BY DEF Exhausted, Authenticator, Refuse, provider, request, probes
<1>3. pc'[r] = "refused"
  BY <1>1, <1>2 DEF RequestTypes
<1>4. RequestInv(r)' /\ ProbeInv(r)'
  <2>1. Authenticator' = Authenticator
    BY <1>2 DEF Authenticator, Authenticators, IfOn
  <2>2. /\ \A n : HasRefused(r, n)' = HasRefused(r, n)
        /\ Misread(headers[r])' = Misread(headers[r])
    BY <1>2, <2>1 DEF HasRefused, Admits, SpiffeAllows, OidcParses, Own, Misread
  <2>3. \A i \in 1 .. Len(Authenticator) : i < next[r]
    BY <1>1, <1>2, AuthenticatorsType DEF RequestTypes, Turn, Methods
  <2>4. Tried(r, Len(Authenticator) + 1)'
    BY <1>1, <1>2, <2>1, <2>2, <2>3 DEF Tried, RequestInv
  <2> QED
    BY <1>3, <2>4 DEF RequestInv, ProbeInv
<1>5. \A q \in Request \ {r} : RequestInv(q)' /\ ProbeInv(q)'
  <2>1. \A q \in Request \ {r} : pc'[q] = pc[q]
    BY <1>1, <1>2 DEF RequestTypes
  <2> QED
    BY <1>2, <2>1, OthersRest DEF provider
<1>6. TypeOK'
  <2>1. pc' \in [Request -> Place]
    BY <1>1, <1>2, Places DEF RequestTypes
  <2>2. ProviderTypes' /\ RequestTypes' /\ ProbeTypes'
    BY <1>1, <1>2, <2>1
       DEF ProviderTypes, RequestTypes, ProbeTypes, Headers, Value, Turn, Identity, Answer
  <2> QED
    BY <2>2, TypesNext
<1> QED
  BY <1>4, <1>5, <1>6 DEF AInv

LEMMA ProbedPreserves ==
  ASSUME AInv, NEW r \in Request, Probed(r)
  PROVE  AInv'
<1> DEFINE reply == ReadinessHandler(NewHandler, CheckDapr(sidecar))
<1>1. ProviderTypes /\ RequestTypes /\ ProbeTypes /\ RequestInv(r) /\ ProbeInv(r)
  BY Types DEF AInv
<1>2. /\ pc[r] = "probing"
      /\ probe' = [probe EXCEPT ![r] = reply]
      /\ pc' = [pc EXCEPT ![r] = "served"]
      /\ UNCHANGED <<config, accepts, out, sidecar, events, path, headers, token, next,
                     identity, failed, during>>
  BY DEF Probed, Serve, provider, request
<1>3. /\ reply \in Answer /\ reply.code = 200
      /\ reply.status = (IF sidecar THEN "healthy" ELSE "degraded")
  BY <1>1 DEF ReadinessHandler, NewHandler, CheckDapr, Reply, Answer, ProviderTypes
<1> HIDE DEF reply
<1>4. pc'[r] = "served" /\ probe'[r] = reply
  BY <1>1, <1>2 DEF RequestTypes, ProbeTypes
<1>5. RequestInv(r)' /\ ProbeInv(r)'
  <2>1. path[r] = <<"/readyz">> /\ sidecar \in during[r] /\ path[r] \in HealthPaths
    BY <1>1, <1>2 DEF ProbeInv, HealthPaths
  <2>2. RequestInv(r)'
    BY <1>2, <1>4, <2>1 DEF RequestInv
  <2>3. probe'[r].code = 200
    BY <1>3, <1>4
  <2>4. \E up \in during[r] : reply.status = (IF up THEN "healthy" ELSE "degraded")
    BY <1>3, <2>1
  <2>5. ProbeInv(r)'
    BY <1>2, <1>4, <2>1, <2>3, <2>4 DEF ProbeInv
  <2> QED
    BY <2>2, <2>5
<1>6. \A q \in Request \ {r} : RequestInv(q)' /\ ProbeInv(q)'
  <2>1. \A q \in Request \ {r} : pc'[q] = pc[q] /\ probe'[q] = probe[q]
    BY <1>1, <1>2 DEF RequestTypes, ProbeTypes
  <2> QED
    BY <1>2, <2>1, OthersRest DEF provider
<1>7. TypeOK'
  <2>1. pc' \in [Request -> Place] /\ probe' \in [Request -> Answer]
    BY <1>1, <1>2, <1>3, Places DEF RequestTypes, ProbeTypes
  <2>2. ProviderTypes' /\ RequestTypes' /\ ProbeTypes'
    BY <1>1, <1>2, <2>1
       DEF ProviderTypes, RequestTypes, ProbeTypes, Headers, Value, Turn, Identity, Answer
  <2> QED
    BY <2>2, TypesNext
<1> QED
  BY <1>5, <1>6, <1>7 DEF AInv

-----------------------------------------------------------------------------
(* The identity providers and the sidecar.                                 *)

\* A step that only the providers take: a token that is being tried is kept from
\* those that would not verify it any more.
LEMMA ProvidersPreserve ==
  ASSUME AInv, UNCHANGED <<config, sidecar, pc, request, next, identity, probes>>,
         accepts' \in [Method -> SUBSET Token], out' \subseteq Method,
         events' \in 0 .. MaxEvents,
         failed' \in [Request -> SUBSET Method],
         \A r \in Request :
           /\ failed[r] \subseteq failed'[r]
           /\ pc[r] = "trying" => Spoiled(Own(headers[r]))' \subseteq failed'[r]
  PROVE  AInv'
<1>1. ProviderTypes /\ RequestTypes /\ ProbeTypes
  BY Types DEF AInv
<1>2. ASSUME NEW r \in Request PROVE RequestInv(r)' /\ ProbeInv(r)'
  <2>1. RequestInv(r) /\ ProbeInv(r)
    BY DEF AInv
  <2> QED
    BY <2>1, RequestRests, ProbeRests DEF request, probes
<1>3. ProviderTypes'
  BY <1>1 DEF ProviderTypes
<1>4. RequestTypes' /\ ProbeTypes'
  BY <1>1 DEF RequestTypes, ProbeTypes, request, probes, Headers, Value, Turn, Identity,
              Answer
<1> QED
  BY <1>2, <1>3, <1>4, TypesNext DEF AInv

LEMMA SpoilGrows ==
  ASSUME AInv, Spoil
  PROVE  /\ failed' \in [Request -> SUBSET Method]
         /\ \A r \in Request :
              /\ failed[r] \subseteq failed'[r]
              /\ pc[r] = "trying" => Spoiled(Own(headers[r]))' \subseteq failed'[r]
<1>1. RequestTypes
  BY Types DEF AInv
<1>2. \A r \in Request : Spoiled(Own(headers[r]))' \in SUBSET Method
  BY DEF Spoiled
<1>3. failed' \in [Request -> SUBSET Method]
  <2>1. ASSUME NEW r \in Request
        PROVE  (IF pc[r] = "trying" THEN failed[r] \cup Spoiled(Own(headers[r]))'
                  ELSE failed[r])
                 \in SUBSET Method
    BY <1>1, <1>2 DEF RequestTypes
  <2> QED
    BY <2>1 DEF Spoil
<1> QED
  BY <1>3 DEF Spoil

LEMMA ExpirePreserves ==
  ASSUME AInv, NEW m \in Method, NEW t \in Token, Expire(m, t)
  PROVE  AInv'
<1>1. ProviderTypes
  BY Types DEF AInv
<1>2. accepts' \in [Method -> SUBSET Token] /\ out' \subseteq Method /\ events' \in 0 .. MaxEvents
  BY <1>1, MiddlewareAssumption DEF Expire, ProviderTypes
<1>3. UNCHANGED <<config, sidecar, pc, request, next, identity, probes>> /\ Spoil
  BY DEF Expire
<1> QED
  BY <1>2, <1>3, SpoilGrows, ProvidersPreserve

LEMMA OutagePreserves ==
  ASSUME AInv, NEW m \in Method, Outage(m)
  PROVE  AInv'
<1>1. ProviderTypes
  BY Types DEF AInv
<1>2. accepts' \in [Method -> SUBSET Token] /\ out' \subseteq Method /\ events' \in 0 .. MaxEvents
  BY <1>1, MiddlewareAssumption DEF Outage, ProviderTypes
<1>3. UNCHANGED <<config, sidecar, pc, request, next, identity, probes>> /\ Spoil
  BY DEF Outage
<1> QED
  BY <1>2, <1>3, SpoilGrows, ProvidersPreserve

LEMMA RecoverPreserves ==
  ASSUME AInv, NEW m \in Method, Recover(m)
  PROVE  AInv'
<1>1. ProviderTypes /\ RequestTypes /\ \A r \in Request : RequestInv(r)
  BY Types DEF AInv
<1>2. /\ out' = out \ {m} /\ UNCHANGED <<accepts, events, failed>>
      /\ UNCHANGED <<config, sidecar, pc, request, next, identity, probes>>
  BY DEF Recover
<1>3. \A r \in Request : pc[r] = "trying" => Spoiled(Own(headers[r]))' \subseteq failed'[r]
  <2>1. \A r \in Request : Spoiled(Own(headers[r]))' \subseteq Spoiled(Own(headers[r]))
    BY <1>2 DEF Spoiled, Own, request
  <2> QED
    BY <1>1, <1>2, <2>1 DEF RequestInv
<1>4. accepts' \in [Method -> SUBSET Token] /\ out' \subseteq Method /\ events' \in 0 .. MaxEvents
  BY <1>1, <1>2 DEF ProviderTypes
<1>5. failed' \in [Request -> SUBSET Method] /\ \A r \in Request : failed[r] \subseteq failed'[r]
  BY <1>1, <1>2 DEF RequestTypes
<1> QED
  BY <1>2, <1>3, <1>4, <1>5, ProvidersPreserve

LEMMA SidecarPreserves ==
  ASSUME AInv, SidecarDown \/ SidecarUp
  PROVE  AInv'
<1>1. ProviderTypes /\ RequestTypes /\ ProbeTypes
  BY Types DEF AInv
<1>2. /\ UNCHANGED <<config, accepts, out, pc, path, headers, token, next, identity,
                     failed, probe>>
      /\ sidecar' \in BOOLEAN /\ events' \in 0 .. MaxEvents
      /\ Witness(sidecar')
  <2>1. CASE SidecarDown
    <3>1. events' \in 0 .. MaxEvents
      BY <1>1, <2>1, MiddlewareAssumption DEF SidecarDown, ProviderTypes
    <3> QED
      BY <2>1, <3>1 DEF SidecarDown, request
  <2>2. CASE SidecarUp
    BY <1>1, <2>2 DEF SidecarUp, ProviderTypes, request
  <2> QED
    BY <2>1, <2>2
<1>5. /\ during' \in [Request -> SUBSET BOOLEAN]
      /\ \A r \in Request :
           /\ pc[r] = "probing" => sidecar' \in during'[r]
           /\ pc[r] # "probing" => during'[r] = during[r]
  <2>1. \A r \in Request :
          (IF pc[r] = "probing" THEN during[r] \cup {sidecar'} ELSE during[r])
            \in SUBSET BOOLEAN
    BY <1>1, <1>2 DEF ProbeTypes
  <2> QED
    BY <1>2, <2>1 DEF Witness
<1>3. ASSUME NEW r \in Request PROVE RequestInv(r)' /\ ProbeInv(r)'
  <2>1. RequestInv(r) /\ ProbeInv(r)
    BY DEF AInv
  <2>2. pc[r] = "trying" => Spoiled(Own(headers[r]))' \subseteq failed'[r]
    BY <1>2, <2>1 DEF RequestInv, Spoiled, Own
  <2>3. RequestInv(r)'
    BY <1>2, <2>1, <2>2, RequestRests
  <2>4. ProbeInv(r)'
    BY <1>2, <1>5, <2>1 DEF ProbeInv
  <2> QED
    BY <2>3, <2>4
<1>4. ProviderTypes' /\ RequestTypes' /\ ProbeTypes'
  BY <1>1, <1>2, <1>5
     DEF ProviderTypes, RequestTypes, ProbeTypes, Headers, Value, Turn, Identity, Answer
<1> QED
  BY <1>3, <1>4, TypesNext DEF AInv

LEMMA StutterPreserves ==
  ASSUME AInv, UNCHANGED vars
  PROVE  AInv'
<1>1. ProviderTypes /\ RequestTypes /\ ProbeTypes
  BY Types DEF AInv
<1>2. /\ UNCHANGED <<config, sidecar, pc, request, next, identity, probes>>
      /\ UNCHANGED <<accepts, out, events, failed, token>>
  BY DEF vars, provider, request
<1>3. \A r \in Request : pc[r] = "trying" => Spoiled(Own(headers[r]))' \subseteq failed'[r]
  BY <1>2 DEF AInv, RequestInv, Spoiled, Own, request
<1> QED
  BY <1>1, <1>2, <1>3, ProvidersPreserve DEF ProviderTypes, RequestTypes

LEMMA NextInv == AInv /\ [Next]_vars => AInv'
<1> SUFFICES ASSUME AInv, [Next]_vars PROVE AInv'
  OBVIOUS
<1>1. CASE \E r \in Request, p \in Paths, h \in Headers : Receive(r, p, h)
  BY <1>1, ReceivePreserves
<1>2. CASE \E r \in Request, p \in Paths : ReceiveProbe(r, p)
  BY <1>2, ReceiveProbePreserves
<1>3. CASE \E r \in Request : Authenticate(r) \/ Probed(r)
  BY <1>3, AcceptPreserves, FailPreserves, ExhaustedPreserves, ProbedPreserves
     DEF Authenticate
<1>4. CASE Providers
  BY <1>4, SidecarPreserves, OutagePreserves, RecoverPreserves, ExpirePreserves
     DEF Providers
<1>5. CASE Quiesce \/ UNCHANGED vars
  BY <1>5, StutterPreserves DEF Quiesce
<1> QED
  BY <1>1, <1>2, <1>3, <1>4, <1>5 DEF Next

-----------------------------------------------------------------------------
(* The theorems.                                                           *)

\* AInv is an inductive invariant of the middleware.
THEOREM Invariance == Spec => []AInv
BY InitInv, NextInv, PTL DEF Spec

\* The type invariant of the middleware.
THEOREM TypeCorrect == Spec => []TypeOK
<1>1. AInv => TypeOK
  BY DEF AInv
<1> QED
  BY <1>1, Invariance, PTL

\* What is served outside the paths that the operator opened carries an identity
\* that a method the operator turned on gave for the token of its own header.
THEOREM OnlyAuthenticatedServed == Spec => []OnlyAuthenticatedAreServed
<1>1. AInv => OnlyAuthenticatedAreServed
  <2> SUFFICES ASSUME AInv, NEW r \in Request, pc[r] = "served",
                      path[r] \notin Unprotected, ~Opened(path[r]), AuthOn(config)
               PROVE  /\ TurnedOn(identity[r].method)
                      /\ identity[r].token = Own(headers[r]) /\ Own(headers[r]) # NoToken
                      /\ identity[r].method = "spiffe" => SpiffeAllows(Own(headers[r]))
    BY DEF OnlyAuthenticatedAreServed
  <2>1. RequestTypes /\ RequestInv(r)
    BY Types DEF AInv
  <2>2. ~PassesThrough(path[r]) /\ path[r] \notin HealthPaths
    BY DEF PassesThrough, Unprotected, ShouldSkip, Opened
  <2>3. Identified(r)
    BY <2>1, <2>2 DEF RequestInv
  <2>4. headers[r] \in Headers
    BY <2>1 DEF RequestTypes
  <2>5. token[r] = Own(headers[r]) /\ token[r] # NoToken
    BY <2>3, <2>4, ExtractIsOwn, MiddlewareAssumption DEF Identified
  <2>6. identity[r].method \in Method /\ TurnedOn(identity[r].method)
    <3>1. PICK i \in 1 .. Len(Authenticator) : identity[r].method = Authenticator[i]
      BY <2>3 DEF Identified
    <3>2. identity[r].method \in Method
      BY <3>1, AuthenticatorsType
    <3> QED
      BY <3>1, <3>2, AuthenticatorsAreOn
  <2> QED
    BY <2>3, <2>5, <2>6 DEF Identified, Admits
<1> QED
  BY <1>1, Invariance, PTL

\* No client is turned away while a method that is turned on would have the token
\* that it presents, but for a Bearer header where the custom header is called
\* "authorization", which the middleware misreads.
THEOREM RefusedByAllMethods == Spec => []RefusedByAll
<1>1. AInv => RefusedByAll
  <2> SUFFICES ASSUME AInv, NEW r \in Request, pc[r] = "refused",
                      Own(headers[r]) # NoToken, ~Misread(headers[r]),
                      NEW m \in Method, TurnedOn(m)
               PROVE  m \in failed[r] \/ ~Admits(m, Own(headers[r]))
    BY DEF RefusedByAll
  <2>1. RequestTypes /\ RequestInv(r)
    BY Types DEF AInv
  <2>2. ExtractToken(headers[r]) = Own(headers[r])
    BY <2>1, ExtractIsRead DEF RequestTypes
  <2>3. Tried(r, Len(Authenticator) + 1)
    BY <2>1, <2>2 DEF RequestInv
  <2>4. PICK i \in 1 .. Len(Authenticator) : m = Authenticator[i]
    BY AuthenticatorsAreOn
  <2>5. i < Len(Authenticator) + 1
    BY AuthenticatorsType
  <2>6. HasRefused(r, i)
    BY <2>3, <2>5 DEF Tried
  <2> QED
    BY <2>4, <2>6 DEF HasRefused
<1> QED
  BY <1>1, Invariance, PTL

\* A sidecar that was out while a readiness probe asked shows in its answer, and
\* none that was not; no other probe tells of it, and it makes none fail.
THEOREM OutageDegrades == Spec => []OutageOnlyDegrades
<1>1. AInv => OutageOnlyDegrades
  BY DEF AInv, ProbeInv, OutageOnlyDegrades
<1> QED
  BY <1>1, Invariance, PTL

=============================================================================
