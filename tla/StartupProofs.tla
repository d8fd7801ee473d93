---------------------------- MODULE StartupProofs ----------------------------
(***************************************************************************)
(* Proofs about the start of the server, for any apps, mappings,           *)
(* environments, number of retries and whatever sidecars and identity      *)
(* providers do.                                                           *)
(*                                                                         *)
(* Main is one thread, and the world never touches its variables.  What    *)
(* has to be carried from the mapping to the tools is that the pool agrees *)
(* with it (PoolInv), from the environment to the listener that the        *)
(* authenticators are a prefix of the list it asks for (AuthInv), and from *)
(* one attempt to the next that the attempts that count are those of the   *)
(* one sidecar (RetryInv).                                                 *)
(***************************************************************************)
EXTENDS Startup, FiniteSetTheorems, TLAPS

-----------------------------------------------------------------------------
(* Sorted app-ids.                                                         *)

\* Different numbers have different places.
LEMMA PlaceInjective ==
  ASSUME NEW S \in SUBSET Nat, IsFiniteSet(S), NEW a \in S, NEW b \in S, a < b
  PROVE  Cardinality({c \in S : c <= a}) # Cardinality({c \in S : c <= b})
<1> DEFINE A == {c \in S : c <= a}
           B == {c \in S : c <= b}
<1>1. A \in SUBSET B /\ b \in B /\ b \notin A
  <2>1. a \in Nat /\ b \in Nat /\ \A c \in S : c \in Nat
    OBVIOUS
  <2>2. \A c \in S : c <= a => c <= b
    BY <2>1
  <2>3. ~(b <= a) /\ b <= b
    BY <2>1
  <2>4. A \in SUBSET B
    BY <2>2
  <2>5. b \in B /\ b \notin A
    BY <2>3
  <2> QED
    BY <2>4, <2>5
<1>2. IsFiniteSet(B)
  BY FS_Subset
<1> HIDE DEF A, B
<1>3. Cardinality(A) = Cardinality(B) => A = B
  BY <1>1, <1>2, FS_Subset
<1> QED
  BY <1>1, <1>3 DEF A, B

\* Every number of a finite set is in its sorted list.
LEMMA SortedHas ==
  ASSUME NEW S \in SUBSET Nat, IsFiniteSet(S), NEW a \in S
  PROVE  \E n \in DOMAIN Sorted(S) : Sorted(S)[n] = a
<1> DEFINE place(b) == Cardinality({c \in S : c <= b})
<1>1. place(a) \in 1 .. Cardinality(S)
  <2> DEFINE A == {c \in S : c <= a}
  <2>1. A \in SUBSET S /\ a \in A
    OBVIOUS
  <2> HIDE DEF A
  <2>2. IsFiniteSet(A) /\ Cardinality(A) <= Cardinality(S)
    BY <2>1, FS_Subset
  <2>3. Cardinality(A) # 0
    BY <2>1, <2>2, FS_EmptySet
  <2>4. Cardinality(A) \in Nat /\ Cardinality(S) \in Nat
    BY <2>2, FS_CardinalityType
  <2> QED
    BY <2>2, <2>3, <2>4 DEF A
<1>2. \A b \in S : place(b) = place(a) => b = a
  <2> SUFFICES ASSUME NEW b \in S, b # a PROVE place(b) # place(a)
    OBVIOUS
  <2>1. CASE a < b
    BY <2>1, PlaceInjective
  <2>2. CASE b < a
    BY <2>2, PlaceInjective
  <2> QED
    BY <2>1, <2>2
<1>3. Sorted(S) = [n \in 1 .. Cardinality(S) |-> CHOOSE b \in S : place(b) = n]
  BY DEF Sorted
<1> HIDE DEF place
<1>4. Sorted(S)[place(a)] = a
  BY <1>1, <1>2, <1>3
<1> QED
  BY <1>1, <1>3, <1>4

-----------------------------------------------------------------------------
(* The mapping and the registry.                                           *)

\* What ParseAppsConfig accepts is well formed, and it loses no entry.
LEMMA ParsedEntries ==
  ASSUME NEW m \in Mappings, ParseAppsConfig(m).ok = TRUE, NEW i \in DOMAIN m
  PROVE  /\ m[i].form # "malformed"
         /\ m[i].form = "pair" =>
              /\ m[i].app \in DOMAIN ParseAppsConfig(m).apps
              /\ ParseAppsConfig(m).apps[m[i].app] = m[i].addr
<1> DEFINE pairs == {j \in DOMAIN m : m[j].form = "pair"}
           bad   == \/ \E j \in DOMAIN m : m[j].form = "malformed"
                    \/ \E j, k \in pairs : j # k /\ m[j].app = m[k].app
           apps  == [a \in {m[j].app : j \in pairs} |->
                       m[CHOOSE j \in pairs : m[j].app = a].addr]
<1>1. ParseAppsConfig(m) = IF bad THEN [ok |-> FALSE] ELSE [ok |-> TRUE, apps |-> apps]
  BY DEF ParseAppsConfig
<1>2. ~bad /\ ParseAppsConfig(m).apps = apps
  <2> HIDE DEF bad, apps
  <2> QED
    BY <1>1
<1>3. ASSUME i \in pairs
      PROVE  m[i].app \in DOMAIN apps /\ apps[m[i].app] = m[i].addr
  <2>1. (CHOOSE j \in pairs : m[j].app = m[i].app) = i
    BY <1>2, <1>3
  <2> QED
    BY <1>3, <2>1
<1> QED
  BY <1>2, <1>3

\* A mapping with an entry for the server's own app gives it the server's own
\* sidecar: registry.go:60 takes the two for the same app.
OwnAtItsOwn(m) ==
  \A i \in DOMAIN m : m[i].form = "pair" /\ m[i].app = Own => m[i].addr = Own

\* What it returns are apps and sidecars, the server's own app at its own if the
\* mapping says so.
LEMMA ParsedTypes ==
  ASSUME NEW m \in Mappings, ParseAppsConfig(m).ok = TRUE,
         NEW a \in DOMAIN ParseAppsConfig(m).apps
  PROVE  /\ a \in App /\ ParseAppsConfig(m).apps[a] \in App
         /\ a = Own /\ OwnAtItsOwn(m) => ParseAppsConfig(m).apps[a] = Own
<1> DEFINE pairs == {j \in DOMAIN m : m[j].form = "pair"}
           bad   == \/ \E j \in DOMAIN m : m[j].form = "malformed"
                    \/ \E j, k \in pairs : j # k /\ m[j].app = m[k].app
           apps  == [b \in {m[j].app : j \in pairs} |->
                       m[CHOOSE j \in pairs : m[j].app = b].addr]
<1>1. ParseAppsConfig(m) = IF bad THEN [ok |-> FALSE] ELSE [ok |-> TRUE, apps |-> apps]
  BY DEF ParseAppsConfig
<1>2. ParseAppsConfig(m).apps = apps
  <2> HIDE DEF bad, apps
  <2> QED
    BY <1>1
<1>3. PICK i \in pairs : m[i].app = a
  BY <1>2
<1>4. apps[a] = m[i].addr
  BY <1>2, <1>3, ParsedEntries
<1>5. /\ m[i].app \in App /\ m[i].addr \in App
      /\ m[i].app = Own /\ OwnAtItsOwn(m) => m[i].addr = Own
  BY <1>3, MappingAssumption DEF OwnAtItsOwn
<1>6. ParseAppsConfig(m).apps[a] = m[i].addr
  BY <1>2, <1>4
<1> QED
  BY <1>3, <1>5, <1>6

\* The registry of the tools.
LEMMA RegIs ==
  ASSUME label \in {Own, Fallback}
  PROVE  /\ Reg.defaultClient = Own /\ Reg.defaultAppID = label /\ Reg.byAppID = pool
         /\ AppIDs(Reg) = {label} \cup DOMAIN pool
<1>1. label # NoApp
  BY AppIDAssumption
<1> QED
  BY <1>1 DEF Reg, NewRegistry, AppIDs

\* A configured app is among the targets of list_workflows, with its client.
LEMMA TargetsHavePool ==
  ASSUME TypeOK, IsFiniteSet(DOMAIN pool), NEW a \in DOMAIN pool
  PROVE  \E t \in Range(Targets(Reg)) : t.appID = a /\ t.client = pool[a]
<1> DEFINE ids  == Sorted(DOMAIN pool)
           list == PoolTargets(Reg)
           head == ClientFor(Reg, Reg.defaultAppID)
<1>1. DOMAIN pool \in SUBSET Nat
  BY StartupAssumption DEF TypeOK
<1>2. Reg.byAppID = pool
  BY RegIs DEF TypeOK
<1>3. PICK n \in DOMAIN ids : ids[n] = a
  BY <1>1, SortedHas
<1>4. DOMAIN ids = 1 .. Cardinality(DOMAIN pool) /\ Cardinality(DOMAIN pool) \in Nat
  BY FS_CardinalityType DEF Sorted
<1>5. list = [k \in DOMAIN ids |-> ClientFor(Reg, ids[k])]
  BY <1>2 DEF PoolTargets
<1>6. ClientFor(Reg, a) = [appID |-> a, client |-> pool[a]]
  BY <1>2 DEF ClientFor
<1>7. n \in DOMAIN list /\ list[n] = [appID |-> a, client |-> pool[a]]
  <2> HIDE DEF ids, list
  <2> QED
    BY <1>3, <1>5, <1>6
<1>8. DOMAIN list = 1 .. Len(list) /\ list \in Seq({list[k] : k \in DOMAIN list})
  <2> HIDE DEF ids, list
  <2>1. DOMAIN list = 1 .. Cardinality(DOMAIN pool) /\ Cardinality(DOMAIN pool) \in Nat
    BY <1>4, <1>5
  <2>2. list = [k \in 1 .. Cardinality(DOMAIN pool) |-> list[k]]
    BY <1>5, <2>1
  <2>3. Len(list) = Cardinality(DOMAIN pool)
    BY <2>1, <2>2
  <2> QED
    BY <2>1, <2>2, <2>3
<1> HIDE DEF list, head, ids
<1>9. \E k \in DOMAIN Targets(Reg) : Targets(Reg)[k] = list[n]
  <2>1. CASE Targets(Reg) = list
    BY <1>7, <2>1
  <2>2. CASE Targets(Reg) = <<head>> \o list
    <3> DEFINE T == {list[k] : k \in DOMAIN list} \cup {head}
    <3>1. <<head>> \in Seq(T) /\ list \in Seq(T) /\ Len(<<head>>) = 1
      BY <1>8
    <3>2. n \in 1 .. Len(list)
      BY <1>7, <1>8
    <3> HIDE DEF T
    <3>3. n + 1 \in DOMAIN (<<head>> \o list) /\ (<<head>> \o list)[n + 1] = list[n]
      BY <3>1, <3>2
    <3> QED
      BY <2>2, <3>3
  <2> QED
    BY <2>1, <2>2 DEF Targets, list, head
<1> QED
  BY <1>7, <1>9 DEF Range

-----------------------------------------------------------------------------
(* The authentication settings.                                            *)

LEMMA Methods3 == Method = {"oidc", "spiffe", "dapr-sentry"}
<1>1. DOMAIN Methods = {1, 2, 3}
  BY DEF Methods
<1>2. Methods[1] = "oidc" /\ Methods[2] = "spiffe" /\ Methods[3] = "dapr-sentry"
  BY DEF Methods
<1> QED
  BY <1>1, <1>2 DEF Method, Range

\* Sequences of one length that agree everywhere are the same.
LEMMA SameSequence ==
  ASSUME NEW T, NEW s \in Seq(T), NEW t \in Seq(T), Len(s) = Len(t),
         \A n \in DOMAIN s : s[n] = t[n]
  PROVE  s = t
OBVIOUS

\* A sequence with elements is not the empty one.
LEMMA NotEmpty ==
  ASSUME NEW T, NEW s \in Seq(T), Range(s) # {}
  PROVE  s # <<>>
<1>1. PICK n \in DOMAIN s : TRUE
  BY DEF Range
<1>2. n \in 1 .. Len(s) /\ Len(s) \in Nat
  BY <1>1
<1>3. Len(s) # 0
  BY <1>2
<1> QED
  BY <1>3

\* The authenticators of valid settings are those of the methods that are on.
LEMMA AuthenticatorsAre ==
  ASSUME NEW c
  PROVE  /\ Authenticators(c) \in Seq(Method)
         /\ \A m \in Method :
              (\E n \in DOMAIN Authenticators(c) : Authenticators(c)[n] = m)
                <=> m = c.mode \/ (c.mode = "hybrid" /\ m \in c.methods)
<1> DEFINE on(m) == m = c.mode \/ (c.mode = "hybrid" /\ m \in c.methods)
           has(s, m) == \E n \in DOMAIN s : s[n] = m
           a == IfOn(c, "oidc")
           b == IfOn(c, "spiffe")
           d == IfOn(c, "dapr-sentry")
<1>1. ASSUME NEW s \in Seq(Method), NEW t \in Seq(Method), NEW m
      PROVE  s \o t \in Seq(Method) /\ (has(s \o t, m) <=> has(s, m) \/ has(t, m))
  <2>1. ASSUME has(s, m) PROVE has(s \o t, m)
    BY <2>1
  <2>2. ASSUME has(t, m) PROVE has(s \o t, m)
    <3>1. PICK n \in DOMAIN t : t[n] = m
      BY <2>2
    <3>2. Len(s) + n \in DOMAIN (s \o t) /\ (s \o t)[Len(s) + n] = m
      BY <3>1
    <3> QED
      BY <3>2
  <2>3. ASSUME has(s \o t, m) PROVE has(s, m) \/ has(t, m)
    <3>1. PICK n \in DOMAIN (s \o t) : (s \o t)[n] = m
      BY <2>3
    <3>2. CASE n <= Len(s)
      BY <3>1, <3>2
    <3>3. CASE n > Len(s)
      <4>1. n - Len(s) \in DOMAIN t /\ t[n - Len(s)] = m
        BY <3>1, <3>3
      <4> QED
        BY <4>1
    <3> QED
      BY <3>2, <3>3
  <2> QED
    BY <2>1, <2>2, <2>3
<1>2. ASSUME NEW k \in Method, NEW m
      PROVE  IfOn(c, k) \in Seq(Method) /\ (has(IfOn(c, k), m) <=> m = k /\ on(k))
  <2>1. CASE on(k)
    <3>1. IfOn(c, k) = <<k>>
      BY <2>1 DEF IfOn
    <3> QED
      BY <2>1, <3>1
  <2>2. CASE ~on(k)
    <3>1. IfOn(c, k) = <<>>
      BY <2>2 DEF IfOn
    <3> QED
      BY <2>2, <3>1
  <2> QED
    BY <2>1, <2>2
<1>3. Authenticators(c) = (a \o b) \o d
  BY DEF Authenticators
<1>4. a \in Seq(Method) /\ b \in Seq(Method) /\ d \in Seq(Method)
  BY <1>2, Methods3
<1>5. Authenticators(c) \in Seq(Method)
  BY <1>3, <1>4
<1>6. ASSUME NEW m \in Method PROVE has(Authenticators(c), m) <=> on(m)
  <2>1. has(a, m) <=> m = "oidc" /\ on("oidc")
    BY <1>2, Methods3
  <2>2. has(b, m) <=> m = "spiffe" /\ on("spiffe")
    BY <1>2, Methods3
  <2>3. has(d, m) <=> m = "dapr-sentry" /\ on("dapr-sentry")
    BY <1>2, Methods3
  <2> HIDE DEF has, on, a, b, d
  <2>4. has(a \o b, m) <=> has(a, m) \/ has(b, m)
    BY <1>1, <1>4
  <2>5. a \o b \in Seq(Method)
    BY <1>1, <1>4
  <2>6. has((a \o b) \o d, m) <=> has(a \o b, m) \/ has(d, m)
    <3> DEFINE ab == a \o b
    <3>1. ab \in Seq(Method)
      BY <2>5
    <3> HIDE DEF ab
    <3>2. has(ab \o d, m) <=> has(ab, m) \/ has(d, m)
      BY <1>1, <1>4, <3>1
    <3> QED
      BY <3>2 DEF ab
  <2> QED
    BY <1>3, <2>1, <2>2, <2>3, <2>4, <2>6, Methods3
<1> QED
  BY <1>5, <1>6

-----------------------------------------------------------------------------
(* The steps.                                                              *)

LEMMA InitInv == Init => IInv
<1> SUFFICES ASSUME Init PROVE IInv
  OBVIOUS
<1> USE StartupAssumption
<1>1. DOMAIN pool = {} /\ Range(pool) = {}
  BY DEF Init, Range
<1>2. authenticators \in Seq(Method) /\ Range(authenticators) \subseteq Method
  BY DEF Init, Range
<1>3. TypeOK
  BY <1>1, <1>2 DEF Init, TypeOK
<1>4. PoolInv
  BY <1>1, FS_EmptySet DEF Init, PoolInv, Parsed, Covered
<1>5. RetryInv
  BY DEF Init, RetryInv, Connecting, Address
<1>6. LabelInv
  BY DEF Init, LabelInv, Covered
<1>7. AuthInv
  BY DEF Init, AuthInv
<1> QED
  BY <1>2, <1>3, <1>4, <1>5, <1>6, <1>7 DEF IInv

\* The sidecar that main is connecting to is one of the apps'.
LEMMA AddressType ==
  ASSUME IInv, Connecting
  PROVE  Address \in App
BY StartupAssumption, ParsedTypes
   DEF IInv, TypeOK, PoolInv, Connecting, Address, Parsed, Apps

\* The pool after a connection.
LEMMA PoolGrows ==
  ASSUME NEW client
  PROVE  /\ DOMAIN WithClient(client) = DOMAIN pool \cup {target}
         /\ WithClient(client)[target] = client
         /\ \A a \in DOMAIN pool \ {target} : WithClient(client)[a] = pool[a]
BY DEF WithClient

\* Types are preserved, action by action.
LEMMA TypeStep ==
  ASSUME IInv, [Next]_vars
  PROVE  TypeOK' /\ authenticators' \in Seq(Method)
<1> USE DEF IInv, TypeOK, Goto, started, world, built, Range
<1>1. CASE Flap
  <2>1. flaps' \in 0 .. MaxFlaps
    BY <1>1, StartupAssumption DEF Flap
  <2>2. up' \subseteq App
    BY <1>1 DEF Flap, Toggle
  <2>3. providers' \subseteq Method
    <3>1. \A m \in Method : Toggle(providers, m) \subseteq Method
      BY DEF Toggle
    <3> QED
      BY <1>1, <3>1 DEF Flap
  <2> QED
    BY <1>1, <2>1, <2>2, <2>3 DEF Flap
<1>2. CASE Connected
  <2>1. Address \in App
    BY <1>2, AddressType DEF Connected
  <2>2. DOMAIN pool' \subseteq App /\ Range(pool') \subseteq App
    BY <1>2, <2>1, PoolGrows DEF Connected
  <2> QED
    BY <1>2, <2>2, StartupAssumption DEF Connected
<1>3. CASE AttemptFails
  <2>1. Address \in App
    BY <1>3, AddressType DEF AttemptFails
  <2>2. attempt < MaxRetries
    BY <1>3 DEF AttemptFails, RetryInv, Connecting
  <2>3. attempt' \in 0 .. MaxRetries
    BY <1>3, <2>2, StartupAssumption DEF AttemptFails
  <2>4. refused' \in [App -> Nat]
    BY <1>3, <2>1 DEF AttemptFails
  <2>5. phase' \in {phase, "exited"}
    BY <1>3 DEF AttemptFails
  <2> QED
    BY <1>3, <2>3, <2>4, <2>5 DEF AttemptFails
<1>4. CASE ParseMapping
  BY <1>4 DEF ParseMapping
<1>5. CASE NextApp
  <2>1. Apps.ok = TRUE /\ target' \in DOMAIN Apps.apps
    BY <1>5 DEF NextApp, PoolInv, Parsed
  <2>2. target' \in App
    BY <2>1, ParsedTypes DEF Apps
  <2> QED
    BY <1>5, <2>2 DEF NextApp
<1>6. CASE AllConnected
  BY <1>6 DEF AllConnected
<1>7. CASE Label
  BY <1>7 DEF Label, Announced
<1>8. CASE Discover \/ DiscoverFails
  BY <1>8 DEF Discover, DiscoverFails, LiveComponents
<1>9. CASE ReadAuth
  BY <1>9 DEF ReadAuth
<1>10. CASE Build
  <2>1. Pending \in Method
    BY <1>10 DEF Build
  <2>2. authenticators' \in Seq(Method)
    BY <1>10, <2>1 DEF Build
  <2> QED
    BY <1>10, <2>2 DEF Build
<1>11. CASE BuildFails \/ Built \/ ServerFails
  BY <1>11 DEF BuildFails, Built, ServerFails
<1>12. CASE UNCHANGED vars
  BY <1>12 DEF vars
<1> QED
  BY <1>1, <1>2, <1>3, <1>4, <1>5, <1>6, <1>7, <1>8, <1>9, <1>10, <1>11, <1>12
     DEF Next, Main, Exited

\* The pool goes on agreeing with the mapping.
LEMMA PoolStep ==
  ASSUME IInv, [Next]_vars
  PROVE  PoolInv'
<1> USE DEF IInv, PoolInv, Goto, started, world, built, Apps, Parsed, Covered
<1>1. CASE Connected
  <2>1. CASE phase = "own"
    BY <1>1, <2>1 DEF Connected
  <2>2. CASE phase = "connect"
    <3>1. pool' = WithClient(Apps.apps[target]) /\ target \in DOMAIN Apps.apps
      BY <1>1, <2>2 DEF Connected, Address
    <3>2. IsFiniteSet(DOMAIN pool')
      BY <3>1, PoolGrows, FS_AddElement
    <3>3. \A a \in DOMAIN pool' : a \in DOMAIN Apps.apps /\ pool'[a] = Apps.apps[a]
      BY <3>1, PoolGrows
    <3> QED
      BY <1>1, <2>2, <3>2, <3>3 DEF Connected
  <2> QED
    BY <1>1, <2>1, <2>2 DEF Connected, Connecting
<1>2. CASE AttemptFails
  BY <1>2 DEF AttemptFails
<1>3. CASE ParseMapping
  <2>1. Apps.ok \in BOOLEAN
    BY DEF ParseAppsConfig
  <2>2. phase' = IF Apps.ok THEN "next" ELSE "exited"
    BY <1>3 DEF ParseMapping
  <2>3. DOMAIN pool = {} /\ UNCHANGED <<mapping, pool, target>>
    BY <1>3 DEF ParseMapping
  <2> QED
    <3> HIDE DEF Apps
    <3> QED
      BY <2>1, <2>2, <2>3 DEF Apps
<1>4. CASE NextApp
  <2>1. /\ phase = "next" /\ phase' = "connect"
        /\ target' \in DOMAIN Apps.apps
        /\ UNCHANGED <<mapping, pool>>
    BY <1>4 DEF NextApp
  <2>2. /\ IsFiniteSet(DOMAIN pool) /\ Apps.ok = TRUE
        /\ \A a \in DOMAIN pool : a \in DOMAIN Apps.apps /\ pool[a] = Apps.apps[a]
    BY <2>1
  <2> QED
    BY <2>1, <2>2
<1>5. CASE AllConnected
  BY <1>5 DEF AllConnected
<1>6. CASE Label
  BY <1>6 DEF Label
<1>7. CASE Discover \/ DiscoverFails
  BY <1>7 DEF Discover, DiscoverFails
<1>8. CASE ReadAuth
  BY <1>8 DEF ReadAuth
<1>9. CASE Build \/ BuildFails \/ Built \/ ServerFails
  BY <1>9 DEF Build, BuildFails, Built, ServerFails
<1>10. CASE Flap \/ UNCHANGED vars
  BY <1>10 DEF Flap, vars
<1> QED
  BY <1>1, <1>2, <1>3, <1>4, <1>5, <1>6, <1>7, <1>8, <1>9, <1>10
     DEF Next, Main, Exited

\* The attempts of a connection are counted from none.
LEMMA RetryStep ==
  ASSUME IInv, [Next]_vars
  PROVE  RetryInv'
<1> USE DEF IInv, RetryInv, Goto, started, world, built, Connecting
<1>1. CASE Connected
  BY <1>1, StartupAssumption DEF Connected
<1>2. CASE AttemptFails
  <2>1. Address \in App /\ refused[Address] \in Nat /\ attempt \in Nat
    BY <1>2, AddressType DEF AttemptFails, TypeOK
  <2>2. refused'[Address] = refused[Address] + 1 /\ attempt' = attempt + 1
    BY <1>2, <2>1 DEF AttemptFails, TypeOK
  <2>3. CASE attempt + 1 < MaxRetries
    <3>1. phase' = phase /\ Address' = Address
      BY <1>2, <2>3 DEF AttemptFails, Address, Apps
    <3> QED
      BY <1>2, <2>1, <2>2, <2>3, <3>1 DEF AttemptFails
  <2>4. CASE ~(attempt + 1 < MaxRetries)
    BY <1>2, <2>4 DEF AttemptFails
  <2> QED
    BY <2>3, <2>4
<1>3. CASE ParseMapping
  BY <1>3 DEF ParseMapping
<1>4. CASE NextApp
  <2>1. attempt' = 0 /\ phase' = "connect"
    BY <1>4 DEF NextApp
  <2>2. target' \in DOMAIN Apps.apps /\ Apps.ok = TRUE
    BY <1>4 DEF NextApp, PoolInv, Parsed
  <2>3. Apps.apps[target'] \in App
    BY <2>2, ParsedTypes DEF TypeOK, Apps
  <2>4. Address' = Apps.apps[target'] /\ refused' = refused
    BY <1>4, <2>1 DEF NextApp, Address, Apps
  <2>5. refused'[Address'] \in Nat
    BY <2>3, <2>4 DEF TypeOK
  <2> QED
    BY <2>1, <2>5, StartupAssumption
<1>5. CASE AllConnected
  BY <1>5 DEF AllConnected
<1>6. CASE Label
  BY <1>6 DEF Label
<1>7. CASE Discover \/ DiscoverFails
  BY <1>7 DEF Discover, DiscoverFails
<1>8. CASE ReadAuth
  BY <1>8 DEF ReadAuth
<1>9. CASE Build \/ BuildFails \/ Built \/ ServerFails
  BY <1>9 DEF Build, BuildFails, Built, ServerFails
<1>10. CASE Flap \/ UNCHANGED vars
  <2>1. Address' = Address
    BY <1>10 DEF Flap, vars, Address, Apps
  <2> QED
    BY <1>10, <2>1 DEF Flap, vars
<1> QED
  BY <1>1, <1>2, <1>3, <1>4, <1>5, <1>6, <1>7, <1>8, <1>9, <1>10
     DEF Next, Main, Exited

\* The instructions are written with the label, and not afterwards.
LEMMA LabelStep ==
  ASSUME IInv, [Next]_vars
  PROVE  LabelInv'
<1> USE DEF IInv, LabelInv, Goto, started, world, built, Announced, Covered
<1>1. CASE Connected
  BY <1>1 DEF Connected, Connecting
<1>2. CASE AttemptFails
  BY <1>2 DEF AttemptFails, Connecting
<1>3. CASE ParseMapping
  BY <1>3 DEF ParseMapping
<1>4. CASE NextApp \/ AllConnected
  BY <1>4 DEF NextApp, AllConnected
<1>5. CASE Label
  BY <1>5 DEF Label
<1>6. CASE Discover \/ DiscoverFails
  BY <1>6 DEF Discover, DiscoverFails
<1>7. CASE ReadAuth
  BY <1>7 DEF ReadAuth
<1>8. CASE Build \/ BuildFails \/ Built \/ ServerFails
  BY <1>8 DEF Build, BuildFails, Built, ServerFails
<1>9. CASE Flap \/ UNCHANGED vars
  BY <1>9 DEF Flap, vars
<1> QED
  BY <1>1, <1>2, <1>3, <1>4, <1>5, <1>6, <1>7, <1>8, <1>9 DEF Next, Main, Exited

\* The authenticators are built one after the other, from none to all.
LEMMA AuthStep ==
  ASSUME IInv, [Next]_vars
  PROVE  AuthInv'
<1> USE DEF IInv, AuthInv, Goto, started, world, built, Config
<1>1. CASE Connected
  BY <1>1 DEF Connected, Connecting
<1>2. CASE AttemptFails
  BY <1>2 DEF AttemptFails, Connecting
<1>3. CASE ParseMapping
  BY <1>3 DEF ParseMapping
<1>4. CASE NextApp \/ AllConnected
  BY <1>4 DEF NextApp, AllConnected
<1>5. CASE Label
  BY <1>5 DEF Label
<1>6. CASE Discover \/ DiscoverFails
  BY <1>6 DEF Discover, DiscoverFails
<1>7. CASE ReadAuth
  <2>1. authenticators = <<>> /\ UNCHANGED <<authenticators, env, http>>
    BY <1>7 DEF ReadAuth
  <2>2. /\ phase' = "build" => Validate(Config) /\ AuthOn(Config)
        /\ phase' = "serving" => ~AuthOn(Config)
        /\ phase' \in {"build", "serving", "exited"}
    BY <1>7 DEF ReadAuth
  <2> QED
    BY <2>1, <2>2
<1>8. CASE Build
  <2> DEFINE all == Authenticators(Config)
             n   == Len(authenticators) + 1
  <2>1. all \in Seq(Method) /\ n \in 1 .. Len(all)
    BY <1>8, AuthenticatorsAre DEF Build
  <2>2. /\ DOMAIN authenticators' = 1 .. n
        /\ \A k \in 1 .. n : authenticators'[k] = IF k = n THEN all[n] ELSE authenticators[k]
    BY <1>8, <2>1 DEF Build, Pending
  <2>3. UNCHANGED <<env, phase, http>>
    BY <1>8 DEF Build
  <2>4. \A k \in 1 .. n : k # n => k \in DOMAIN authenticators
    OBVIOUS
  <2>5. \A k \in 1 .. n : k \in DOMAIN all /\ authenticators'[k] = all[k]
    BY <2>1, <2>2, <2>4
  <2> QED
    BY <1>8, <2>2, <2>3, <2>5 DEF Build
<1>9. CASE BuildFails \/ ServerFails
  BY <1>9 DEF BuildFails, ServerFails
<1>10. CASE Built
  BY <1>10 DEF Built
<1>11. CASE Flap \/ UNCHANGED vars
  BY <1>11 DEF Flap, vars
<1> QED
  BY <1>1, <1>2, <1>3, <1>4, <1>5, <1>6, <1>7, <1>8, <1>9, <1>10, <1>11
     DEF Next, Main, Exited

LEMMA InvStep == IInv /\ [Next]_vars => IInv'
BY TypeStep, PoolStep, RetryStep, LabelStep, AuthStep DEF IInv

THEOREM Invariance == Spec => []IInv
BY InitInv, InvStep, PTL DEF Spec

\* Every variable has its type.
THEOREM TypeCorrect == Spec => []TypeOK
<1>1. IInv => TypeOK
  BY DEF IInv
<1> QED
  BY <1>1, Invariance, PTL

-----------------------------------------------------------------------------
(* What the invariant gives.                                               *)

\* A server that serves covers the whole mapping, each app by its own address.
THEOREM WholeMappingServed == Spec => []ServesWholeMapping
<1>1. IInv => ServesWholeMapping
  <2> SUFFICES ASSUME IInv, phase = "serving", NEW i \in DOMAIN mapping
               PROVE  /\ mapping[i].form # "malformed"
                      /\ mapping[i].form = "pair" =>
                           \E t \in Range(Targets(Reg)) :
                             t.appID = mapping[i].app /\ t.client = mapping[i].addr
    BY DEF ServesWholeMapping
  <2>1. Apps.ok = TRUE /\ DOMAIN pool = DOMAIN Apps.apps
    BY DEF IInv, PoolInv, Covered
  <2>2. /\ mapping[i].form # "malformed"
        /\ mapping[i].form = "pair" =>
             /\ mapping[i].app \in DOMAIN Apps.apps
             /\ Apps.apps[mapping[i].app] = mapping[i].addr
    BY <2>1, ParsedEntries DEF IInv, TypeOK, Apps
  <2>3. ASSUME mapping[i].form = "pair"
        PROVE  \E t \in Range(Targets(Reg)) :
                 t.appID = mapping[i].app /\ t.client = mapping[i].addr
    <3> DEFINE a == mapping[i].app
    <3>1. a \in DOMAIN pool /\ pool[a] = mapping[i].addr
      BY <2>1, <2>2, <2>3 DEF IInv, PoolInv
    <3>2. IsFiniteSet(DOMAIN pool) /\ TypeOK
      BY DEF IInv, PoolInv
    <3> HIDE DEF a
    <3>3. \E t \in Range(Targets(Reg)) : t.appID = a /\ t.client = pool[a]
      BY <3>1, <3>2, TargetsHavePool
    <3> QED
      BY <3>1, <3>3 DEF a
  <2> QED
    BY <2>2, <2>3
<1> QED
  BY <1>1, Invariance, PTL

\* A server that listens with authentication turned on is guarded by the
\* methods that its mode stands for, one at least, and by no other.
THEOREM ListenerIsGuarded == Spec => []ListensGuarded
<1>1. IInv => ListensGuarded
  <2> SUFFICES ASSUME IInv, phase = "serving", http, env.enabled,
                      env.mode \notin {"", "disabled"}
               PROVE  /\ authenticators # <<>>
                      /\ \A m \in Method :
                           m \in Range(authenticators) <=>
                             m = env.mode \/ (env.mode = "hybrid" /\ m \in env.flags)
    BY DEF ListensGuarded
  <2> DEFINE c   == Config
             all == Authenticators(c)
  <2>1. /\ c.mode = env.mode /\ c.enabled
        /\ c.methods = env.flags \cup ({env.mode} \cap Method)
    BY DEF Config, DefaultConfig
  <2>2. AuthOn(c)
    BY <2>1 DEF AuthOn
  <2>3. /\ Validate(c) /\ Len(authenticators) = Len(all)
        /\ \A n \in DOMAIN authenticators : authenticators[n] = all[n]
        /\ authenticators \in Seq(Method)
    BY <2>2 DEF IInv, AuthInv
  <2>4. all \in Seq(Method)
    BY AuthenticatorsAre
  <2>5. authenticators = all
    <3> HIDE DEF all
    <3> QED
      BY <2>3, <2>4, SameSequence
  <2>6. \A m \in Method : m \in Range(authenticators) <=>
                            m = c.mode \/ (c.mode = "hybrid" /\ m \in c.methods)
    <3> HIDE DEF c
    <3>1. \A m \in Method : (\E n \in DOMAIN all : all[n] = m) <=>
                            m = c.mode \/ (c.mode = "hybrid" /\ m \in c.methods)
      BY AuthenticatorsAre
    <3>2. Range(authenticators) = {all[n] : n \in DOMAIN all}
      BY <2>5 DEF Range
    <3> HIDE DEF all
    <3>3. \A m : m \in Range(authenticators) <=> \E n \in DOMAIN all : all[n] = m
      BY <3>2
    <3> QED
      BY <3>1, <3>3
  <2>7. "hybrid" \notin Method
    BY Methods3
  <2>8. \E m \in Method : m = c.mode \/ (c.mode = "hybrid" /\ m \in c.methods)
    <3>1. env.flags \subseteq Method
      BY EnvAssumption DEF IInv, TypeOK
    <3>2. c.mode \in Method \/ (c.mode = "hybrid" /\ c.methods # {})
      BY <2>1, <2>3 DEF Validate
    <3> HIDE DEF c
    <3> QED
      BY <2>1, <3>1, <3>2
  <2>9. authenticators # <<>>
    <3>1. Range(authenticators) # {}
      <4> HIDE DEF c
      <4> QED
        BY <2>6, <2>8
    <3> QED
      BY <2>3, <3>1, NotEmpty
  <2> QED
    <3> HIDE DEF c, all
    <3> QED
      BY <2>1, <2>6, <2>7, <2>9
<1> QED
  BY <1>1, Invariance, PTL

\* A client that follows the instructions reaches every sidecar, and nothing it
\* was told of is refused, if the mappings name the server's own sidecar for its
\* own app-id: another one in its place would displace the server's own.
THEOREM InstructionsAreRight ==
  ASSUME \A m \in Mappings : OwnAtItsOwn(m)
  PROVE  Spec => []AnnouncedReachAll
<1>1. IInv => AnnouncedReachAll
  <2> SUFFICES ASSUME IInv, phase = "serving", announced # {}
               PROVE  /\ \A a \in announced : Resolves(Reg, a)
                      /\ {ClientFor(Reg, a).client : a \in announced} =
                           {Own} \cup Range(pool)
    BY DEF AnnouncedReachAll
  <2>1. /\ Reg.defaultClient = Own /\ Reg.defaultAppID = label /\ Reg.byAppID = pool
        /\ AppIDs(Reg) = {label} \cup DOMAIN pool
    BY RegIs DEF IInv, TypeOK
  <2>2. announced = {label} \cup DOMAIN pool
    BY DEF IInv, LabelInv, Covered, Announced
  <2>3. NoApp \notin announced
    BY <2>2, AppIDAssumption, StartupAssumption DEF IInv, TypeOK
  <2>4. \A a \in announced : Resolves(Reg, a)
    BY <2>1, <2>2, <2>3 DEF Resolves
  <2>5. /\ \A a \in DOMAIN pool : ClientFor(Reg, a).client = pool[a]
        /\ label \notin DOMAIN pool => ClientFor(Reg, label).client = Own
    BY <2>1 DEF ClientFor
  <2>6. label \in DOMAIN pool => label = Own /\ pool[label] = Own
    <3> SUFFICES ASSUME label \in DOMAIN pool PROVE label = Own /\ pool[label] = Own
      OBVIOUS
    <3>1. label = Own
      BY StartupAssumption DEF IInv, TypeOK
    <3>2. Apps.ok = TRUE /\ Own \in DOMAIN Apps.apps /\ pool[Own] = Apps.apps[Own]
      BY <3>1 DEF IInv, PoolInv
    <3> QED
      BY <3>1, <3>2, ParsedTypes DEF IInv, TypeOK, Apps
  <2>7. Range(pool) = {pool[a] : a \in DOMAIN pool}
    BY DEF Range
  <2>8. {ClientFor(Reg, a).client : a \in announced} = {Own} \cup Range(pool)
    <3>1. CASE label \in DOMAIN pool
      BY <2>2, <2>5, <2>6, <2>7, <3>1
    <3>2. CASE label \notin DOMAIN pool
      BY <2>2, <2>5, <2>7, <3>2
    <3> QED
      BY <3>1, <3>2
  <2> QED
    BY <2>4, <2>8
<1> QED
  BY <1>1, Invariance, PTL

\* No connection is given up before the sidecar failed all of its attempts.
THEOREM RetriesAreUsedUp == Spec => GivesUpAfterAllRetries
<1>1. IInv /\ [Next]_vars =>
        [Connecting /\ phase' = "exited" => refused'[Address] >= MaxRetries]_vars
  <2> SUFFICES ASSUME IInv, Next, Connecting, phase' = "exited"
               PROVE  refused'[Address] >= MaxRetries
    OBVIOUS
  <2>1. AttemptFails
    BY DEF Next, Main, Connecting, Flap, Connected, ParseMapping, NextApp, AllConnected,
           Label, Discover, DiscoverFails, ReadAuth, Build, BuildFails, Built,
           ServerFails, Exited, Goto
  <2>2. Address \in App /\ attempt <= refused[Address]
    BY AddressType DEF IInv, RetryInv
  <2>3. refused[Address] \in Nat /\ attempt \in Nat /\ MaxRetries \in Nat
    BY <2>2, StartupAssumption DEF IInv, TypeOK
  <2>4. refused'[Address] = refused[Address] + 1
    BY <2>1, <2>2 DEF AttemptFails, IInv, TypeOK
  <2>5. ~(attempt + 1 < MaxRetries)
    BY <2>1 DEF AttemptFails, Connecting
  <2> QED
    BY <2>2, <2>3, <2>4, <2>5
<1> QED
  BY <1>1, Invariance, PTL DEF GivesUpAfterAllRetries, Spec
=============================================================================
