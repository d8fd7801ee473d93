------------------------------- MODULE Startup -------------------------------
(***************************************************************************)
(* How the server starts (cmd/dapr-mcp-server/main.go).  It connects to    *)
(* its own sidecar and to the sidecar of each configured workflow app,     *)
(* each with retries; asks for its app-id and for the components; then     *)
(* reads the authentication settings, builds the authenticators and        *)
(* serves.  What cannot be had is fatal, except the app-id.                *)
(*                                                                         *)
(* Sidecars and identity providers are external: they come up and go down  *)
(* at any time.  A client is named by the app whose sidecar it talks to,   *)
(* and so is the address of that sidecar.                                  *)
(***************************************************************************)
EXTENDS WorkflowRegistry, AuthConfig

CONSTANTS
  App,            \* the workflow apps, by app-id
  Mappings,       \* values of DAPR_MCP_SERVER_WORKFLOW_APPS, entry by entry
  Envs,           \* authentication environments
  Components,     \* sets of component kinds that the own sidecar may have
  MaxRetries,     \* maxRetries
  MaxFlaps        \* bound: changes of what is up

Conditional == {"pubsub", "bindings", "state", "secretstores", "conversation",
                "crypto", "lock"}
Core        == {"metadata", "invoke", "actors", "workflow"}

ASSUME StartupAssumption ==
  /\ App \subseteq Nat /\ Own \in App /\ Fallback \notin App
  /\ MaxRetries \in Nat \ {0} /\ MaxFlaps \in Nat

\* A mapping is a list of entries; what is configured are apps and sidecars,
\* some of which may never be up.
ASSUME MappingAssumption ==
  \A m \in Mappings : \A i \in DOMAIN m :
    /\ m[i].form \in {"blank", "malformed", "pair"}
    /\ m[i].form = "pair" => m[i].app \in App /\ m[i].addr \in App

\* What the server reads of an environment.
ASSUME EnvAssumption ==
  \A e \in Envs : e.enabled \in BOOLEAN /\ e.flags \subseteq Method

VARIABLES
  mapping, env, http,   \* how the operator started the server
  up, providers,        \* sidecars and identity providers that are up
  flaps,                \* number of times that changed
  phase,                \* where main is
  target,               \* the app it is connecting to
  attempt,              \* failed attempts at the current connection
  pool,                 \* the connections to the workflow apps
  label,                \* defaultAppID
  announced,            \* the app-ids that the instructions list
  tools,                \* the tool groups registered
  authenticators,       \* those built so far
  refused               \* how often each sidecar failed a connection attempt

started == <<mapping, env, http>>
world   == <<up, providers, flaps>>
built   == <<pool, label, announced, tools, authenticators>>
vars    == <<started, world, phase, target, attempt, built, refused>>

Init ==
  /\ mapping \in Mappings /\ env \in Envs /\ http \in BOOLEAN
  /\ up \in SUBSET App /\ providers \in SUBSET Method
  /\ flaps = 0
  /\ phase = "own"
  /\ target = Own
  /\ attempt = 0
  /\ pool = <<>>
  /\ label = Fallback
  /\ announced = {}
  /\ tools = {}
  /\ authenticators = <<>>
  /\ refused = [a \in App |-> 0]

Config == DefaultConfig(env)
Apps   == ParseAppsConfig(mapping)
Reg    == NewRegistry(Own, label, pool)

\* A sidecar or an identity provider comes up or goes down.
Toggle(S, x) == IF x \in S THEN S \ {x} ELSE S \cup {x}

Flap ==
  /\ flaps < MaxFlaps
  /\ flaps' = flaps + 1
  /\ \/ (\E a \in App : up' = Toggle(up, a)) /\ UNCHANGED providers
     \/ (\E m \in Method : providers' = Toggle(providers, m)) /\ UNCHANGED up
  /\ UNCHANGED <<started, phase, target, attempt, built, refused>>

-----------------------------------------------------------------------------
(* connectWithRetry.                                                       *)

\* The sidecar that the current attempt is for.
Address == IF phase = "own" THEN Own ELSE Apps.apps[target]

Connecting == phase \in {"own", "connect"}

\* pool[appID] = client, for the app that main is connecting to.
WithClient(client) ==
  [a \in DOMAIN pool \cup {target} |-> IF a = target THEN client ELSE pool[a]]

\* Mistake: the attempts of all connections are counted together.
ConnectedKeepsCount ==
  /\ Connecting /\ Address \in up
  /\ \/ phase = "own" /\ phase' = "parse" /\ UNCHANGED pool
     \/ phase = "connect" /\ phase' = "next" /\ pool' = WithClient(Address)
  /\ UNCHANGED <<started, world, target, attempt, label, announced, tools,
                 authenticators, refused>>

Connected ==
  /\ Connecting /\ Address \in up
  /\ \/ phase = "own" /\ phase' = "parse" /\ UNCHANGED pool
     \/ phase = "connect" /\ phase' = "next" /\ pool' = WithClient(Address)
  /\ attempt' = 0
  /\ UNCHANGED <<started, world, target, label, announced, tools, authenticators, refused>>

\* Mistake: it retries without end.
AttemptFailsForever ==
  /\ Connecting /\ Address \notin up
  /\ attempt' = (attempt + 1) % MaxRetries
  /\ refused' = [refused EXCEPT ![Address] = IF @ < MaxRetries THEN @ + 1 ELSE @]
  /\ UNCHANGED <<started, world, phase, target, built>>

\* Mistake: one attempt too many.
AttemptFailsOneMore ==
  /\ Connecting /\ Address \notin up
  /\ attempt' = attempt + 1
  /\ refused' = [refused EXCEPT ![Address] = @ + 1]
  /\ phase' = IF attempt < MaxRetries THEN phase ELSE "exited"
  /\ UNCHANGED <<started, world, target, built>>

\* Mistake: a workflow app that cannot be reached is left out.
AttemptFailsSkipping ==
  /\ Connecting /\ Address \notin up
  /\ attempt' = (attempt + 1) % MaxRetries
  /\ refused' = [refused EXCEPT ![Address] = @ + 1]
  /\ phase' = IF attempt + 1 < MaxRetries THEN phase
              ELSE IF phase = "own" THEN "exited" ELSE "next"
  /\ pool' = IF phase = "connect" /\ attempt + 1 = MaxRetries
             THEN WithClient(Own) ELSE pool
  /\ UNCHANGED <<started, world, target, label, announced, tools, authenticators>>

AttemptFails ==
  /\ Connecting /\ Address \notin up
  /\ attempt' = attempt + 1
  /\ refused' = [refused EXCEPT ![Address] = @ + 1]
  /\ phase' = IF attempt + 1 < MaxRetries THEN phase ELSE "exited"
  /\ UNCHANGED <<started, world, target, built>>

-----------------------------------------------------------------------------
(* The rest of main.                                                       *)

Goto(to) == phase' = to

ParseMapping ==
  /\ phase = "parse"
  /\ Goto(IF Apps.ok THEN "next" ELSE "exited")
  /\ UNCHANGED <<started, world, target, attempt, built, refused>>

\* initializeWorkflowApps takes the apps in any order, that of a Go map.
NextApp ==
  /\ phase = "next"
  /\ \E a \in DOMAIN Apps.apps \ DOMAIN pool : target' = a
  /\ Goto("connect")
  /\ UNCHANGED <<started, world, attempt, built, refused>>

AllConnected ==
  /\ phase = "next"
  /\ DOMAIN Apps.apps = DOMAIN pool
  /\ Goto("label")
  /\ UNCHANGED <<started, world, target, attempt, built, refused>>

\* Mistake: the instructions list the workflow apps only.
AnnouncedPool(id) == DOMAIN pool

\* The app-ids in the instructions, none when no app is configured.
Announced(id) == IF DOMAIN pool = {} THEN {} ELSE {id} \cup DOMAIN pool

\* The server's app-id, or its fallback when the sidecar cannot be asked.
Label ==
  /\ phase = "label"
  /\ \E id \in IF Own \in up THEN {Own} ELSE {Fallback} :
       label' = id /\ announced' = Announced(id)
  /\ Goto("discover")
  /\ UNCHANGED <<started, world, target, attempt, pool, tools, authenticators, refused>>

\* GetLiveComponentList: the components of the building blocks with tools.
LiveComponents(kinds) == kinds \cap Conditional

\* The tools of a building block are registered if the sidecar has a component
\* of it now.
Discover ==
  /\ phase = "discover" /\ Own \in up
  /\ \E kinds \in Components : tools' = Core \cup LiveComponents(kinds)
  /\ Goto(IF http THEN "auth" ELSE "serving")
  /\ UNCHANGED <<started, world, target, attempt, pool, label, announced,
                 authenticators, refused>>

DiscoverFails ==
  /\ phase = "discover" /\ Own \notin up
  /\ tools' = Core
  /\ Goto("exited")
  /\ UNCHANGED <<started, world, target, attempt, pool, label, announced,
                 authenticators, refused>>

ReadAuth ==
  /\ phase = "auth"
  /\ Goto(IF ~Validate(Config) THEN "exited"
          ELSE IF AuthOn(Config) THEN "build" ELSE "serving")
  /\ UNCHANGED <<started, world, target, attempt, built, refused>>

Pending == Authenticators(Config)[Len(authenticators) + 1]

\* buildAuthenticators: one constructor after the other.
Build ==
  /\ phase = "build" /\ Len(authenticators) < Len(Authenticators(Config))
  /\ Pending \in providers
  /\ authenticators' = Append(authenticators, Pending)
  /\ UNCHANGED <<started, world, phase, target, attempt, pool, label, announced,
                 tools, refused>>

BuildFails ==
  /\ phase = "build" /\ Len(authenticators) < Len(Authenticators(Config))
  /\ Pending \notin providers
  /\ Goto("exited")
  /\ UNCHANGED <<started, world, target, attempt, built, refused>>

Built ==
  /\ phase = "build" /\ Len(authenticators) = Len(Authenticators(Config))
  /\ Goto("serving")
  /\ UNCHANGED <<started, world, target, attempt, built, refused>>

\* ListenAndServe or the stdio transport gives up.
ServerFails ==
  /\ phase = "serving"
  /\ Goto("exited")
  /\ UNCHANGED <<started, world, target, attempt, built, refused>>

Main ==
  \/ Connected \/ AttemptFails
  \/ ParseMapping \/ NextApp \/ AllConnected
  \/ Label \/ Discover \/ DiscoverFails
  \/ ReadAuth \/ Build \/ BuildFails \/ Built

\* The process is gone.
Exited == phase = "exited" /\ UNCHANGED vars

Next ==
  \/ Flap
  \/ Main
  \/ ServerFails
  \/ Exited

Spec == Init /\ [][Next]_vars

\* Every attempt to connect and every question to a sidecar or an identity
\* provider comes to an end.
FairSpec == Spec /\ WF_vars(Main)

-----------------------------------------------------------------------------
(* Properties.                                                             *)

TypeOK ==
  /\ mapping \in Mappings /\ env \in Envs /\ http \in BOOLEAN
  /\ up \subseteq App /\ providers \subseteq Method
  /\ flaps \in 0 .. MaxFlaps
  /\ phase \in {"own", "parse", "next", "connect", "label", "discover", "auth",
                "build", "serving", "exited"}
  /\ target \in App
  /\ attempt \in 0 .. MaxRetries
  /\ DOMAIN pool \subseteq App /\ Range(pool) \subseteq App
  /\ label \in {Own, Fallback}
  /\ announced \subseteq App \cup {Fallback}
  /\ tools \subseteq Core \cup Conditional
  /\ Range(authenticators) \subseteq Method
  /\ refused \in [App -> Nat]

\* A server that serves covers the whole mapping, each app by its own address:
\* list_workflows cannot be silently incomplete (main.go:80-83), and a mapping
\* with an error in it is never served at all.
ServesWholeMapping ==
  phase = "serving" =>
    \A i \in DOMAIN mapping :
      /\ mapping[i].form # "malformed"
      /\ mapping[i].form = "pair" =>
           \E t \in Range(Targets(Reg)) :
             t.appID = mapping[i].app /\ t.client = mapping[i].addr

\* A server that listens with authentication turned on has an authenticator for
\* each method that its mode stands for, one at least, and no other.
ListensGuarded ==
  phase = "serving" /\ http /\ env.enabled /\ env.mode \notin {"", "disabled"} =>
    /\ authenticators # <<>>
    /\ \A m \in Method :
         m \in Range(authenticators) <=>
           m = env.mode \/ (env.mode = "hybrid" /\ m \in env.flags)

\* The instructions agree with the tools: a client that follows them reaches
\* every sidecar by an announced app-id, and each announced one is accepted.
AnnouncedReachAll ==
  phase = "serving" /\ announced # {} =>
    /\ \A a \in announced : Resolves(Reg, a)
    /\ {ClientFor(Reg, a).client : a \in announced} = {Own} \cup Range(pool)

\* Nobody is given up before its time: when the server exits for want of a
\* connection, that one sidecar failed every one of its own attempts.
GivesUpAfterAllRetries ==
  [][Connecting /\ phase' = "exited" => refused'[Address] >= MaxRetries]_vars

\* The start comes to an end, in service or not, however sidecars come and go.
StartEnds == <>(phase \in {"serving", "exited"})

-----------------------------------------------------------------------------
(* The inductive invariant.                                                *)

\* The mapping has been read, and been connected to in full.
Parsed  == {"next", "connect"}
Covered == {"label", "discover", "auth", "build", "serving"}

\* The pool holds configured apps, each with the address configured for it,
\* and all of them once main goes on.
PoolInv ==
  /\ IsFiniteSet(DOMAIN pool)
  /\ \A a \in DOMAIN pool : a \in DOMAIN Apps.apps /\ pool[a] = Apps.apps[a]
  /\ phase \in {"own", "parse"} => DOMAIN pool = {}
  /\ phase \in Parsed \cup Covered \/ DOMAIN pool # {} => Apps.ok = TRUE
  /\ phase = "connect" => target \in DOMAIN Apps.apps
  /\ phase \in Covered => DOMAIN pool = DOMAIN Apps.apps

\* The attempts that count against a sidecar are its own.
RetryInv ==
  /\ phase # "exited" => attempt < MaxRetries
  /\ IF Connecting THEN attempt <= refused[Address]
     ELSE phase # "exited" => attempt = 0

\* The instructions go with the label.
LabelInv ==
  phase \in Covered \ {"label"} => announced = Announced(label)

\* The authenticators built are the first ones of those the settings ask for.
AuthInv ==
  /\ \A n \in DOMAIN authenticators :
        /\ n \in DOMAIN Authenticators(Config)
        /\ authenticators[n] = Authenticators(Config)[n]
  /\ phase \notin {"build", "serving", "exited"} => authenticators = <<>>
  /\ phase = "build" => Validate(Config) /\ AuthOn(Config)
  /\ phase = "serving" /\ http /\ AuthOn(Config) =>
        Validate(Config) /\ Len(authenticators) = Len(Authenticators(Config))

IInv ==
  /\ TypeOK /\ authenticators \in Seq(Method)
  /\ PoolInv /\ RetryInv /\ LabelInv /\ AuthInv
=============================================================================
