------------------------- MODULE WorkflowToolsProofs -------------------------
(***************************************************************************)
(* Proofs about the per-instance workflow tools, for any apps and pools,   *)
(* any number of calls and instances, any arguments and any range of event *)
(* IDs.                                                                    *)
(*                                                                         *)
(* The invariant ties each request to the arguments it came from: a call   *)
(* that sent one had an app-id that the registry resolves, its target is   *)
(* the client of that app-id, and what it did to the engines, if anything, *)
(* is the one effect that its arguments ask for.                           *)
(***************************************************************************)
EXTENDS WorkflowTools, TLAPS

\* The registry is the one that the server built when it started.
RegistryInv ==
  /\ reg.defaultClient = Own /\ reg.defaultAppID \in {Own, Fallback}
  /\ DOMAIN reg.byAppID \in Pools
  /\ \A a \in DOMAIN reg.byAppID : reg.byAppID[a] = a

\* The arguments of a call passed its checks and led to its target.
Routed(c) ==
  /\ args[c] \in Arguments
  /\ args[c].op = "rerun" => EventInRange(args[c].event)
  /\ Resolves(reg, args[c].app)
  /\ target[c] = ClientFor(reg, args[c].app)

Effect(c) == [app |-> target[c].client, event |-> Uint32(args[c].event)]

CallInv(c) ==
  /\ pc[c] \in {"sent", "answered"} => Routed(c)
  /\ \/ effects[c] = <<>>
     \/ /\ effects[c] = <<Effect(c)>>
        /\ Routed(c)
        /\ args[c].op \notin ReadOps
        /\ pc[c] \in {"answered", "done"}
  /\ answer[c] = "ok" =>
        /\ pc[c] \in {"answered", "done"}
        /\ args[c].op \in ReadOps \/ effects[c] # <<>>
  /\ result[c] = "success" => answer[c] = "ok" /\ pc[c] = "done"

CrashInv ==
  \A app \in crashed :
    \E c \in Call : pc[c] # "idle" /\ args[c].op \in ReadOps /\ Named(c, app)

WInv ==
  /\ TypeOK
  /\ RegistryInv
  /\ \A c \in Call : CallInv(c)
  /\ CrashInv

-----------------------------------------------------------------------------
(* Arguments, the registry and the width of event IDs.                     *)

LEMMA ArgumentFields ==
  ASSUME NEW a \in Arguments
  PROVE  /\ a.op \in Ops
         /\ a.op \in ReadOps \cup StateOps \cup {"rerun"} => a.instance \in Instance
         /\ a.event \in Int
         /\ a.op # "rerun" => a.event = 0
<1>1. CASE a \in [op : Ops, app : Asked, instance : Instance,
                    newInstance : {NoInstance}, event : {0}, badTime : {FALSE}]
  BY <1>1
<1>2. CASE a \in [op : {"start"}, app : Asked, instance : Instance \cup {NoInstance},
                    newInstance : {NoInstance}, event : {0}, badTime : BOOLEAN]
  BY <1>2 DEF Ops, ReadOps, StateOps
<1>3. CASE a \in [op : {"rerun"}, app : Asked, instance : Instance,
                    newInstance : Instance \cup {NoInstance}, event : EventIDs,
                    badTime : {FALSE}]
  BY <1>3, ToolsAssumption DEF Ops
<1> QED
  BY <1>1, <1>2, <1>3 DEF Arguments

\* An event ID within range goes through the conversion unchanged.
LEMMA Uint32Exact ==
  ASSUME NEW n \in Int, EventInRange(n)
  PROVE  Uint32(n) = n
BY ToolsAssumption DEF EventInRange, Uint32

LEMMA Uint32Range ==
  ASSUME NEW n \in Int
  PROVE  Uint32(n) \in 0 .. MaxEvent
<1>1. MaxEvent + 1 > 0 /\ MaxEvent \in Int
  BY ToolsAssumption
<1> QED
  BY <1>1 DEF Uint32

\* The client that an app-id resolves to is one that its caller named, and goes
\* by its own app-id or, the server's, by the default one.
LEMMA RoutedIsNamed ==
  ASSUME RegistryInv, NEW c \in Call, Routed(c)
  PROVE  /\ target[c].client \in App
         /\ Named(c, target[c].client)
         /\ target[c].appID \in {target[c].client} \cup
              (IF target[c].client = Own THEN {reg.defaultAppID} ELSE {})
<1> DEFINE app == args[c].app
<1>1. CASE app \in DOMAIN reg.byAppID
  <2>1. target[c] = [appID |-> app, client |-> app]
    BY <1>1 DEF Routed, ClientFor, RegistryInv
  <2>2. app \in App
    BY <1>1, ToolsAssumption DEF RegistryInv
  <2> QED
    BY <1>1, <2>1, <2>2 DEF Named
<1>2. CASE app \notin DOMAIN reg.byAppID
  <2>1. target[c] = [appID |-> reg.defaultAppID, client |-> Own]
    BY <1>2 DEF Routed, ClientFor, RegistryInv
  <2>2. app = reg.defaultAppID \/ (app = NoApp /\ ~MultiApp(reg))
    BY <1>2 DEF Routed, Resolves, AppIDs
  <2>3. Own \in App /\ reg.defaultClient = Own
    BY ToolsAssumption DEF RegistryInv
  <2> QED
    BY <2>1, <2>2, <2>3 DEF Named
<1> QED
  BY <1>1, <1>2

-----------------------------------------------------------------------------
(* The invariant.                                                          *)

LEMMA InitInv == Init => WInv
<1> SUFFICES ASSUME Init PROVE WInv
  OBVIOUS
<1>1. RegistryInv
  <2>1. PICK resolved \in Resolutions, pool \in Pools :
          reg = NewRegistry(Own, ServerAppID(resolved), [a \in pool |-> a])
    BY DEF Init
  <2>2. ServerAppID(resolved) \in {Own, Fallback} /\ ServerAppID(resolved) # NoApp
    BY AppIDAssumption DEF ServerAppID
  <2> QED
    BY <2>1, <2>2 DEF RegistryInv, NewRegistry
<1>2. TypeOK
  <2>1. engine \in [App -> [Instance -> Status]]
    BY DEF Init, Status
  <2>2. /\ target \in [Call -> [appID : Nat \cup {NoApp}, client : App \cup {NoApp}]]
        /\ effects \in [Call -> Seq([app : App, event : 0 .. MaxEvent])]
    BY DEF Init, NoTarget
  <2> QED
    BY <1>1, <2>1, <2>2 DEF Init, TypeOK, RegistryInv
<1>3. \A c \in Call : CallInv(c)
  BY DEF Init, CallInv
<1>4. CrashInv
  BY DEF Init, CrashInv
<1> QED
  BY <1>1, <1>2, <1>3, <1>4 DEF WInv

\* What is known of a call lasts while the call rests.
LEMMA CallRests ==
  ASSUME NEW c \in Call, CallInv(c), reg' = reg,
         pc'[c] = pc[c], args'[c] = args[c], target'[c] = target[c],
         answer'[c] = answer[c], result'[c] = result[c], effects'[c] = effects[c]
  PROVE  CallInv(c)'
BY DEF CallInv, Routed, Effect

\* Who is named for a sidecar that is down stays named.
LEMMA CrashRests ==
  ASSUME CrashInv, crashed' = crashed, reg' = reg,
         \A c \in Call : pc[c] # "idle" => pc'[c] # "idle" /\ args'[c] = args[c]
  PROVE  CrashInv'
BY DEF CrashInv, Named

LEMMA InvokePreserves ==
  ASSUME WInv, NEW c \in Call, NEW a \in Arguments, Invoke(c, a)
  PROVE  WInv'
<1> USE DEF WInv
<1>1. RegistryInv'
  BY DEF RegistryInv, Invoke
<1>2. CallInv(c)'
  <2>1. answer[c] # "ok" /\ effects[c] = <<>>
    BY DEF CallInv, Invoke
  <2>2. args'[c] = a /\ effects'[c] = <<>> /\ answer'[c] # "ok" /\ reg' = reg
    BY <2>1 DEF Invoke, TypeOK
  <2>3. CASE Acceptable(a)
    <3>1. /\ pc'[c] = "sent" /\ target'[c] = ClientFor(reg, a.app)
          /\ result'[c] = result[c]
      BY <2>3 DEF Invoke, TypeOK
    <3>2. Routed(c)'
      BY <2>2, <2>3, <3>1 DEF Routed, Acceptable
    <3>3. result[c] # "success"
      BY DEF CallInv, Invoke
    <3> QED
      BY <2>2, <3>1, <3>2, <3>3 DEF CallInv
  <2>4. CASE ~Acceptable(a)
    BY <2>2, <2>4 DEF Invoke, TypeOK, CallInv
  <2> QED
    BY <2>3, <2>4
<1>3. \A d \in Call \ {c} : CallInv(d)'
  <2> TAKE d \in Call \ {c}
  <2>1. /\ reg' = reg /\ pc'[d] = pc[d] /\ args'[d] = args[d]
        /\ target'[d] = target[d] /\ answer'[d] = answer[d]
        /\ result'[d] = result[d] /\ effects'[d] = effects[d]
    BY DEF Invoke, TypeOK
  <2> QED
    BY <2>1, CallRests
<1>4. CrashInv'
  <2>1. \A d \in Call : pc[d] # "idle" => pc'[d] # "idle" /\ args'[d] = args[d]
    BY DEF Invoke, TypeOK
  <2> QED
    BY <2>1, CrashRests DEF Invoke
<1>5. TypeOK'
  <2>1. /\ pc' \in [Call -> {"idle", "sent", "answered", "done"}]
        /\ args' \in [Call -> Arguments \cup {NoArgs}]
        /\ result' \in [Call -> {"none", "success", "error"}]
    BY DEF Invoke, TypeOK
  <2>2. \A d \in Call : pc'[d] \in {"sent", "answered"} => target'[d].client \in App
    <3> TAKE d \in Call
    <3>1. CallInv(d)'
      BY <1>2, <1>3
    <3>2. ASSUME pc'[d] \in {"sent", "answered"} PROVE target'[d].client \in App
      <4>1. Routed(d)'
        BY <3>1, <3>2 DEF CallInv
      <4>2. \/ target'[d].client \in DOMAIN reg'.byAppID
            \/ target'[d].client = Own
        BY <4>1, <1>1 DEF RegistryInv, Routed, ClientFor
      <4> QED
        BY <4>2, <1>1, ToolsAssumption DEF RegistryInv
    <3> QED
      BY <3>2
  <2>3. target' \in [Call -> [appID : Nat \cup {NoApp}, client : App \cup {NoApp}]]
    <3>1. CASE Acceptable(a)
      <4>1. ClientFor(reg, a.app).client \in App /\ ClientFor(reg, a.app).appID \in Nat
        BY <3>1, ToolsAssumption, AppIDAssumption DEF RegistryInv, ClientFor
      <4>2. ClientFor(reg, a.app) \in [appID : Nat \cup {NoApp}, client : App \cup {NoApp}]
        BY <4>1 DEF ClientFor
      <4> QED
        BY <3>1, <4>2 DEF Invoke, TypeOK
    <3> QED
      BY <3>1 DEF Invoke, TypeOK
  <2> QED
    BY <2>1, <2>2, <2>3 DEF Invoke, TypeOK
<1> QED
  BY <1>1, <1>2, <1>3, <1>4, <1>5

LEMMA ReturnPreserves ==
  ASSUME WInv, NEW c \in Call, Return(c)
  PROVE  WInv'
<1> USE DEF WInv
<1>1. RegistryInv'
  BY DEF RegistryInv, Return
<1>2. CallInv(c)'
  <2>1. /\ pc[c] = "answered" /\ pc'[c] = "done" /\ reg' = reg
        /\ args' = args /\ target' = target /\ answer' = answer /\ effects' = effects
        /\ result'[c] = IF answer[c] = "ok" THEN "success" ELSE "error"
    BY DEF Return, TypeOK
  <2> QED
    BY <2>1 DEF CallInv, Routed, Effect
<1>3. \A d \in Call \ {c} : CallInv(d)'
  <2> TAKE d \in Call \ {c}
  <2>1. /\ reg' = reg /\ pc'[d] = pc[d] /\ args'[d] = args[d]
        /\ target'[d] = target[d] /\ answer'[d] = answer[d]
        /\ result'[d] = result[d] /\ effects'[d] = effects[d]
    BY DEF Return, TypeOK
  <2> QED
    BY <2>1, CallRests
<1>4. CrashInv'
  <2>1. \A d \in Call : pc[d] # "idle" => pc'[d] # "idle" /\ args'[d] = args[d]
    BY DEF Return, TypeOK
  <2> QED
    BY <2>1, CrashRests DEF Return
<1>5. TypeOK'
  BY DEF Return, TypeOK
<1> QED
  BY <1>1, <1>2, <1>3, <1>4, <1>5

LEMMA CompletePreserves ==
  ASSUME WInv, NEW app \in App, NEW i \in Instance, Complete(app, i)
  PROVE  WInv'
<1> USE DEF WInv
<1>1. RegistryInv' /\ (\A c \in Call : CallInv(c)') /\ CrashInv'
  BY CallRests, CrashRests DEF Complete, RegistryInv
<1>2. engine' \in [App -> [Instance -> Status]]
  BY DEF Complete, TypeOK, Status
<1>3. TypeOK'
  BY <1>2 DEF Complete, TypeOK
<1> QED
  BY <1>1, <1>3

-----------------------------------------------------------------------------
(* The sidecar's steps.                                                    *)

\* The effect of a call is recorded as its arguments ask for it.
LEMMA RecordIsEffect ==
  ASSUME WInv, NEW c \in Call, pc[c] = "sent", Record(c)
  PROVE  /\ effects' = [effects EXCEPT ![c] = <<Effect(c)>>]
         /\ effects' \in [Call -> Seq([app : App, event : 0 .. MaxEvent])]
<1>1. effects[c] = <<>> /\ Routed(c)
  BY DEF WInv, CallInv
<1>2. effects' = [effects EXCEPT ![c] = <<Effect(c)>>]
  BY <1>1 DEF Record, Effect
<1>3. target[c].client \in App
  BY <1>1, RoutedIsNamed DEF WInv
<1>4. Uint32(args[c].event) \in 0 .. MaxEvent
  BY <1>1, ArgumentFields, Uint32Range DEF Routed
<1>5. <<Effect(c)>> \in Seq([app : App, event : 0 .. MaxEvent])
  BY <1>3, <1>4 DEF Effect
<1> QED
  BY <1>2, <1>5 DEF WInv, TypeOK

\* A step of the sidecar leaves the engines well typed.
LEMMA EngineTypes ==
  ASSUME WInv, NEW c \in Call, pc[c] = "sent", Creates(c) \/ Changes(c)
  PROVE  engine' \in [App -> [Instance -> Status]]
<1> DEFINE app == target[c].client
<1>1. Routed(c) /\ app \in App
  BY RoutedIsNamed DEF WInv, CallInv
<1>2. engine \in [App -> [Instance -> Status]]
  BY DEF WInv, TypeOK
<1>3. CASE Creates(c)
  <2>1. PICK i \in Instance \cup {NoInstance} :
          /\ engine' = [engine EXCEPT ![app][i] = "RUNNING"]
          /\ i \in Fresh(app, IF args[c].op = "start" THEN args[c].instance
                               ELSE args[c].newInstance)
    <3>1. /\ args[c].instance \in Instance \cup {NoInstance}
          /\ args[c].newInstance \in Instance \cup {NoInstance}
      BY <1>1 DEF Routed, Arguments
    <3> QED
      BY <1>3, <3>1 DEF Creates, Fresh
  <2>2. i \in Instance
    BY <2>1, <1>1 DEF Routed, Arguments, Fresh
  <2> QED
    BY <1>1, <1>2, <2>1, <2>2 DEF Status
<1>4. CASE Changes(c)
  <2>1. args[c].instance \in Instance
    BY <1>1, <1>4, ArgumentFields DEF Routed, Changes
  <2>2. After(args[c].op, engine[app][args[c].instance]) \in Status
    BY <1>1, <1>2, <2>1 DEF After, Status, Active
  <2> QED
    BY <1>1, <1>2, <1>4, <2>1, <2>2 DEF Changes
<1> QED
  BY <1>3, <1>4

\* What every step of the sidecar does to a call and to the rest.
SidecarStep(c) ==
  /\ pc[c] = "sent"
  /\ pc' = [pc EXCEPT ![c] = "answered"]
  /\ UNCHANGED <<reg, args, target, result>>
  /\ engine' \in [App -> [Instance -> Status]]
  /\ \/ answer' = [answer EXCEPT ![c] = "error"]
     \/ /\ answer' = [answer EXCEPT ![c] = "ok"]
        /\ args[c].op \in ReadOps \/ effects' # effects
  /\ \/ effects' = effects
     \/ /\ effects' = [effects EXCEPT ![c] = <<Effect(c)>>]
        /\ effects' \in [Call -> Seq([app : App, event : 0 .. MaxEvent])]
        /\ args[c].op \notin ReadOps
  /\ \/ crashed' = crashed
     \/ crashed' = crashed \cup {target[c].client} /\ args[c].op \in ReadOps

LEMMA SidecarSteps ==
  ASSUME WInv, NEW c \in Call, Sidecar(c)
  PROVE  SidecarStep(c)
<1>0. engine \in [App -> [Instance -> Status]] /\ effects[c] \in Seq([app : App, event : 0 .. MaxEvent])
  BY DEF WInv, TypeOK
<1>1. ASSUME Creates(c) \/ Changes(c) \/ Reads(c), pc[c] = "sent"
      PROVE  /\ engine' \in [App -> [Instance -> Status]]
             /\ crashed' = crashed
             /\ \/ effects' = effects /\ args[c].op \in ReadOps
                \/ /\ effects' = [effects EXCEPT ![c] = <<Effect(c)>>]
                   /\ effects' # effects
                   /\ effects' \in [Call -> Seq([app : App, event : 0 .. MaxEvent])]
                   /\ args[c].op \notin ReadOps
  <2>1. CASE Reads(c)
    BY <1>0, <2>1 DEF Reads
  <2>2. CASE Creates(c) \/ Changes(c)
    <3>1. /\ effects' = [effects EXCEPT ![c] = <<Effect(c)>>]
          /\ effects' \in [Call -> Seq([app : App, event : 0 .. MaxEvent])]
      BY <1>1, <2>2, RecordIsEffect DEF Creates, Changes
    <3>2. effects[c] = <<>> /\ effects \in [Call -> Seq([app : App, event : 0 .. MaxEvent])]
      BY <1>1 DEF WInv, CallInv, TypeOK
    <3>3. effects' # effects
      BY <3>1, <3>2
    <3>4. engine' \in [App -> [Instance -> Status]]
      BY <1>1, <2>2, EngineTypes
    <3>5. args[c].op \notin ReadOps /\ crashed' = crashed
      BY <2>2 DEF Creates, Changes, ReadOps, StateOps
    <3> QED
      BY <3>1, <3>3, <3>4, <3>5
  <2> QED
    BY <1>1, <2>1, <2>2
<1>2. CASE Serve(c)
  BY <1>2, <1>1 DEF Serve, Answer, SidecarStep
<1>3. CASE ServeUnheard(c)
  BY <1>3, <1>1 DEF ServeUnheard, Answer, SidecarStep
<1>4. CASE Refuse(c)
  BY <1>0, <1>4 DEF Refuse, Answer, SidecarStep
<1>5. CASE Crash(c)
  BY <1>0, <1>5 DEF Crash, Answer, SidecarStep
<1>6. CASE Unreachable(c)
  BY <1>0, <1>6 DEF Unreachable, SidecarStep
<1> QED
  BY <1>2, <1>3, <1>4, <1>5, <1>6 DEF Sidecar

LEMMA SidecarPreserves ==
  ASSUME WInv, NEW c \in Call, Sidecar(c)
  PROVE  WInv'
<1>0. SidecarStep(c) /\ TypeOK /\ RegistryInv /\ CallInv(c) /\ CrashInv
  BY SidecarSteps DEF WInv
<1>1. RegistryInv'
  BY <1>0 DEF RegistryInv, SidecarStep
<1>2. CallInv(c)'
  <2>1. /\ Routed(c) /\ Routed(c)' /\ effects[c] = <<>>
        /\ pc'[c] = "answered" /\ args' = args /\ target' = target
        /\ result'[c] # "success"
    BY <1>0 DEF CallInv, SidecarStep, TypeOK, Routed
  <2>2. \/ answer'[c] = "error"
        \/ args[c].op \in ReadOps \/ effects' # effects
    BY <1>0 DEF SidecarStep, TypeOK
  <2>3. \/ effects' = effects
        \/ effects'[c] = <<Effect(c)>> /\ args[c].op \notin ReadOps
    BY <1>0 DEF SidecarStep, TypeOK
  <2>4. Effect(c)' = Effect(c)
    BY <2>1 DEF Effect
  <2>5. <<Effect(c)>> # <<>>
    OBVIOUS
  <2> QED
    BY <2>1, <2>2, <2>3, <2>4, <2>5 DEF CallInv
<1>3. \A d \in Call \ {c} : CallInv(d)'
  <2> TAKE d \in Call \ {c}
  <2>1. /\ reg' = reg /\ pc'[d] = pc[d] /\ args'[d] = args[d]
        /\ target'[d] = target[d] /\ answer'[d] = answer[d]
        /\ result'[d] = result[d] /\ effects'[d] = effects[d]
    BY <1>0 DEF SidecarStep, TypeOK
  <2> QED
    BY <2>1, CallRests DEF WInv
<1>4. CrashInv'
  <2>1. \A app \in crashed' : app \in crashed \/
          (app = target[c].client /\ args[c].op \in ReadOps)
    BY <1>0 DEF SidecarStep
  <2>2. \A d \in Call, app \in App : Named(d, app) => Named(d, app)'
    BY <1>0 DEF SidecarStep, Named
  <2>3. Routed(c) /\ target[c].client \in App /\ Named(c, target[c].client)
    BY <1>0, RoutedIsNamed DEF CallInv, SidecarStep
  <2>4. pc'[c] # "idle" /\ (\A d \in Call : pc[d] # "idle" => pc'[d] # "idle") /\ args' = args
    BY <1>0 DEF SidecarStep, TypeOK
  <2>5. crashed \subseteq App
    BY <1>0 DEF TypeOK
  <2> QED
    BY <1>0, <2>1, <2>2, <2>3, <2>4, <2>5 DEF CrashInv
<1>5. TypeOK'
  <2>1. target[c].client \in App
    BY <1>0, RoutedIsNamed DEF CallInv, SidecarStep
  <2> QED
    BY <1>0, <2>1 DEF SidecarStep, TypeOK
<1> QED
  BY <1>1, <1>2, <1>3, <1>4, <1>5 DEF WInv

-----------------------------------------------------------------------------
(* Theorems.                                                               *)

LEMMA NextInv == WInv /\ [Next]_vars => WInv'
<1> SUFFICES ASSUME WInv, [Next]_vars PROVE WInv'
  OBVIOUS
<1>1. ASSUME NEW c \in Call, NEW a \in Arguments, Invoke(c, a) PROVE WInv'
  BY <1>1, InvokePreserves
<1>2. ASSUME NEW c \in Call, Sidecar(c) \/ Return(c) PROVE WInv'
  BY <1>2, SidecarPreserves, ReturnPreserves
<1>3. ASSUME NEW app \in App, NEW i \in Instance, Complete(app, i) PROVE WInv'
  BY <1>3, CompletePreserves
<1>4. CASE UNCHANGED vars
  <2>1. TypeOK' /\ RegistryInv'
    BY <1>4 DEF WInv, TypeOK, RegistryInv, vars
  <2>2. (\A c \in Call : CallInv(c)') /\ CrashInv'
    BY <1>4, CallRests, CrashRests DEF WInv, vars
  <2> QED
    BY <2>1, <2>2 DEF WInv
<1> QED
  BY <1>1, <1>2, <1>3, <1>4 DEF Next, Quiesce

\* In every behaviour each request stands for the arguments it came from.
THEOREM Invariance == Spec => []WInv
<1>1. Init => WInv
  BY InitInv
<1>2. WInv /\ [Next]_vars => WInv'
  BY NextInv
<1> QED
  BY <1>1, <1>2, PTL DEF Spec

\* Every reachable state is well typed.
THEOREM TypeCorrect == Spec => []TypeOK
<1>1. WInv => TypeOK
  BY DEF WInv
<1> QED
  BY <1>1, Invariance, PTL

\* No call, whatever app-id it passes or omits and however the registry was
\* built, changes or takes down a sidecar that its caller did not name
\* (registry.go:79-101).
THEOREM OnlyNamedSidecars == Spec => []OnlyTheNamedSidecar
<1>1. WInv => OnlyTheNamedSidecar
  <2> SUFFICES ASSUME WInv PROVE OnlyTheNamedSidecar
    OBVIOUS
  <2>1. ASSUME NEW c \in Call, NEW n \in DOMAIN effects[c]
        PROVE  Named(c, effects[c][n].app)
    <3>1. effects[c] = <<Effect(c)>> /\ Routed(c)
      BY <2>1 DEF WInv, CallInv
    <3>2. effects[c][n].app = target[c].client
      BY <2>1, <3>1 DEF Effect
    <3> QED
      BY <3>1, <3>2, RoutedIsNamed DEF WInv
  <2>2. \A app \in crashed : \E c \in Call : args[c].op \in ReadOps /\ Named(c, app)
    BY DEF WInv, CrashInv
  <2> QED
    BY <2>1, <2>2 DEF OnlyTheNamedSidecar
<1> QED
  BY <1>1, Invariance, PTL

\* No handler sends its request twice, and reads change nothing.
THEOREM AtMostOnce == Spec => []AtMostOneEffect
<1>1. WInv => AtMostOneEffect
  <2> SUFFICES ASSUME WInv, NEW c \in Call
               PROVE  Len(effects[c]) <= (IF args[c].op \in ReadOps THEN 0 ELSE 1)
    BY DEF AtMostOneEffect
  <2>1. effects[c] = <<>> \/ (effects[c] = <<Effect(c)>> /\ args[c].op \notin ReadOps)
    BY DEF WInv, CallInv
  <2>2. CASE effects[c] = <<>>
    <3>1. Len(effects[c]) = 0
      BY <2>2
    <3> QED
      BY <3>1
  <2>3. CASE effects[c] = <<Effect(c)>> /\ args[c].op \notin ReadOps
    <3>1. Len(effects[c]) = 1
      BY <2>3
    <3> QED
      BY <2>3, <3>1
  <2> QED
    BY <2>1, <2>2, <2>3
<1> QED
  BY <1>1, Invariance, PTL

\* Success is reported only of what was done, under the app-id of the app that
\* did it.
THEOREM SuccessMeansDone == Spec => []SuccessIsTrue
<1>1. WInv => SuccessIsTrue
  <2> SUFFICES ASSUME WInv, NEW c \in Call, result[c] = "success",
                      args[c].op \notin ReadOps
               PROVE  \E n \in DOMAIN effects[c] :
                        LET app == effects[c][n].app IN
                        target[c].appID \in {app} \cup
                          (IF app = Own THEN {reg.defaultAppID} ELSE {})
    BY DEF SuccessIsTrue
  <2>1. effects[c] = <<Effect(c)>> /\ Routed(c)
    BY DEF WInv, CallInv
  <2>2. 1 \in DOMAIN effects[c] /\ effects[c][1].app = target[c].client
    BY <2>1 DEF Effect
  <2> QED
    BY <2>1, <2>2, RoutedIsNamed DEF WInv
<1> QED
  BY <1>1, Invariance, PTL

\* The event that a rerun starts from is the one its caller named, for every
\* 64-bit argument and every width: what does not fit never leaves the server
\* (tools.go:304-321).
THEOREM RerunIsExact == Spec => []RerunEventExact
<1>1. WInv => RerunEventExact
  <2> SUFFICES ASSUME WInv, NEW c \in Call, NEW n \in DOMAIN effects[c]
               PROVE  effects[c][n].event = args[c].event
    BY DEF RerunEventExact
  <2>1. effects[c] = <<Effect(c)>> /\ Routed(c)
    BY DEF WInv, CallInv
  <2>2. effects[c][n].event = Uint32(args[c].event)
    BY <2>1 DEF Effect
  <2>3. args[c].event \in Int /\ EventInRange(args[c].event)
    BY <2>1, ArgumentFields, ToolsAssumption DEF Routed, EventInRange
  <2> QED
    BY <2>2, <2>3, Uint32Exact
<1> QED
  BY <1>1, Invariance, PTL
=============================================================================
