---------------------------- MODULE WorkflowTools ----------------------------
(***************************************************************************)
(* The per-instance workflow tools (pkg/workflow/tools.go): start, status, *)
(* history, rerun, pause, resume, terminate, raise event and purge.  Each  *)
(* call checks its arguments, resolves its app-id to one client, sends one *)
(* request to that sidecar and reports the outcome.  Calls run in          *)
(* goroutines of their own and share nothing but the sidecars; a request   *)
(* or its answer may be lost.                                              *)
(*                                                                         *)
(* The workflow engines are external.  Each app has instances of its own;  *)
(* a status or history request for an instance that the sidecar's app does *)
(* not own may crash that sidecar (dapr/dapr#10217, quoted at              *)
(* registry.go:79-86).                                                     *)
(***************************************************************************)
EXTENDS WorkflowRegistry, Integers

CONSTANTS
  Call,          \* calls of the tools
  App,           \* the workflow apps that run, by app-id
  Pools,         \* the sets of apps the operator may configure
  Resolutions,   \* whether the startup metadata call may succeed or fail
  Asked,         \* the appID arguments that clients pass, NoApp for none
  Instance,      \* instance IDs, the same for every app
  NoInstance,    \* an omitted instance ID
  MaxEvent,      \* math.MaxUint32, scaled
  EventIDs       \* the event IDs, 64-bit integers, that clients pass

ReadOps  == {"status", "history"}
StateOps == {"pause", "resume", "terminate", "raise", "purge"}
Ops      == ReadOps \cup StateOps \cup {"start", "rerun"}
Status   == {"absent", "RUNNING", "SUSPENDED", "COMPLETED", "TERMINATED"}

\* The arguments of a tool: instance is the one named, newInstance the ID asked
\* for a rerun, badTime whether start_workflow got a start time not in RFC 3339.
Arguments ==
  [op : Ops, app : Asked, instance : Instance,
   newInstance : {NoInstance}, event : {0}, badTime : {FALSE}]
    \cup
  [op : {"start"}, app : Asked, instance : Instance \cup {NoInstance},
   newInstance : {NoInstance}, event : {0}, badTime : BOOLEAN]
    \cup
  [op : {"rerun"}, app : Asked, instance : Instance,
   newInstance : Instance \cup {NoInstance}, event : EventIDs, badTime : {FALSE}]

ASSUME ToolsAssumption ==
  /\ App \subseteq Nat /\ Own \in App
  /\ Fallback \notin App /\ Asked \subseteq Nat \cup {NoApp}
  /\ Pools \subseteq SUBSET App
  /\ Resolutions \subseteq BOOLEAN
  /\ NoInstance \notin Instance
  /\ MaxEvent \in Nat /\ EventIDs \subseteq Int

VARIABLES
  reg,       \* the registry, fixed when the server starts
  engine,    \* the status of each instance of each app
  crashed,   \* apps whose sidecar went down
  pc,        \* "idle", "sent", "answered" or "done"
  args,      \* the arguments of each call
  target,    \* the client and label that clientFor returned
  answer,    \* "none", "ok" or "error": what the client library returned
  result,    \* "none", "success" or "error"
  effects    \* what each call did to the engines, in order

vars == <<reg, engine, crashed, pc, args, target, answer, result, effects>>

\* Before a call.
NoArgs == [op |-> "none", app |-> NoApp, instance |-> NoInstance,
           newInstance |-> NoInstance, event |-> 0, badTime |-> FALSE]
NoTarget == [appID |-> NoApp, client |-> NoApp]

Init ==
  /\ \E resolved \in Resolutions, pool \in Pools :
        reg = NewRegistry(Own, ServerAppID(resolved), [a \in pool |-> a])
  /\ engine \in [App -> [Instance -> {"absent", "COMPLETED"}]]
  /\ crashed = {}
  /\ pc = [c \in Call |-> "idle"]
  /\ args = [c \in Call |-> NoArgs]
  /\ target = [c \in Call |-> NoTarget]
  /\ answer = [c \in Call |-> "none"]
  /\ result = [c \in Call |-> "none"]
  /\ effects = [c \in Call |-> <<>>]

-----------------------------------------------------------------------------
(* The handlers.                                                           *)

\* The event ID as the wire carries it: uint32(args.EventID).
Uint32(n) == n % (MaxEvent + 1)

\* Mistake: the largest event ID is checked one too high.
EventInRangeLoose(n) == 0 <= n /\ n <= MaxEvent + 1

EventInRange(n) == 0 <= n /\ n <= MaxEvent

\* rerun_workflow checks its event ID before it resolves the app-id.
\* start_workflow parses its start time after, and before it sends anything.
Acceptable(a) ==
  /\ a.op = "rerun" => EventInRange(a.event)
  /\ Resolves(reg, a.app)
  /\ ~a.badTime

Invoke(c, a) ==
  /\ pc[c] = "idle"
  /\ args' = [args EXCEPT ![c] = a]
  /\ \/ /\ Acceptable(a)
        /\ target' = [target EXCEPT ![c] = ClientFor(reg, a.app)]
        /\ pc' = [pc EXCEPT ![c] = "sent"]
        /\ UNCHANGED result
     \/ /\ ~Acceptable(a)
        /\ pc' = [pc EXCEPT ![c] = "done"]
        /\ result' = [result EXCEPT ![c] = "error"]
        /\ UNCHANGED target
  /\ UNCHANGED <<reg, engine, crashed, answer, effects>>

\* Mistake: a request that failed is sent again.
ReturnRetrying(c) ==
  /\ pc[c] = "answered"
  /\ \/ /\ answer[c] = "ok"
        /\ pc' = [pc EXCEPT ![c] = "done"]
        /\ result' = [result EXCEPT ![c] = "success"]
     \/ /\ answer[c] = "error"
        /\ pc' = [pc EXCEPT ![c] = "sent"]
        /\ UNCHANGED result
  /\ UNCHANGED <<reg, engine, crashed, args, target, answer, effects>>

\* Mistake: an error of the client library is not looked at.
ReturnBlindly(c) ==
  /\ pc[c] = "answered"
  /\ pc' = [pc EXCEPT ![c] = "done"]
  /\ result' = [result EXCEPT ![c] = "success"]
  /\ UNCHANGED <<reg, engine, crashed, args, target, answer, effects>>

\* The handler turns the client library's answer into the tool's result.
Return(c) ==
  /\ pc[c] = "answered"
  /\ pc' = [pc EXCEPT ![c] = "done"]
  /\ result' = [result EXCEPT ![c] = IF answer[c] = "ok" THEN "success" ELSE "error"]
  /\ UNCHANGED <<reg, engine, crashed, args, target, answer, effects>>

-----------------------------------------------------------------------------
(* The sidecar that a call reached (external).                             *)

Active == {"RUNNING", "SUSPENDED"}

\* The instances a request may create: the one asked for, or any unused one.
Fresh(app, asked) ==
  IF asked = NoInstance
  THEN {i \in Instance : engine[app][i] = "absent"}
  ELSE {i \in {asked} : engine[app][i] \notin Active}

\* The status an accepted operation leaves behind.
After(op, status) ==
  CASE op = "pause" /\ status = "RUNNING"        -> "SUSPENDED"
    [] op = "resume" /\ status = "SUSPENDED"     -> "RUNNING"
    [] op = "terminate" /\ status \in Active     -> "TERMINATED"
    [] op = "purge"                              -> "absent"
    [] OTHER                                     -> status

Answer(c, what) ==
  /\ pc[c] = "sent"
  /\ target[c].client \notin crashed
  /\ pc' = [pc EXCEPT ![c] = "answered"]
  /\ answer' = [answer EXCEPT ![c] = what]
  /\ UNCHANGED <<reg, args, target, result>>

Record(c) ==
  effects' = [effects EXCEPT ![c] =
                Append(@, [app |-> target[c].client, event |-> Uint32(args[c].event)])]

Creates(c) ==
  LET app == target[c].client
      asked == IF args[c].op = "start" THEN args[c].instance ELSE args[c].newInstance IN
  /\ args[c].op \in {"start", "rerun"}
  /\ args[c].op = "rerun" => engine[app][args[c].instance] \in {"COMPLETED", "TERMINATED"}
  /\ \E i \in Fresh(app, asked) : engine' = [engine EXCEPT ![app][i] = "RUNNING"]
  /\ Record(c)
  /\ UNCHANGED crashed

Changes(c) ==
  LET app == target[c].client
      old == engine[app][args[c].instance] IN
  /\ args[c].op \in StateOps
  /\ old # "absent"
  /\ args[c].op = "purge" => old \notin Active
  /\ engine' = [engine EXCEPT ![app][args[c].instance] = After(args[c].op, old)]
  /\ Record(c)
  /\ UNCHANGED crashed

Reads(c) ==
  /\ args[c].op \in ReadOps
  /\ engine[target[c].client][args[c].instance] # "absent"
  /\ UNCHANGED <<engine, crashed, effects>>

Serve(c) == Answer(c, "ok") /\ (Creates(c) \/ Changes(c) \/ Reads(c))

\* The sidecar refuses, the request is lost, or its answer is.
ServeUnheard(c) == Answer(c, "error") /\ (Creates(c) \/ Changes(c) \/ Reads(c))

Refuse(c) == Answer(c, "error") /\ UNCHANGED <<engine, crashed, effects>>

\* A read of an instance the app does not own takes the sidecar down.
Crash(c) ==
  /\ Answer(c, "error")
  /\ args[c].op \in ReadOps
  /\ engine[target[c].client][args[c].instance] = "absent"
  /\ crashed' = crashed \cup {target[c].client}
  /\ UNCHANGED <<engine, effects>>

\* A request to a sidecar that is down fails.
Unreachable(c) ==
  /\ pc[c] = "sent"
  /\ target[c].client \in crashed
  /\ pc' = [pc EXCEPT ![c] = "answered"]
  /\ answer' = [answer EXCEPT ![c] = "error"]
  /\ UNCHANGED <<reg, engine, crashed, args, target, result, effects>>

\* An instance runs to its end.
Complete(app, i) ==
  /\ engine[app][i] = "RUNNING"
  /\ engine' = [engine EXCEPT ![app][i] = "COMPLETED"]
  /\ UNCHANGED <<reg, crashed, pc, args, target, answer, result, effects>>

Sidecar(c) ==
  Serve(c) \/ ServeUnheard(c) \/ Refuse(c) \/ Crash(c) \/ Unreachable(c)

Quiesce == (\A c \in Call : pc[c] = "done") /\ UNCHANGED vars

Next ==
  \/ \E c \in Call, a \in Arguments : Invoke(c, a)
  \/ \E c \in Call : Sidecar(c) \/ Return(c)
  \/ \E app \in App, i \in Instance : Complete(app, i)
  \/ Quiesce

Spec == Init /\ [][Next]_vars

-----------------------------------------------------------------------------
(* Properties.                                                             *)

TypeOK ==
  /\ reg.defaultClient = Own /\ reg.defaultAppID \in {Own, Fallback}
  /\ DOMAIN reg.byAppID \in Pools
  /\ engine \in [App -> [Instance -> Status]]
  /\ crashed \subseteq App
  /\ pc \in [Call -> {"idle", "sent", "answered", "done"}]
  /\ args \in [Call -> Arguments \cup {NoArgs}]
  /\ target \in [Call -> [appID : Nat \cup {NoApp}, client : App \cup {NoApp}]]
  /\ \A c \in Call : pc[c] \in {"sent", "answered"} => target[c].client \in App
  /\ answer \in [Call -> {"none", "ok", "error"}]
  /\ result \in [Call -> {"none", "success", "error"}]
  /\ effects \in [Call -> Seq([app : App, event : 0 .. MaxEvent])]

\* The caller named this app, by its app-id, by the label of the server's own,
\* or by no app-id when it is the only one.
Named(c, app) ==
  \/ args[c].app = app /\ (app \in DOMAIN reg.byAppID \/ app = reg.defaultAppID)
  \/ app = reg.defaultClient /\ args[c].app = reg.defaultAppID
  \/ app = reg.defaultClient /\ args[c].app = NoApp /\ ~MultiApp(reg)

\* No call reaches a sidecar that its caller did not name, for good or ill: all
\* it changed is there, and a sidecar that went down was named by a reader.
\* (docs/specs/2026-07-14-multi-app-workflows.md:69-78: a request for an
\* instance of another app can take a sidecar down, so nothing may guess.)
OnlyTheNamedSidecar ==
  /\ \A c \in Call : \A n \in DOMAIN effects[c] : Named(c, effects[c][n].app)
  /\ \A app \in crashed : \E c \in Call : args[c].op \in ReadOps /\ Named(c, app)

\* A call has one effect at most, whatever is lost on the way, and a read none:
\* no handler sends its request twice.
AtMostOneEffect ==
  \A c \in Call : Len(effects[c]) <= (IF args[c].op \in ReadOps THEN 0 ELSE 1)

\* A tool that reports success was obeyed, by the app that its answer names.
SuccessIsTrue ==
  \A c \in Call : result[c] = "success" /\ args[c].op \notin ReadOps =>
    \E n \in DOMAIN effects[c] :
      LET app == effects[c][n].app IN
      target[c].appID \in {app} \cup (IF app = Own THEN {reg.defaultAppID} ELSE {})

\* A rerun starts from the very event its caller named: the conversion to 32
\* bits never wraps.
RerunEventExact ==
  \A c \in Call : \A n \in DOMAIN effects[c] : effects[c][n].event = args[c].event
=============================================================================
