-------------------------- MODULE WorkflowRegistry --------------------------
(***************************************************************************)
(* How a workflow tool finds the sidecar to talk to (pkg/workflow,         *)
(* registry.go and config.go, and their use in main.go).  App-ids are      *)
(* natural numbers in the order in which their names sort; a client is     *)
(* named by the app whose sidecar it is connected to.                      *)
(***************************************************************************)
EXTENDS Naturals, Sequences, FiniteSets

CONSTANTS
  Own,        \* the app-id of the server's own sidecar
  Fallback,   \* fallbackAppID, the label "default"
  NoApp       \* an omitted appID argument, the empty string

ASSUME AppIDAssumption == Own \in Nat /\ Fallback \in Nat /\ NoApp \notin Nat

\* main.go asks its sidecar for the app-id once at startup; when the call
\* fails or the answer names none, the label stays "default".
ServerAppID(resolved) == IF resolved THEN Own ELSE Fallback

\* ParseAppsConfig, on the entries between commas: a blank entry is skipped, a
\* malformed one or a second one for an app is an error.
ParseAppsConfig(entries) ==
  LET pairs == {i \in DOMAIN entries : entries[i].form = "pair"} IN
  IF \/ \E i \in DOMAIN entries : entries[i].form = "malformed"
     \/ \E i, j \in pairs : i # j /\ entries[i].app = entries[j].app
  THEN [ok |-> FALSE]
  ELSE [ok |-> TRUE,
        apps |-> [a \in {entries[i].app : i \in pairs} |->
                    entries[CHOOSE i \in pairs : entries[i].app = a].addr]]

NewRegistry(client, appID, pool) ==
  [defaultClient |-> client,
   defaultAppID  |-> IF appID = NoApp THEN Fallback ELSE appID,
   byAppID       |-> pool]

MultiApp(reg) == DOMAIN reg.byAppID # {}

\* Every app-id accepted as an explicit argument.
AppIDs(reg) == {reg.defaultAppID} \cup DOMAIN reg.byAppID

\* Mistake: an omitted app-id means the default client with configured apps too.
ResolvesOmitted(reg, appID) == appID = NoApp \/ appID \in AppIDs(reg)

\* clientFor: the app-ids it resolves, and to which client.  A configured app
\* comes before the default one of the same name.
Resolves(reg, appID) == IF appID = NoApp THEN ~MultiApp(reg) ELSE appID \in AppIDs(reg)

\* Mistake: the client of the pool is taken without asking if there is one.
ClientForUnchecked(reg, appID) ==
  [appID |-> appID,
   client |-> IF appID \in DOMAIN reg.byAppID THEN reg.byAppID[appID] ELSE NoApp]

ClientFor(reg, appID) ==
  IF appID \in DOMAIN reg.byAppID
  THEN [appID |-> appID, client |-> reg.byAppID[appID]]
  ELSE [appID |-> reg.defaultAppID, client |-> reg.defaultClient]

\* The numbers of a finite set in ascending order.
Sorted(S) ==
  [n \in 1 .. Cardinality(S) |->
     CHOOSE a \in S : Cardinality({b \in S : b <= a}) = n]

\* The configured apps, sorted by app-id.
PoolTargets(reg) ==
  [n \in DOMAIN Sorted(DOMAIN reg.byAppID) |->
     ClientFor(reg, Sorted(DOMAIN reg.byAppID)[n])]

\* Mistake: the default client is listed even if the pool has its app-id.
TargetsTwice(reg) == <<ClientFor(reg, reg.defaultAppID)>> \o PoolTargets(reg)

\* targets: the default client first, unless the pool has its app-id, then the
\* configured apps in app-id order.
Targets(reg) ==
  IF reg.defaultAppID \in DOMAIN reg.byAppID
  THEN PoolTargets(reg)
  ELSE <<ClientFor(reg, reg.defaultAppID)>> \o PoolTargets(reg)
=============================================================================
