---------------------------- MODULE ListWorkflows ----------------------------
(***************************************************************************)
(* The list_workflows tool (pkg/workflow/tools.go).  One call resolves its *)
(* targets, starts a goroutine per target, waits for all of them and       *)
(* merges what they wrote.  Each goroutine lists one page of instance IDs  *)
(* and then fetches the metadata of each ID by a call of its own, while    *)
(* the workflow engines behind the sidecars go on creating, finishing and  *)
(* purging instances and any call to a sidecar may fail.                   *)
(*                                                                         *)
(* The engines are external: ListInstanceIDs returns a page of the IDs     *)
(* above the token in order and a token when IDs remain, and               *)
(* FetchWorkflowMetadata fails for an instance that is gone.               *)
(***************************************************************************)
EXTENDS WorkflowRegistry, FiniteSetsExt, SequencesExt

CONSTANTS
  App,           \* the workflow apps that run, by app-id
  Pools,         \* the sets of apps the operator may configure
  Resolutions,   \* whether the startup metadata call may succeed or fail
  Unknown,       \* an app-id nobody has
  MaxInstance,   \* bound: instance IDs per app
  Beginnings,    \* what the engines may hold when the server starts
  Limits,        \* limit arguments that clients pass
  DefaultLimit,  \* defaultListLimit
  MaxLimit,      \* maxListLimit
  MaxCalls,      \* bound: calls of the tool
  MaxChanges     \* bound: changes in the engines

Instance == 1 .. MaxInstance
NoToken  == 0
Status   == {"RUNNING", "COMPLETED"}

ASSUME ListAssumption ==
  /\ App \subseteq Nat /\ IsFiniteSet(App) /\ Own \in App /\ Fallback \notin App
  /\ Unknown \in Nat \ (App \cup {Fallback})
  /\ Pools \subseteq SUBSET App
  /\ Resolutions \subseteq BOOLEAN
  /\ Beginnings \subseteq [App -> [Instance -> Status \cup {"absent"}]]
  /\ MaxInstance \in Nat /\ DefaultLimit \in Nat \ {0} /\ MaxLimit \in Nat \ {0}
  /\ Limits \subseteq Int /\ MaxCalls \in Nat /\ MaxChanges \in Nat

VARIABLES
  reg,       \* the registry, fixed when the server starts
  engine,    \* the status of each instance of each app, or "absent"
  changes,   \* number of changes in the engines
  pc,        \* "idle", "collect" or "done"
  calls,     \* number of calls so far
  args,      \* the arguments of the call
  targets,   \* its targets
  place,     \* where the goroutine of each target stands
  ids,       \* the instance IDs it has still to fetch
  listings,  \* the listing of each target
  result,    \* the result of the call
  held,      \* statuses each instance had since the call began
  steady     \* instances that existed all the time since the call began

world == <<engine, changes>>
ghost == <<held, steady>>
call  == <<args, targets>>
tasks == <<place, ids, listings>>
vars  == <<reg, world, pc, calls, call, tasks, result, ghost>>

NoListing == [instances |-> <<>>, token |-> NoToken, skipped |-> 0, failed |-> FALSE]
Failure   == [ok |-> FALSE, instances |-> <<>>, counts |-> <<>>, tokens |-> <<>>,
              failed |-> {}, partial |-> {}]

Init ==
  /\ \E resolved \in Resolutions, pool \in Pools :
        reg = NewRegistry(Own, ServerAppID(resolved), [a \in pool |-> a])
  /\ engine \in Beginnings
  /\ changes = 0
  /\ pc = "idle"
  /\ calls = 0
  /\ args = [app |-> NoApp, token |-> NoToken, limit |-> 0]
  /\ targets = <<>>
  /\ place = <<>>
  /\ ids = <<>>
  /\ listings = <<>>
  /\ result = Failure
  /\ held = [a \in App |-> [i \in Instance |-> {}]]
  /\ steady = [a \in App |-> {}]

-----------------------------------------------------------------------------
(* The workflow engines.                                                   *)

Change(app, id, from, to) ==
  /\ changes < MaxChanges
  /\ engine[app][id] = from
  /\ changes' = changes + 1
  /\ engine' = [engine EXCEPT ![app][id] = to]
  /\ held' = [held EXCEPT ![app][id] = @ \cup ({to} \ {"absent"})]
  /\ steady' = [steady EXCEPT ![app] = IF to = "absent" THEN @ \ {id} ELSE @]
  /\ UNCHANGED <<reg, pc, calls, call, tasks, result>>

Create(app, id)   == Change(app, id, "absent", "RUNNING")
Complete(app, id) == Change(app, id, "RUNNING", "COMPLETED")
Purge(app, id)    == Change(app, id, "COMPLETED", "absent")

Alive(app) == {id \in Instance : engine[app][id] # "absent"}

\* The page of a ListInstanceIDs request and the token that comes with it.
Page(app, size, token) ==
  LET rest == {id \in Alive(app) : id > token}
      page == {id \in rest : Cardinality({j \in rest : j <= id}) <= size}
  IN  [ids   |-> Sorted(page),
       token |-> IF page = rest \/ page = {} THEN NoToken ELSE Max(page)]

-----------------------------------------------------------------------------
(* The call.                                                               *)

\* The page size: the limit, its default when it is not positive, capped.
PageSize(limit) ==
  IF limit > MaxLimit THEN MaxLimit ELSE IF limit > 0 THEN limit ELSE DefaultLimit

FanOut == args.app = NoApp /\ MultiApp(reg)

Start(ts) ==
  /\ pc' = "collect"
  /\ targets' = ts
  /\ place' = [i \in DOMAIN ts |-> "list"]
  /\ ids' = [i \in DOMAIN ts |-> <<>>]
  /\ listings' = [i \in DOMAIN ts |-> NoListing]

Reject ==
  /\ pc' = "done"
  /\ targets' = <<>>
  /\ place' = <<>>
  /\ ids' = <<>>
  /\ listings' = <<>>

\* A client calls the tool, perhaps with a token that an earlier call gave it.
Invoke(app, token, limit) ==
  /\ pc # "collect"
  /\ calls < MaxCalls
  /\ calls' = calls + 1
  /\ args' = [app |-> app, token |-> token, limit |-> limit]
  /\ result' = Failure
  /\ UNCHANGED <<reg, world>>
  /\ held' = [a \in App |-> [i \in Instance |-> {engine[a][i]} \ {"absent"}]]
  /\ steady' = [a \in App |-> Alive(a)]
  /\ \/ FanOut' /\ token # NoToken /\ Reject
     \/ FanOut' /\ token = NoToken /\ Start(Targets(reg))
     \/ ~FanOut' /\ ~Resolves(reg, app) /\ Reject
     \/ ~FanOut' /\ Resolves(reg, app) /\ Start(<<ClientFor(reg, app)>>)

-----------------------------------------------------------------------------
(* listApp, in the goroutine of target i.                                  *)

\* Mistake: a goroutine whose listing failed does not call wg.Done.
ListFailsSilently(i) ==
  /\ place[i] = "list"
  /\ listings' = [listings EXCEPT ![i].failed = TRUE]
  /\ place' = [place EXCEPT ![i] = "stuck"]
  /\ UNCHANGED ids

ListFails(i) ==
  /\ place[i] = "list"
  /\ listings' = [listings EXCEPT ![i].failed = TRUE]
  /\ place' = [place EXCEPT ![i] = "written"]
  /\ UNCHANGED ids

ListSucceeds(i) ==
  LET page == Page(targets[i].client, PageSize(args.limit), args.token) IN
  /\ place[i] = "list"
  /\ ids' = [ids EXCEPT ![i] = page.ids]
  /\ listings' = [listings EXCEPT ![i].token = page.token]
  /\ place' = [place EXCEPT ![i] = "fetch"]

FetchFails(i) ==
  /\ place[i] = "fetch" /\ ids[i] # <<>>
  /\ listings' = [listings EXCEPT ![i].skipped = @ + 1]
  /\ ids' = [ids EXCEPT ![i] = Tail(@)]
  /\ UNCHANGED place

\* Mistake: the status is assumed to be the one of a fresh instance.
SummaryAssumed(i) ==
  [app |-> targets[i].appID, id |-> Head(ids[i]), status |-> "RUNNING"]

Summary(i) ==
  [app |-> targets[i].appID, id |-> Head(ids[i]),
   status |-> engine[targets[i].client][Head(ids[i])]]

FetchSucceeds(i) ==
  /\ place[i] = "fetch" /\ ids[i] # <<>>
  /\ Head(ids[i]) \in Alive(targets[i].client)
  /\ listings' = [listings EXCEPT ![i].instances = Append(@, Summary(i))]
  /\ ids' = [ids EXCEPT ![i] = Tail(@)]
  /\ UNCHANGED place

\* The goroutine stores its listing and calls wg.Done.
Write(i) ==
  /\ place[i] = "fetch" /\ ids[i] = <<>>
  /\ place' = [place EXCEPT ![i] = "written"]
  /\ UNCHANGED <<ids, listings>>

Task(i) ==
  /\ pc = "collect"
  /\ ListFails(i) \/ ListSucceeds(i) \/ FetchFails(i) \/ FetchSucceeds(i) \/ Write(i)
  /\ UNCHANGED <<reg, world, pc, calls, call, result, ghost>>

-----------------------------------------------------------------------------
(* After wg.Wait: the merge.                                               *)

Label(i) == targets[i].appID
Failed   == {i \in DOMAIN targets : listings[i].failed}

\* Mistake: the merge leaves its loop at the first app whose listing failed.
ListedUntilFailure == {i \in DOMAIN targets : \A j \in 1 .. i : ~listings[j].failed}

Listed == {i \in DOMAIN targets : ~listings[i].failed}

\* Mistake: one continuation token for the whole answer, the first app's.
ContinuedFirst == {i \in Listed : i = 1 /\ listings[i].token # NoToken}

Continued == {i \in Listed : listings[i].token # NoToken}

\* The target in S that an app-id labels.
TargetOf(a, S) == CHOOSE i \in S : Label(i) = a

\* The instances that a target contributes to the answer.
Contribution(i) == IF i \in Listed THEN listings[i].instances ELSE <<>>

\* Instances in the order of the targets, counts and tokens of the apps whose
\* listing succeeded, a warning for those that failed or skipped instances.
\* (The counts per workflow and per status tally the same instances.)
Merge ==
  [ok        |-> TRUE,
   instances |-> FlattenSeq([i \in DOMAIN targets |-> Contribution(i)]),
   counts    |-> [a \in {Label(i) : i \in Listed} |->
                    Len(listings[TargetOf(a, Listed)].instances)],
   tokens    |-> [a \in {Label(i) : i \in Continued} |->
                    listings[TargetOf(a, Continued)].token],
   failed    |-> {Label(i) : i \in Failed},
   partial   |-> {Label(i) : i \in {j \in Listed : listings[j].skipped > 0}}]

Respond ==
  /\ pc = "collect"
  /\ \A i \in DOMAIN targets : place[i] = "written"
  /\ pc' = "done"
  /\ result' = IF ~FanOut /\ listings[1].failed THEN Failure ELSE Merge
  /\ place' = <<>> /\ ids' = <<>> /\ listings' = <<>>
  /\ UNCHANGED <<reg, world, calls, call, ghost>>

-----------------------------------------------------------------------------

Tokens == {NoToken} \cup {result.tokens[a] : a \in DOMAIN result.tokens}

Engines ==
  \E app \in App, id \in Instance :
    Create(app, id) \/ Complete(app, id) \/ Purge(app, id)

Client ==
  \E app \in App \cup {NoApp, Unknown}, token \in Tokens, limit \in Limits :
    Invoke(app, token, limit)

\* The client has made its calls and the engines rest.
Quiesce ==
  /\ pc = "done" /\ calls = MaxCalls /\ changes = MaxChanges
  /\ UNCHANGED vars

Next ==
  \/ Engines
  \/ Client
  \/ \E i \in DOMAIN targets : Task(i)
  \/ Respond
  \/ Quiesce

Spec == Init /\ [][Next]_vars

\* Every sidecar answers or fails every request in the end, and the scheduler
\* runs every goroutine.
FairSpec ==
  /\ Spec
  /\ \A i \in 1 .. Cardinality(App) + 1 : WF_vars(i \in DOMAIN targets /\ Task(i))
  /\ WF_vars(Respond)

-----------------------------------------------------------------------------
(* Properties.                                                             *)

TypeOK ==
  /\ reg.defaultClient = Own /\ reg.defaultAppID \in App \cup {Fallback}
  /\ DOMAIN reg.byAppID \in Pools
  /\ engine \in [App -> [Instance -> Status \cup {"absent"}]]
  /\ changes \in 0 .. MaxChanges
  /\ pc \in {"idle", "collect", "done"}
  /\ calls \in 0 .. MaxCalls
  /\ args.app \in App \cup {NoApp, Unknown} /\ args.token \in Instance \cup {NoToken}
  /\ args.limit \in Limits \cup {0}
  /\ \A i \in DOMAIN targets : targets[i].client \in App
  /\ place \in [DOMAIN place -> {"list", "fetch", "written"}]
  /\ \A i \in DOMAIN place : /\ ToSet(ids[i]) \subseteq Instance
                              /\ listings[i].token \in Instance \cup {NoToken}
                              /\ listings[i].skipped \in 0 .. MaxInstance
  /\ held \in [App -> [Instance -> SUBSET Status]]
  /\ steady \in [App -> SUBSET Instance]

Answered == pc = "done" /\ result.ok

\* The sidecars a call is about: every connected one, or the one it names.
Covered ==
  IF FanOut THEN {reg.defaultClient} \cup {reg.byAppID[a] : a \in DOMAIN reg.byAppID}
  ELSE {ClientFor(reg, args.app).client}

Shown(a, id) ==
  \E k \in DOMAIN result.instances :
    result.instances[k].app = a /\ result.instances[k].id = id

\* list_workflows never loses an instance silently: one that existed from the
\* beginning of the call to its end, in any app the call covers, is in the
\* answer, or behind that app's continuation token, or its app has a warning.
NothingSilentlyMissing ==
  Answered => \A app \in Covered : \A id \in steady[app] : id > args.token =>
    \E i \in DOMAIN targets :
      /\ targets[i].client = app
      /\ \/ Shown(Label(i), id)
         \/ Label(i) \in result.failed \cup result.partial
         \/ Label(i) \in DOMAIN result.tokens /\ id > result.tokens[Label(i)]

\* Every status in the answer is one that this instance of this app had at some
\* moment of the call, although IDs and metadata are read at different times.
NoPhantom ==
  Answered => \A k \in DOMAIN result.instances : \E i \in DOMAIN targets :
    /\ Label(i) = result.instances[k].app
    /\ result.instances[k].status \in held[targets[i].client][result.instances[k].id]

\* The answer adds up: each target is counted or reported as failed, never both,
\* every instance shown is in the count of its app, which counts nothing else,
\* and no instance is shown twice.
AccountsBalance ==
  Answered =>
    /\ DOMAIN result.counts \cup result.failed = {Label(i) : i \in DOMAIN targets}
    /\ DOMAIN result.counts \cap result.failed = {}
    /\ result.partial \cup DOMAIN result.tokens \subseteq DOMAIN result.counts
    /\ \A k \in DOMAIN result.instances : result.instances[k].app \in DOMAIN result.counts
    /\ \A a \in DOMAIN result.counts :
         result.counts[a] =
           Cardinality({k \in DOMAIN result.instances : result.instances[k].app = a})
    /\ \A j, k \in DOMAIN result.instances : j # k =>
         \/ result.instances[j].app # result.instances[k].app
         \/ result.instances[j].id # result.instances[k].id

\* registry.go:60-62, "A pool entry for the server's own app-id replaces the
\* default client so the same app is never listed twice."
NoAppListedTwice ==
  \A i, j \in DOMAIN targets : i # j => targets[i].client # targets[j].client

\* Every call is answered, whatever fails: wg.Wait waits for no goroutine that
\* has returned.
CallReturns == pc = "collect" ~> pc = "done"

-----------------------------------------------------------------------------
(* The inductive invariant.                                                *)

\* The registry never changes; an app is reached at its own sidecar.
RegInv ==
  /\ reg.defaultClient = Own /\ reg.defaultAppID \in {Own, Fallback}
  /\ DOMAIN reg.byAppID \in Pools
  /\ \A a \in DOMAIN reg.byAppID : reg.byAppID[a] = a

\* What the call asks for.
Asked == IF FanOut THEN Targets(reg) ELSE <<ClientFor(reg, args.app)>>

TargetsInv ==
  /\ targets \in {<<>>, Asked}
  /\ pc = "collect" \/ result.ok => targets = Asked

\* What the call knows of the engines: what is steady is there, and a status
\* that an instance has counts for the call.
EngineInv ==
  \A a \in App :
    /\ steady[a] \subseteq Alive(a)
    /\ pc = "collect" => \A id \in Alive(a) : engine[a][id] \in held[a][id]

Found   == [app : Nat, id : Instance, status : Status]
Listing == [instances : Seq(Found), token : Instance \cup {NoToken},
            skipped : Nat, failed : BOOLEAN]

\* A goroutine works off the IDs of its page, each once.
TaskOK(i) ==
  /\ place[i] \in {"list", "fetch", "written"}
  /\ ids[i] \in Seq(Instance)
  /\ \A m, n \in DOMAIN ids[i] : m # n => ids[i][m] # ids[i][n]
  /\ place[i] # "fetch" => ids[i] = <<>>
  /\ listings[i] \in Listing
  /\ listings[i].skipped + Len(ids[i]) <= MaxInstance
  /\ place[i] = "list" => listings[i] = NoListing
  /\ place[i] = "fetch" => ~listings[i].failed

\* What it has fetched is labelled with its app, was true of an instance of its
\* app, and is not fetched again.
FetchedOK(i) ==
  LET fetched == listings[i].instances IN
  \A n \in DOMAIN fetched :
    /\ fetched[n].app = Label(i)
    /\ fetched[n].status \in held[targets[i].client][fetched[n].id]
    /\ \A m \in DOMAIN ids[i] : ids[i][m] # fetched[n].id
    /\ \A m \in DOMAIN fetched : m # n => fetched[m].id # fetched[n].id

\* Where a steady instance of its app is to be found once the IDs are listed.
CoverOK(i) ==
  place[i] # "list" /\ ~listings[i].failed =>
    \A id \in steady[targets[i].client] : id > args.token =>
      \/ \E m \in DOMAIN ids[i] : ids[i][m] = id
      \/ \E n \in DOMAIN listings[i].instances : listings[i].instances[n].id = id
      \/ listings[i].skipped > 0
      \/ listings[i].token # NoToken /\ id > listings[i].token

TasksInv ==
  /\ DOMAIN ids = DOMAIN place /\ DOMAIN listings = DOMAIN place
  /\ DOMAIN place = IF pc = "collect" THEN DOMAIN targets ELSE {}
  /\ \A i \in DOMAIN place : TaskOK(i) /\ FetchedOK(i) /\ CoverOK(i)

\* An answer is about instances, and a token in it is an instance ID.
AnswerInv ==
  /\ \A k \in DOMAIN result.instances : result.instances[k].id \in Instance
  /\ \A a \in DOMAIN result.tokens : result.tokens[a] \in Instance

IInv ==
  /\ TypeOK /\ RegInv /\ TargetsInv /\ EngineInv /\ TasksInv /\ AnswerInv
  /\ NothingSilentlyMissing /\ NoPhantom /\ AccountsBalance
=============================================================================
