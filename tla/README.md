# Verification of dapr-mcp-server

dapr-mcp-server is an MCP server that offers the building blocks of a Dapr
sidecar (workflows, state, pub/sub, locks, ...) to an AI agent as tools. It is
one Go process: `main` connects to the sidecars, registers the tools and serves
them over stdio or HTTP, the latter behind an authentication middleware. This
directory holds TLA+ models of the parts of it where the order of events,
failures or configuration matter, the TLC runs that check them and proofs of
the most important of their properties. Paths are relative to the repository's root.

## The system

| Component | Source | State | Operations |
|---|---|---|---|
| Sentry authenticator | `pkg/auth/sentry.go` | cached JWKS and time of the last refresh, under a read-write mutex | construct, `Authenticate`, `getSigningKey`, `refreshJWKS` |
| OIDC, SPIFFE authenticators | `pkg/auth/oidc.go`, `spiffe.go` | keys, kept by go-oidc and go-spiffe | construct, `Authenticate` |
| Authentication settings | `pkg/auth/config.go` | none after start | `DefaultConfig`, `Validate` |
| Authentication middleware | `pkg/auth/middleware.go` | none; the settings and the authenticators are fixed | `Handler` |
| Workflow registry | `pkg/workflow/registry.go`, `config.go` | clients by app-id, fixed at start | `ParseAppsConfig`, `newRegistry`, `targets`, `clientFor` |
| `list_workflows` | `pkg/workflow/tools.go` | per call: one listing per target, written by its goroutine | fan out, list a page, fetch metadata, merge |
| Per-instance workflow tools | `pkg/workflow/tools.go` | none | start, status, history, rerun, pause, resume, raise event, terminate, purge |
| Server start | `cmd/dapr-mcp-server/main.go` | clients, labels, tools, authenticators | connect with retries, ask for metadata, discover, build, serve |
| Health probes | `pkg/health` | two flags, never changed by `main` | liveness, readiness (asks the sidecar), startup |
| Lock tools | `pkg/lock` | none | `acquire_lock`, `release_lock` |
| State tools | `pkg/state` | none | save, get, bulk get, delete, transaction |
| Message tools | `pkg/{pubsub,bindings,secrets,invoke,actors,conversation,crypto,metadata}` | none | one handler and one RPC per tool, eleven tools |
| Telemetry | `pkg/telemetry` | exporters | none that changes an answer |

How they interact. `main` builds everything once, in order, and shares it
read-only: the registry goes to the workflow tools, the authenticators to the
middleware. Each HTTP request and each tool call runs in a goroutine of its own.
The only memory that concurrent requests write is the Sentry authenticator's
key cache; the goroutines of one `list_workflows` call write to disjoint elements of a
slice and are joined by a wait group. What else is shared lives outside the
process: workflow engines behind sidecars, Sentry, identity providers, lock and
state stores, an LLM's conversations.

What is hard:

* Overlapping refreshes of the key cache. The mutex is released around each
  HTTP fetch, so answers are stored in any order and callers work on copies.
* A fan-out over sidecars that change, fail and are asked in two phases (IDs,
  then metadata), with pages that go on in later calls.
* Routing by app-id, where a wrong sidecar may crash, and a label that stands in
  for the app-id when the sidecar could not be asked for it.
* Requests and answers that are lost around calls that are not idempotent.
* The start: retries while sidecars come and go, a mapping that must be served
  whole or not at all, environment variables in any combination.
* Authenticators that fail one after the other while a request is under way.
* A lock whose lease runs while answers are late, and requests that arrive after
  their handler has given up on them.
* Answers that tell of a state others change meanwhile, key by key.
* Streams and conversations that fail half-way.

`PROJECT.json` lists these as hazards, each with its line and the properties
that would catch it.

### What makes each component correct

* Sentry authenticator: a retired key stops counting once the cache had to be
  refreshed; a published key is found; only overlapping fetches roll back; every call returns.
* `list_workflows`: whatever existed throughout the call is shown, behind a
  token, or warned about; what is shown was true during the call; the counts
  add up; no app twice; the answer always comes.
* Per-instance tools: a call touches the app that its caller named, at most
  once, and success is true.
* Settings and middleware: what is served was authenticated by a method that
  is turned on; what is refused is refused by all of them; every request ends.
* Probes: readiness tells of the sidecar what is so, and no outage of it takes the
  server out of service.
* Lock tools: what an agent counts on is leased to it; what it released is free.
* State tools: what is told of a key was so during the call; a write happens as
  asked, at most once, and before it is reported.
* Message tools: the caller's metadata arrives, success is true, conversations
  stay apart.
* Start: serves the whole mapping or exits; gives a sidecar up only after all
  retries; comes to an end; what listens is guarded as configured.

## The modules

```
Health  <-------+
AuthConfig <-- AuthMiddleware <-- MCAuthMiddleware
     ^                        <-- AuthMiddlewareProofs
     +------- Startup <---------- MCStartup, StartupProofs
     |
WorkflowRegistry <-- ListWorkflows <-- MCListWorkflows, ListWorkflowsProofs
                 <-- WorkflowTools <-- MCWorkflowTools, WorkflowToolsProofs
SentryJwks <-- SentryVerifier <-- MCSentryJwks, SentryProofs
TokenVerifier <== SentryVerifier
LockTools    <-- MCLockTools, LockToolsProofs
StateTools   <-- MCStateTools, StateToolsProofs
StateStore    <== StateTools
MessageTools <-- MCMessageTools, MessageToolsProofs
```

An arrow goes from a module to one that extends it, a double one to one that
instantiates it. `WorkflowRegistry` and
`AuthConfig` are operators without state: the pure functions of the code, used
by the modules that run them. Operators under a comment "Mistake:" are wrong
versions of the definition that follows them, used only by the mutants listed
in `PROJECT.json`; nothing in the specifications refers to them.

**SentryJwks.** `jwks`, `lastRefresh` are the cache, a key set being named by
the version under which Sentry published it. Each call has a `pc`, the copies
that `getSigningKey` takes (`seen`, `seenRefresh`), the fetch under way
(`sentAt`, `reply`) and a `verdict`. One action per critical section or message:
`Begin` (parse), `Snapshot` (read lock), `CheckAge`, `Send` / `Answer` /
`Install` / `FailRefresh` (`refreshJWKS`), `RereadAged`, `Lookup`,
`RereadMissed`, `Validate`. `Ctor` is the constructor, whose failed first fetch
is fatal. `Rotate` and `Answer` are Sentry, `Tick` is time. The http.Client's
`Timeout` ends a fetch: time does not pass beyond a fetch's deadline.

**TokenVerifier, SentryVerifier.** What an authenticator promises, without a
cache: a call gets one verdict, for good, and an acceptance or a missing key is
justified by key sets that were published not long before the call. `SentryVerifier`
maps SentryJwks to it: `pc` to idle, called or done, the fetches and
the cache to nothing, the two slacks to `RefreshInterval + FetchTimeout` and `FetchTimeout`.
`ImplementsVerifier` is the abstract specification under that mapping.

**WorkflowRegistry.** The mapping is a sequence of entries (a pair, a blank, a
malformed one); a client is named by the app whose sidecar it talks to, so the
model can tell which sidecar a label really stands for. `ServerAppID` is the
label, `Fallback` when `GetMetadata` failed.

**ListWorkflows.** One goroutine per target (`place`, `ids`, `listings`);
`Task` does one RPC at a time, `Respond` is the merge after `wg.Wait`. The
engines create, complete and purge instances between any two steps. `held` and
`steady` are history variables for the properties. `Tokens` makes the
continuation tokens of one call possible arguments of the next.

**WorkflowTools.** Calls pick any tool and any arguments (`Invoke`), send one
request, and return on its answer. The engine may serve a request and the
answer get lost (`ServeUnheard`), or the request (`Unreachable`). A read for an
instance that the app does not own may crash the sidecar.

**AuthConfig, AuthMiddleware, Health.** The environment and the settings are records; a path is a
sequence of pieces, a pattern a path and whether a wildcard follows. `Receive`
is everything before the loop over the authenticators, `Accept`, `Fail` and
`Exhausted` its steps. `Own` is the token that a client presents, which is not always what
`ExtractToken` makes of its headers (see `Misread`), and `failed` a history variable: the
methods whose library would not have verified that token at some moment of the request. What `oidc.go` and `spiffe.go`
ask of a verified token is `Admits`; go-oidc and go-spiffe are external, and for Sentry
see SentryJwks. `ReceiveProbe` and `Probed` are the three probes, whose answers
are the operators of Health; `SidecarDown` may come between a probe's question and
its answer, and the history variable `during` has what the sidecar was in the meantime.

**Startup.** `phase` is where `main` is; `Connected` and `AttemptFails` are the
rounds of `connectWithRetry`, the same for the own sidecar and each app's.
`Flap` is the world: sidecars and providers come and go at any time.
`LiveComponents` filters the kinds as `GetLiveComponentList` does.
A connection attempt fails just when its sidecar is down: the Dapr
client's constructors are external.

**LockTools.** One resource in an external store (`owner`, `until`). `Send` and
`Return` are the two ends of a handler, `Timeout` the five seconds of
`acquire_lock`, `Fail` any other error. A handler that gives up may leave its
request behind (`stray`), to be served later or never. `holds` is not the
program's but its client's: until when the agent may count on the lock, counted from
the answer less the deadline.

**StateTools.** `Invoke`, `Return` and the external `Read`, `Write`, `Fail`,
`WriteLate`, key by key for a read, at once for a write. `Operations` is the
loop of `execute_transaction`, `Outcome` what each handler makes of the answer,
in its text and in its structured value. `held` and `wrote` are history variables.

**StateStore.** What the tools promise, without requests and answers: a write changes the store
at one moment, whole, once at most, and before its success is told; a read tells of each key
what it held at one moment of the call; an error promises nothing. `StateTools` maps itself to it in
`Store`: `pc` to idle, open, success or error, the two faces of a result to what they tell of each key
(`Heard`), stray requests to nothing. `ImplementsStore` is `StateStore` under that mapping.

**MessageTools.** One request operator per handler (`PublishEvent` ..
`Decrypt`), which says what of the caller's arguments and of the trace context goes
along, and one outcome operator per kind of answer. A message is delivered
(`Deliver`), with an answer that may be lost or broken, or not (`Lose`). The
conversations of an LLM component are the only state that calls share.

## What the runs check

All runs take well under five minutes with two workers.

| Run | Configuration | Shows |
|---|---|---|
| `sentry_race` | two calls, one replacement of the key, interval 1, fetch 1, clock to 4 | `CacheAsOf`, `RetiredKeysExpire`, `PublishedKeyFound`, `RollbackOnlyByOverlap`, `ImplementsVerifier` |
| `sentry_tokens` | one call, every kind of token, three key sets | `CallsReturn` |
| `list_calls` | two calls, two apps, two instances each, two changes, pools {}, {2}, {1,2} | `NothingSilentlyMissing` within and across pages, `NoPhantom`, `AccountsBalance`, `NoAppListedTwice`, `CallReturns` |
| `list_unresolved` | app-id not resolved at start | a finding: `NoAppListedTwice` is violated |
| `tools_calls` | two concurrent calls, all tools and arguments, event IDs around both ends of the (scaled) 32-bit range | `OnlyTheNamedSidecar`, `AtMostOneEffect`, `SuccessIsTrue`, `RerunEventExact` |
| `auth_requests` | one request, eight environments, six paths, all headers, two tokens, one expiry or outage | `OnlyAuthenticatedAreServed`, `RefusedByAll`, `OutageOnlyDegrades`, `EveryRequestAnswered` |
| `auth_audience` | OIDC only, no outage | a finding: `VerifiedIsAccepted` is violated |
| `startup` | five mappings, twenty-two authentication environments, stdio and HTTP, five retries, two changes of the world | `ServesWholeMapping`, `AnnouncedReachAll`, `ListensGuarded`, `GivesUpAfterAllRetries`, `StartEnds` |
| `lock_leases` | two agents, four calls, leases of 2, deadline 1, clock to 5 | `CountedIsLeased`, `ReleasedIsFree`, `AcquireReturns` |
| `state_calls` | two calls, two keys, one text and the empty one, transactions of two items | `ReadsWereTrue`, `WrittenAsAsked`, `ImplementsStore` |
| `message_calls` | two calls, all eleven tools, one metadata key and the propagator's, one named conversation | `MetadataKept`, `SuccessIsTrue`, `SessionsAreSeparate` |
| `message_headers` | `invoke_service` only | a finding: `HeadersSent` is violated |

Each run but `sentry_tokens`, `message_calls` and those of findings also checks its module's
type invariant (that of MessageTools is proved instead). Every property has a mutant: a
plausible mistake in a modelled definition under which its run finds it
violated.

### The bounds, and why they are enough

* *Sentry.* The races are between two calls (one call's answer against the
  other's copy); a third adds no new pair, and the proofs cover any number.
  One replacement of a key already separates old from new; three sets cover
  the overlap and the retirement in `sentry_tokens`. `MaxClock` lets a cache
  expire more than once. `MaxVersion` and `MaxClock` bound the state only.
* *list_workflows.* Two apps give fan-out, replacement of the default client,
  and the single-app case; two instances with a page size of one or two
  give a page boundary with an instance on each side. `MaxChanges` = 2 lets
  an instance end and be purged between listing and fetch; two calls are a page
  and its continuation. `MaxLimit` = 2 stands for 500, `DefaultLimit` = 1 for
  100, and the limits 0 and 9 lie beyond both ends.
* *Workflow tools.* Two calls on one instance are all the interference there
  is, since the handlers share nothing else. `MaxEvent` = 1 scales 2^32 - 1;
  the event IDs lie inside and outside of both ends.
* *Middleware.* Requests share no memory in this module, so one request meets
  every interleaving with its environment; `MaxEvents` bounds expiries and
  outages, recoveries are free. `t1` has a list as its audience and is on
  the allowlist, `t2` is neither; servers of two trust domains.
* *Locks.* The conflict is between two agents over one lease; four calls let each
  acquire and release with a request of the first left behind. A lease of 2 is
  longer than the deadline of 1, as any useful one is, and ends within the clock.
* *State.* Two keys tell a transaction's order and a bulk read's moments; two
  calls are a reader and a writer, or two writers.
* *Messages.* Two calls share at most a conversation.
* *Start.* Five retries as in the code. `MaxFlaps` = 2 lets a sidecar fail
  and come back, during either connection, or between connecting and asking for
  the components; initially any set of sidecars is up.

### Fairness

* `SentryJwks`: each fetch ends (the client's timeout cancels it) and each
  call goes on when it can: `WF` of ending a fetch and of the call's own steps,
  per call. Nothing is assumed of Sentry's answers.
* `ListWorkflows`: `WF` per goroutine and of the merge. The RPCs of this
  tool have no deadline in the code. That each ends, with an answer or an error, is an
  assumption about gRPC and the sidecar: `CallReturns` says that under it no
  bookkeeping of the handler keeps the answer back.
* `LockTools`: time passes, and the handler returns when it has an answer or its
  deadline is over. The store owes nothing.
* `AuthMiddleware`: a probe ends, by its five seconds, and each authenticator reaches a verdict. For Sentry, that is what
  `CallsReturn` shows; for the two others it is assumed.
* `Startup`: `main` goes on: attempts, questions to sidecars and constructors end.
  Those without a deadline in the code are named among the hazards.

All are weak fairness. The changes of the world have none.
`CHECK_DEADLOCK` is never turned off: where the program comes to rest
the specification says so with an action of its own (`Quiesce`, `Exited`).

## What is proved

`SentryProofs` proves, for every set of calls and tokens, every sequence of
key sets, interval, deadline and bound on the clock:

* `TypeCorrect`, `Invariance`: `Spec => []TypeOK`, `Spec => []IInv`;
* `CacheIsAsOf`: the cached set was current at most a fetch before the time the cache is
  dated by, in whatever order answers are stored;
* `RetiredKeysDoExpire`: a token is accepted on a key that was published a
  refresh interval and a fetch before the call began, or later, unless a refresh
  of that very call failed;
* `PublishedKeyIsFound`: "key not found" is only said of a key ID that Sentry did
  not publish at some moment since a fetch before the call began;
* `RollbackNeedsOverlap`: the cache goes back only through a fetch that was sent before
  the newer set was published.

It also proves `Refinement`, `Spec => ImplementsVerifier`: initial
states map to initial states, and under `IInv` each action of SentryJwks maps to one of
TokenVerifier or to a stutter. `Validate` and `Lookup` are the ones that decide; the two
properties above are what makes their verdicts just.

`LockToolsProofs` proves, for any agents, expiries and deadline, `TypeCorrect`,
`CountsAreLeased`, `ReleasesAreFree` and `MutualExclusion` (`Exclusive`: two agents never count
on the lock at once, which follows from `CountedIsLeased`). `LInv` adds `CallOK`: a lease
granted to a call under way lasts, from the beginning of the call, as long as was asked for,
because no call outlives its deadline; and `StrayInv`: only a tool that returned an
error to its agent has left a request behind.

`WorkflowToolsProofs` proves, for any apps, pools, calls and event IDs, `TypeCorrect`,
`OnlyNamedSidecars`, `AtMostOnce`, `SuccessMeansDone` and `RerunIsExact`. `WInv` ties
the effects recorded for a call to its place: none before it is sent, one at
most, and the one asked for, afterwards.

`AuthMiddlewareProofs` proves, for any environments, requests, headers and number of outages,
`TypeCorrect`, `OnlyAuthenticatedServed`, `RefusedByAllMethods` and
`OutageDegrades`. `AInv` follows the loop: no authenticator before the next one would
have the client's token (`Tried`), and what keeps a library from verifying it now is in `failed`.
`RefusedByAll` is said of the token that the client presents, and excepts one case, `Misread`: a
Bearer header where the custom header is called `authorization`, whose clients are refused whatever
their token (see the disagreements below). Everywhere else what is extracted is what was presented
(`ExtractIsRead`).
For the probes it says that what the sidecar is now is in `during`. `AuthenticatorsAreOn` says that the authenticators
that `buildAuthenticators` makes are those of the methods turned on.

`MessageToolsProofs` proves, for any calls, metadata, contexts and verbs,
`TypeCorrect`, `MetadataArrives`, `SuccessIsTold` and `ConversationsApart`. `MInv` says that
a request is what the handler of its tool makes of the arguments (`Requested`), that it was
delivered at most once and what may have been answered (`Answered`), who spoke in a conversation
(`Spoken`), and that a call which began one is alone in it (`Alone`): its
context ID is new, so nobody can name it.

`StateToolsProofs` proves, for any calls, keys and texts, `TypeCorrect`, `TruthOfReads`,
`WritesAreAsked` and `SuccessOfWrites`. Its `IInv` has one part per direction of a call. `ReadInv`:
what was read of a key was in the store while the call was there, and what is in the store
now counts for whoever may still read it. `AnswerInv`: a positive answer to a
read has every key, one to a write was written, and only a write that returned an error may still
arrive. `WroteInv`: a call writes once at most, and what `Operations` makes of its items.
It also proves `Refinement`, `Spec => ImplementsStore`. `Read` sees, `Write` and `WriteLate` change,
`Return` succeeds or fails, the other steps stutter; the invariant is needed for a late write to find its call
neither applied nor told as a success (`AnswerInv`, `ResultInv`), and for a success to tell of what was
seen (`HeardIsShown`).

`StartupProofs` proves, for any apps, mappings, environments, number of retries and changes of
the world, `TypeCorrect`, `WholeMappingServed`, `ListenerIsGuarded`, `InstructionsAreRight` and
`RetriesAreUsedUp`. `IInv` carries each of them along the phases of `main`: the pool agrees with
the part of the mapping that was gone through (`PoolInv`, `Covered`), the attempts that count are
those of the sidecar in hand (`RetryInv`), the label and the announced app-ids are those of
the registry (`LabelInv`), and the authenticators are a prefix of the list that the validated
settings ask for (`AuthInv`). `InstructionsAreRight` has a hypothesis, `OwnAtItsOwn`: an
entry for the server's own app-id gives the server's own address. Nothing in the code forbids
another one, and then the pool's client replaces the server's own (`registry.go:60`), which no app-id reaches.

`ListWorkflowsProofs` proves, for any apps, pools, instances, limits, calls and changes in the engines,
`TypeCorrect`, `NoSilentLoss`, `StatusesWereTrue` and `AnswersAddUp`, and `ListedOnce`: no app
is listed twice by a server that learnt its app-id when it started (`Resolutions = {TRUE}`; the run
`list_unresolved` shows that the hypothesis is needed). The heart of `IInv` is said of each
goroutine. `TaskOK`: its IDs are distinct, and the skipped and the remaining ones fit a page.
`FetchedOK`: what it fetched bears its label, was true, and is not among the IDs still
to be fetched. `CoverOK`: an instance that has been there throughout is still to be fetched, fetched,
counted as skipped, or behind the token. `PageIs` makes it true, each fetch keeps it, and
`MergeMissesNothing` and `MergeAddsUp` turn it into what the answer says. Two facts about data are
needed there, both proved by well-founded induction on the least counterexample (`LeastOf`):
`SortedIs`, that a sorted list has each element of its set once, and `FlattenGathers`, that
joining listings neither loses, adds nor repeats an entry. `TargetsAre` says that the targets cover the
default sidecar and the pool under labels that differ.

The proofs led to three corrections of the models. `Startup.TypeOK` bounded the refused
attempts per app, which is false when two apps have the same address; it bounds nothing now, and
`RetryInv` says what holds. `ReadAuth` chose among guards that overlapped. `AccountsBalance`
compared sums; it now says that each count is the number of instances shown of that app, which is more.
Besides, the pool's update in `Startup` was written with `@@`, of which the provers have no account; it
is now the definition `WithClient`, the same function.

The assumptions are the named ones of the modules. `ConstantsAssumption` and `TokenAssumption`
of `SentryJwks`: numbers are naturals, `Publication` gives a sequence of keys for
each version, a token is a record of the stated shape. `LockAssumption`: `Nobody` is no agent,
times are naturals. `MiddlewareAssumption`: the absent and the malformed header are no
tokens, flags name methods. Those of `WorkflowRegistry` and `WorkflowTools`: event IDs are
integers, labels are told apart. `MessageAssumption`: an omitted argument is none of those that
are given, and a new context ID none that a caller names. `StateAssumption`: the
marks for what a read did not find are no texts. `MappingAssumption` and `EnvAssumption`: a mapping
is a sequence of entries about apps, an environment is a record of the stated shape.
`ListAssumption`: no app is called `default`, and the two limits are positive, as the constants of
`tools.go` are. TLC evaluates each in the runs of its module.

The argument for Sentry. None of the properties is inductive by itself: a verdict depends
on the call's copy, the copy on the cache when it was read, the cache on
the answer that was stored, the answer on when its request was sent. `IInv` states
each link: `HistoryInv` (publication times are ordered and past), `CacheInv` (what
the cache is the key set of), `FetchOK` (an answer was current when its request was
sent or later, and a fetch under way is within its deadline) and `CallOK` (how old the
copy of a call may be at each place of `getSigningKey`). The common measure is
`CurrentAfter(v, t, slack)`: version `v` was still published at `t - slack`. As
time and versions only advance (`StepAdvances`), what was so dated stays so;
hence frame lemmas (`FetchFrame`, `CallFrame`, `VerdictFrame`, `CacheFrame`)
cover everyone that does not move, and `FetchStep` and `CallStep` treat the one
that does.

Only model-checked: the liveness properties (`CallsReturn`, `CallReturns`, `EveryRequestAnswered`,
`StartEnds`, `AcquireReturns`), since fairness and `ENABLED` are beyond the prover. Every other
property that a passing run checks is also proved.

## Findings

1. When the sidecar does not tell its app-id at start, the label `default`
   stands in for it. Then a pool with the server's own app lists that app twice
   (`registry.go:60-65`, run `list_unresolved`).
2. An OIDC token whose audience is a single string, as many issuers write it, is
   verified and then refused: `oidc.go:51` unmarshals the claim into a list
   (run `auth_audience`).
3. The metadata given to `invoke_service`, "to send as HTTP headers", is
   merged and never sent (`invoke/tools.go:26`, `:45-52`, run `message_headers`).

Other disagreements met while modelling, which the modules contain and no run is spent on:

* A token without a key ID is checked against the first key only, though the
  comment says that all keys are used (`sentry.go:323`, `:367`).
* Under the label `default`, an app really called `default` displaces the server's own client
  (`registry.go:65`), and the server's own app-id is refused as unknown (`:84`, `:97`).
* With `DAPR_SENTRY_TOKEN_HEADER=authorization`, in lower case, the Authorization header is
  taken for a custom one, and the authenticators get `Bearer <token>` with its scheme, which all
  refuse (`middleware.go:174`, `:187`). `RefusedByAll` excepts this case.
* A temperature of 0.0, which the description of `converse_with_llm` offers, becomes 0.7
  (`conversation/tools.go:63-66`).
* `get_bulk_state` gives the values in its structured result only, which, as
  `crypto/tools.go:66-68` says, many clients never show.
* `acquire_lock` calls itself idempotent; a repeated call is told that another entity
  holds the lock (`lock/tools.go:64`, `:146`).

## What is not modelled

Telemetry, the wording of instructions and answers, the MCP library's sessions,
the contents of tokens beyond what decides the verdict, and payloads: secrets, component
lists, cipher texts, histories. `SetReady`, `SetStartupDone` and `NewChecker` of
`pkg/health` are called by tests only. In stdio mode
logs and the protocol share standard output; that is below this level.
Startup and ListWorkflows assume that no app is called `default`. The fallback
`default-session-id` of a conversation is out of reach: random numbers do not fail in the
Go release of `go.mod`.

## Plan

Written, in this order: `SentryJwks` (the only shared memory), its proofs,
`WorkflowRegistry`, `ListWorkflows`, `WorkflowTools` (the largest and newest part
of the program), `AuthConfig`, `AuthMiddleware`, `Startup`; then `LockTools`, `Health`, `StateTools`,
`MessageTools`, `TokenVerifier` and the proofs of refinement, locks, workflow tools,
middleware and message tools; then the proofs of `StateTools`, `Startup`
and `ListWorkflows`, and `StateStore` with its refinement.

To come:

1. `AuthMiddleware` composed with `TokenVerifier` in place of the free verdicts of
   one of its methods.
2. Several instances of the lock tools' resource, should the tools ever hold more than one lock
   in a call; at present resources do not interact.
