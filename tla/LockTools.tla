------------------------------ MODULE LockTools ------------------------------
(***************************************************************************)
(* The distributed lock tools (pkg/lock/tools.go): acquire_lock and        *)
(* release_lock, called by agents under owner names of their own, against  *)
(* the lease of one resource in a lock store.  A call of a tool sends one  *)
(* request and waits: acquire_lock for five seconds, release_lock for as   *)
(* long as it takes.  A handler that gives up does not take its request    *)
(* back: the store may serve it much later, or never.                      *)
(*                                                                         *)
(* The store is external: it grants the lease when nobody holds one, to    *)
(* nobody otherwise (not even to the holder), and drops it when its time   *)
(* is over.  An agent calls one tool at a time.                            *)
(***************************************************************************)
EXTENDS Naturals, FiniteSets, Functions

CONSTANTS
  Agent,      \* agents, each with a lockOwner name of its own
  Nobody,     \* the owner of a lease that is free
  Expiries,   \* the expiryInSeconds that agents ask for
  Deadline,   \* the five seconds of acquire_lock
  MaxCalls,   \* bound: calls of all agents
  MaxClock    \* bound on the clock

ASSUME LockAssumption ==
  /\ Nobody \notin Agent
  /\ Expiries \subseteq Nat
  /\ Deadline \in Nat
  /\ MaxCalls \in Nat
  /\ MaxClock \in Nat

VARIABLES
  clock,    \* wall-clock time
  owner,    \* who the store's lease belongs to
  until,    \* when that lease ends
  pc,       \* "idle", or the tool whose call of an agent is under way
  calls,    \* how many calls an agent has made
  began,    \* when its latest call began
  expiry,   \* the expiry it asked for
  reply,    \* what the store answered to the call under way
  stray,    \* requests whose handlers gave up and that may yet arrive
  result,   \* what the latest call returned
  holds,    \* until when the agent may count on the lock
  failed    \* the tools that ever returned an error to the agent

store  == <<owner, until>>
agents == <<calls, began, expiry>>
vars   == <<clock, store, pc, agents, reply, stray, result, holds, failed>>

\* What the store answers: resp.Success, or a resp.Status that is SUCCESS or
\* one of the others, LOCK_UNEXIST, LOCK_BELONG_TO_OTHERS, INTERNAL_ERROR.
Replies == {"granted", "refused", "SUCCESS", "failure"}
Results == {"none", "error", "acquired", "not_acquired", "released",
            "not_released"}

\* The n-th call of an agent, as a request that outlives its handler.
Requests == [tool : {"acquire", "release"}, agent : Agent, n : Nat,
             expiry : Expiries \cup {0}]

Init ==
  /\ clock = 0
  /\ owner = Nobody /\ until = 0
  /\ pc = [a \in Agent |-> "idle"]
  /\ calls = [a \in Agent |-> 0]
  /\ began = [a \in Agent |-> 0]
  /\ expiry = [a \in Agent |-> 0]
  /\ reply = [a \in Agent |-> "pending"]
  /\ stray = {}
  /\ result = [a \in Agent |-> "none"]
  /\ holds = [a \in Agent |-> 0]
  /\ failed = [a \in Agent |-> {}]

-----------------------------------------------------------------------------
(* The handlers.                                                           *)

\* A call of a tool leaves as one request.
Send(a, tool, e) ==
  /\ pc[a] = "idle"
  /\ FoldFunction(LAMBDA m, n : m + n, 0, calls) < MaxCalls
  /\ pc' = [pc EXCEPT ![a] = tool]
  /\ calls' = [calls EXCEPT ![a] = @ + 1]
  /\ began' = [began EXCEPT ![a] = clock]
  /\ expiry' = [expiry EXCEPT ![a] = e]
  /\ result' = [result EXCEPT ![a] = "none"]
  /\ UNCHANGED <<clock, store, reply, stray, failed>>

\* The bound leaves room for the deadline.
Acquire(a, e) ==
  /\ clock + Deadline <= MaxClock
  /\ Send(a, "acquire", e)
  /\ UNCHANGED holds

\* An agent that releases a lock has stopped counting on it.
Release(a) ==
  /\ Send(a, "release", 0)
  /\ holds' = [holds EXCEPT ![a] = 0]

\* Mistake: acquire_lock waits like release_lock.
OverdueNever(a) == FALSE

\* context.WithTimeout(ctx, 5*time.Second) around TryLockAlpha1 only.
Overdue(a) == pc[a] = "acquire" /\ clock >= began[a] + Deadline

\* The call and its variables are gone.
Finish(a, what) ==
  /\ pc' = [pc EXCEPT ![a] = "idle"]
  /\ began' = [began EXCEPT ![a] = 0]
  /\ expiry' = [expiry EXCEPT ![a] = 0]
  /\ reply' = [reply EXCEPT ![a] = "pending"]
  /\ result' = [result EXCEPT ![a] = what]
  /\ UNCHANGED <<clock, store, calls>>

\* Mistake: the outcome in the response is not looked at.
OutcomeAssumed(answer) ==
  IF answer \in {"granted", "refused"} THEN "acquired" ELSE "released"

\* Mistake: the status goes into the result as it is.
OutcomeRaw(answer) == answer

\* resp.Success or resp.Status, as the structured result carries it.
Outcome(answer) ==
  CASE answer = "granted" -> "acquired"
    [] answer = "refused" -> "not_acquired"
    [] answer = "SUCCESS" -> "released"
    [] answer = "failure" -> "not_released"

\* The agent does not learn when the store granted the lease, only that the
\* call took the deadline at most: it counts its seconds from the answer and
\* takes the deadline off.
CountsUntil(a) ==
  IF Outcome(reply[a]) # "acquired" THEN holds[a]
  ELSE IF expiry[a] > Deadline THEN (clock + expiry[a]) - Deadline
  ELSE 0

Return(a) ==
  /\ pc[a] # "idle"
  /\ reply[a] # "pending"
  /\ Finish(a, Outcome(reply[a]))
  /\ holds' = [holds EXCEPT ![a] = CountsUntil(a)]
  /\ UNCHANGED <<stray, failed>>

\* The client library returns an error, whether the store served the request,
\* will serve it, or never does.
GiveUp(a) ==
  /\ pc[a] # "idle"
  /\ Finish(a, "error")
  /\ \/ UNCHANGED stray
     \/ /\ reply[a] = "pending"
        /\ stray' = stray \cup {[tool |-> pc[a], agent |-> a, n |-> calls[a],
                                 expiry |-> expiry[a]]}
  /\ failed' = [failed EXCEPT ![a] = @ \cup {pc[a]}]
  /\ UNCHANGED holds

Timeout(a) == Overdue(a) /\ GiveUp(a)
Fail(a)    == ~Overdue(a) /\ GiveUp(a)

-----------------------------------------------------------------------------
(* Time and the lock store (external).                                     *)

\* Time passes, though not beyond a deadline.  The store drops a lease whose
\* time is over, and an agent stops counting on one.
Tick ==
  /\ clock < MaxClock
  /\ \A a \in Agent : ~Overdue(a)
  /\ clock' = clock + 1
  /\ \/ owner # Nobody /\ until > clock' /\ UNCHANGED store
     \/ (owner = Nobody \/ until <= clock') /\ owner' = Nobody /\ until' = 0
  /\ holds' = [a \in Agent |-> IF holds[a] > clock' THEN holds[a] ELSE 0]
  /\ UNCHANGED <<pc, agents, reply, stray, result, failed>>

\* The lease goes to agent a for e seconds, or stays with who has it.
TryLock(a, e, answer) ==
  \/ /\ owner = Nobody
     /\ owner' = a /\ until' = clock + e
     /\ answer = "granted"
  \/ /\ owner # Nobody
     /\ UNCHANGED store
     /\ answer = "refused"

\* Only the owner's name frees a lease; an internal error may come before or
\* after that.
Unlock(a, answer) ==
  \/ /\ owner = a
     /\ owner' = Nobody /\ until' = 0
     /\ answer \in {"SUCCESS", "failure"}
  \/ /\ UNCHANGED store
     /\ answer = "failure"

Serve(a) ==
  /\ reply[a] = "pending"
  /\ \E answer \in Replies :
        /\ \/ pc[a] = "acquire" /\ TryLock(a, expiry[a], answer)
           \/ pc[a] = "release" /\ Unlock(a, answer)
        /\ reply' = [reply EXCEPT ![a] = answer]
  /\ UNCHANGED <<clock, pc, agents, stray, result, holds, failed>>

\* A request arrives whose handler has given up.
ServeStray(r) ==
  /\ \E answer \in Replies :
        \/ r.tool = "acquire" /\ TryLock(r.agent, r.expiry, answer)
        \/ r.tool = "release" /\ Unlock(r.agent, answer)
  /\ stray' = stray \ {r}
  /\ UNCHANGED <<clock, pc, agents, reply, result, holds, failed>>

Quiesce ==
  /\ \A a \in Agent : pc[a] = "idle"
  /\ UNCHANGED vars

-----------------------------------------------------------------------------

Step(a) ==
  \/ \E e \in Expiries : Acquire(a, e)
  \/ Release(a) \/ Return(a) \/ Timeout(a) \/ Fail(a) \/ Serve(a)

Next ==
  \/ Tick
  \/ \E a \in Agent : Step(a)
  \/ \E r \in stray : ServeStray(r)
  \/ Quiesce

Spec == Init /\ [][Next]_vars

\* Time passes and handlers go on; nothing obliges the store to answer.
Fairness ==
  /\ WF_vars(Tick)
  /\ \A a \in Agent : WF_vars(Return(a)) /\ WF_vars(Timeout(a))

FairSpec == Spec /\ Fairness

-----------------------------------------------------------------------------
(* Properties.                                                             *)

TypeOK ==
  /\ clock \in 0 .. MaxClock
  /\ owner \in Agent \cup {Nobody} /\ until \in Nat
  /\ pc \in [Agent -> {"idle", "acquire", "release"}]
  /\ calls \in [Agent -> Nat]
  /\ began \in [Agent -> 0 .. MaxClock]
  /\ expiry \in [Agent -> Expiries \cup {0}]
  /\ reply \in [Agent -> Replies \cup {"pending"}]
  /\ stray \subseteq Requests
  /\ result \in [Agent -> Results]
  /\ holds \in [Agent -> Nat]
  /\ failed \in [Agent -> SUBSET {"acquire", "release"}]

\* An agent that counts on the lock, and none of whose releases failed.
Holding(a) == holds[a] # 0 /\ "release" \notin failed[a]

\* "Tries to acquire a distributed lock on a named resource for exclusive
\* access" (tools.go:146): two agents never count on it at once, in whatever
\* order requests, late requests and answers arrive.  The exception is an agent
\* one of whose releases ended in an error: that request may still arrive, and
\* would take away a lease acquired since.
Exclusive ==
  \A a, b \in Agent : Holding(a) /\ Holding(b) => a = b

\* An agent that counts on the lock has the lease in the store, and for as long
\* as it counts: a slow answer is not taken for a longer lease.
CountedIsLeased ==
  \A a \in Agent : Holding(a) => owner = a /\ holds[a] <= until

\* An agent that was told that its lock is released may have it again only by
\* an acquire that it gave up on and that arrived since.
ReleasedIsFree ==
  \A a \in Agent : result[a] = "released" /\ owner = a => "acquire" \in failed[a]

\* acquire_lock always returns, whether the store answers or not.
AcquireReturns == \A a \in Agent : pc[a] = "acquire" ~> pc[a] = "idle"

-----------------------------------------------------------------------------
(* The inductive invariant behind the safety properties.                   *)

\* What a call under way may rely on: it is within its deadline, it has not
\* returned, and a lease that was granted to it lasts as asked or is over.
CallOK(a) ==
  /\ pc[a] # "idle" => began[a] <= clock /\ result[a] = "none"
  /\ pc[a] = "acquire" =>
        /\ clock <= began[a] + Deadline
        /\ reply[a] \in {"pending", "granted", "refused"}
  /\ pc[a] = "release" =>
        /\ holds[a] = 0
        /\ reply[a] \in {"pending", "SUCCESS", "failure"}
  /\ reply[a] = "granted" /\ "release" \notin failed[a] =>
        \/ owner = a /\ began[a] + expiry[a] <= until
        \/ began[a] + expiry[a] <= clock
  /\ reply[a] = "SUCCESS" /\ owner = a => "acquire" \in failed[a]
  /\ pc[a] = "idle" => reply[a] = "pending"

\* Only a tool that returned an error has left a request behind.
StrayInv == \A r \in stray : r.tool \in failed[r.agent]

LInv ==
  /\ TypeOK
  /\ \A a \in Agent : CallOK(a)
  /\ StrayInv
  /\ CountedIsLeased
  /\ ReleasedIsFree
=============================================================================
