--------------------------- MODULE LockToolsProofs ---------------------------
(***************************************************************************)
(* Proofs about the distributed lock tools, for any number of agents and   *)
(* calls, any expiries, any deadline and any bound on the clock.           *)
(*                                                                         *)
(* The invariant LInv links what an agent counts on to the lease in the    *)
(* store through the answer in between: a lease that was granted to a call *)
(* lasts as long as the call asked for, counted from its beginning.        *)
(***************************************************************************)
EXTENDS LockTools, TLAPS

USE DEF Replies, Results

LEMMA InitInv == Init => LInv
<1> SUFFICES ASSUME Init PROVE LInv
  OBVIOUS
<1> USE LockAssumption DEF Init
<1>1. TypeOK
  BY DEF TypeOK, Requests
<1>2. (\A a \in Agent : CallOK(a)) /\ StrayInv
  BY DEF CallOK, StrayInv
<1>3. CountedIsLeased /\ ReleasedIsFree
  BY DEF CountedIsLeased, ReleasedIsFree, Holding
<1> QED
  BY <1>1, <1>2, <1>3 DEF LInv

-----------------------------------------------------------------------------
(* Types.                                                                  *)

\* A call that starts or ends leaves its variables well typed.
LEMMA CallTypes ==
  ASSUME TypeOK, NEW a \in Agent,
         \/ \E tool \in {"acquire", "release"}, e \in Expiries \cup {0} :
              Send(a, tool, e)
         \/ \E what \in Results : Finish(a, what)
  PROVE  /\ pc' \in [Agent -> {"idle", "acquire", "release"}]
         /\ calls' \in [Agent -> Nat]
         /\ began' \in [Agent -> 0 .. MaxClock]
         /\ expiry' \in [Agent -> Expiries \cup {0}]
         /\ reply' \in [Agent -> Replies \cup {"pending"}]
         /\ result' \in [Agent -> Results]
         /\ clock' \in 0 .. MaxClock
         /\ owner' \in Agent \cup {Nobody} /\ until' \in Nat
<1>1. CASE \E tool \in {"acquire", "release"}, e \in Expiries \cup {0} :
             Send(a, tool, e)
  <2> PICK tool \in {"acquire", "release"}, e \in Expiries \cup {0} :
        Send(a, tool, e)
    BY <1>1
  <2>1. pc' \in [Agent -> {"idle", "acquire", "release"}]
    BY DEF Send, TypeOK
  <2>2. calls' \in [Agent -> Nat]
    <3>1. calls[a] + 1 \in Nat
      BY DEF TypeOK
    <3> QED
      BY <3>1 DEF Send, TypeOK
  <2>3. began' \in [Agent -> 0 .. MaxClock] /\ expiry' \in [Agent -> Expiries \cup {0}]
    BY DEF Send, TypeOK
  <2>4. result' \in [Agent -> Results]
    BY DEF Send, TypeOK
  <2>5. /\ reply' \in [Agent -> Replies \cup {"pending"}]
        /\ clock' \in 0 .. MaxClock
        /\ owner' \in Agent \cup {Nobody} /\ until' \in Nat
    BY DEF Send, TypeOK, store
  <2> QED
    BY <2>1, <2>2, <2>3, <2>4, <2>5
<1>2. CASE \E what \in Results : Finish(a, what)
  <2> PICK what \in Results : Finish(a, what)
    BY <1>2
  <2>1. pc' \in [Agent -> {"idle", "acquire", "release"}]
    BY DEF Finish, TypeOK
  <2>2. began' \in [Agent -> 0 .. MaxClock]
    <3>1. 0 \in 0 .. MaxClock
      BY LockAssumption
    <3> QED
      BY <3>1 DEF Finish, TypeOK
  <2>3. expiry' \in [Agent -> Expiries \cup {0}]
    BY DEF Finish, TypeOK
  <2>4. reply' \in [Agent -> Replies \cup {"pending"}]
    BY DEF Finish, TypeOK
  <2>5. result' \in [Agent -> Results]
    BY DEF Finish, TypeOK
  <2>6. /\ calls' \in [Agent -> Nat]
        /\ clock' \in 0 .. MaxClock
        /\ owner' \in Agent \cup {Nobody} /\ until' \in Nat
    BY DEF Finish, TypeOK, store
  <2> QED
    BY <2>1, <2>2, <2>3, <2>4, <2>5, <2>6
<1> QED
  BY <1>1, <1>2

\* The store's part in a step keeps the lease well typed.
LEMMA StoreTypes ==
  ASSUME TypeOK, NEW a \in Agent, NEW e \in Expiries \cup {0}, NEW answer,
         TryLock(a, e, answer) \/ Unlock(a, answer)
  PROVE  owner' \in Agent \cup {Nobody} /\ until' \in Nat
<1>1. clock + e \in Nat
  BY LockAssumption DEF TypeOK
<1>2. CASE TryLock(a, e, answer)
  BY <1>1, <1>2 DEF TryLock, TypeOK, store
<1>3. CASE Unlock(a, answer)
  BY <1>3 DEF Unlock, TypeOK, store
<1> QED
  BY <1>2, <1>3

\* What an answer becomes is a result.
LEMMA OutcomeType ==
  ASSUME NEW answer \in Replies
  PROVE  /\ Outcome(answer) \in Results
         /\ Outcome(answer) = "acquired" <=> answer = "granted"
         /\ Outcome(answer) = "released" <=> answer = "SUCCESS"
  BY DEF Outcome

\* An expiry is a number of seconds, none for a release.
LEMMA ExpiryType ==
  ASSUME TypeOK, NEW a \in Agent
  PROVE  expiry[a] \in Nat
<1>1. expiry[a] \in Expiries \cup {0}
  BY DEF TypeOK
<1>2. CASE expiry[a] = 0
  BY <1>2
<1>3. CASE expiry[a] \in Expiries
  BY <1>3, LockAssumption
<1> QED
  BY <1>1, <1>2, <1>3

\* Until when an agent counts on the lock is a time.
LEMMA CountsType ==
  ASSUME TypeOK, NEW a \in Agent
  PROVE  CountsUntil(a) \in Nat
<1>1. clock \in Nat /\ Deadline \in Nat /\ holds[a] \in Nat
  BY LockAssumption DEF TypeOK
<1>2. expiry[a] \in Nat
  BY ExpiryType
<1> QED
  BY <1>1, <1>2 DEF CountsUntil

LEMMA TypeStep == TypeOK /\ [Next]_vars => TypeOK'
<1> SUFFICES ASSUME TypeOK, [Next]_vars PROVE TypeOK'
  OBVIOUS
<1>1. CASE Tick
  <2>1. clock' \in 0 .. MaxClock
    BY <1>1, LockAssumption DEF Tick, TypeOK
  <2>2. owner' \in Agent \cup {Nobody} /\ until' \in Nat
    BY <1>1 DEF Tick, TypeOK, store
  <2>3. holds' \in [Agent -> Nat]
    BY <1>1 DEF Tick, TypeOK
  <2> QED
    BY <1>1, <2>1, <2>2, <2>3 DEF Tick, TypeOK, agents
<1>2. ASSUME NEW a \in Agent, NEW e \in Expiries, Acquire(a, e) PROVE TypeOK'
  <2>1. Send(a, "acquire", e) /\ UNCHANGED <<holds, stray, failed>>
    BY <1>2 DEF Acquire, Send
  <2> QED
    BY <2>1, CallTypes DEF TypeOK
<1>3. ASSUME NEW a \in Agent, Release(a) PROVE TypeOK'
  <2>1. Send(a, "release", 0) /\ UNCHANGED <<stray, failed>>
    BY <1>3 DEF Release, Send
  <2>2. holds' \in [Agent -> Nat]
    BY <1>3 DEF Release, TypeOK
  <2> QED
    BY <2>1, <2>2, CallTypes DEF TypeOK
<1>4. ASSUME NEW a \in Agent, Return(a) PROVE TypeOK'
  <2>1. reply[a] \in Replies
    BY <1>4 DEF Return, TypeOK
  <2>2. Finish(a, Outcome(reply[a])) /\ UNCHANGED <<stray, failed>>
    BY <1>4 DEF Return
  <2>3. \E what \in Results : Finish(a, what)
    BY <2>1, <2>2, OutcomeType
  <2>4. holds' \in [Agent -> Nat]
    BY <1>4, CountsType DEF Return, TypeOK
  <2> QED
    BY <2>2, <2>3, <2>4, CallTypes DEF TypeOK
<1>5. ASSUME NEW a \in Agent, GiveUp(a) PROVE TypeOK'
  <2>1. Finish(a, "error") /\ UNCHANGED holds /\ pc[a] \in {"acquire", "release"}
    BY <1>5 DEF GiveUp, TypeOK
  <2>2. \E what \in Results : Finish(a, what)
    BY <2>1
  <2>3. failed' \in [Agent -> SUBSET {"acquire", "release"}]
    BY <1>5, <2>1 DEF GiveUp, TypeOK
  <2>4. stray' \subseteq Requests
    <3>1. [tool |-> pc[a], agent |-> a, n |-> calls[a], expiry |-> expiry[a]]
            \in Requests
      BY <2>1 DEF Requests, TypeOK
    <3> QED
      BY <1>5, <3>1 DEF GiveUp, TypeOK
  <2> QED
    BY <2>1, <2>2, <2>3, <2>4, CallTypes DEF TypeOK
<1>6. ASSUME NEW a \in Agent, Serve(a) PROVE TypeOK'
  <2> PICK answer \in Replies :
        /\ TryLock(a, expiry[a], answer) \/ Unlock(a, answer)
        /\ reply' = [reply EXCEPT ![a] = answer]
    BY <1>6 DEF Serve
  <2>1. expiry[a] \in Expiries \cup {0}
    BY DEF TypeOK
  <2>2. owner' \in Agent \cup {Nobody} /\ until' \in Nat
    BY <2>1, StoreTypes
  <2>3. reply' \in [Agent -> Replies \cup {"pending"}]
    BY DEF TypeOK
  <2> QED
    BY <1>6, <2>2, <2>3 DEF Serve, TypeOK, agents
<1>7. ASSUME NEW r \in stray, ServeStray(r) PROVE TypeOK'
  <2>1. r.agent \in Agent /\ r.expiry \in Expiries \cup {0}
    BY DEF TypeOK, Requests
  <2> PICK answer \in Replies :
        TryLock(r.agent, r.expiry, answer) \/ Unlock(r.agent, answer)
    BY <1>7 DEF ServeStray
  <2>2. owner' \in Agent \cup {Nobody} /\ until' \in Nat
    BY <2>1, StoreTypes
  <2>3. stray' \subseteq Requests
    BY <1>7 DEF ServeStray, TypeOK
  <2> QED
    BY <1>7, <2>2, <2>3 DEF ServeStray, TypeOK, agents
<1>8. CASE UNCHANGED vars
  BY <1>8 DEF vars, store, agents, TypeOK
<1> QED
  BY <1>1, <1>2, <1>3, <1>4, <1>5, <1>6, <1>7, <1>8
     DEF Next, Step, Timeout, Fail, Quiesce

-----------------------------------------------------------------------------
(* The steps.                                                              *)

\* The values that the arithmetic of the invariant is about.
LEMMA Numbers ==
  ASSUME TypeOK, NEW a \in Agent
  PROVE  /\ clock \in Nat /\ Deadline \in Nat /\ until \in Nat
         /\ began[a] \in Nat /\ expiry[a] \in Nat /\ holds[a] \in Nat
<1>1. expiry[a] \in Nat
  BY ExpiryType
<1>2. clock \in Nat /\ began[a] \in Nat
  BY LockAssumption DEF TypeOK
<1>3. Deadline \in Nat /\ until \in Nat /\ holds[a] \in Nat
  BY LockAssumption DEF TypeOK
<1> QED
  BY <1>1, <1>2, <1>3

\* What is left of the invariant apart from types.
Links == (\A a \in Agent : CallOK(a)) /\ StrayInv /\ CountedIsLeased /\ ReleasedIsFree

\* Time passes: no call outlives its deadline, and what a lease or a count
\* loses, the other loses too.
LEMMA TickStep == LInv /\ TypeOK' /\ Tick => Links'
<1> SUFFICES ASSUME LInv, TypeOK', Tick PROVE Links'
  OBVIOUS
<1> USE DEF LInv
<1>1. clock' = clock + 1 /\ UNCHANGED <<pc, agents, reply, stray, result, failed>>
  BY DEF Tick
<1>2. ASSUME NEW a \in Agent PROVE CallOK(a)'
  <2>1. CallOK(a) /\ ~Overdue(a)
    BY DEF Tick
  <2>2. pc[a] # "idle" => began[a] <= clock' /\ result[a] = "none"
    BY <1>1, <2>1, Numbers DEF CallOK
  <2>3. pc[a] = "acquire" => clock' <= began[a] + Deadline
    BY <1>1, <2>1, Numbers DEF Overdue
  <2>4. pc[a] = "release" => holds'[a] = 0
    BY <2>1, <1>1, Numbers DEF CallOK, Tick, TypeOK
  <2>5. reply[a] = "granted" /\ "release" \notin failed[a] =>
          \/ owner' = a /\ began[a] + expiry[a] <= until'
          \/ began[a] + expiry[a] <= clock'
    <3>1. CASE began[a] + expiry[a] <= clock
      BY <3>1, <1>1, Numbers
    <3>2. CASE owner = a /\ began[a] + expiry[a] <= until
      <4>1. CASE UNCHANGED store
        BY <4>1, <3>2 DEF store
      <4>2. CASE until <= clock' \/ owner = Nobody
        BY <4>2, <3>2, <1>1, Numbers, LockAssumption
      <4> QED
        BY <4>1, <4>2 DEF Tick
    <3> QED
      BY <3>1, <3>2, <2>1 DEF CallOK
  <2>6. reply[a] = "SUCCESS" /\ owner' = a => "acquire" \in failed[a]
    BY <2>1, LockAssumption DEF CallOK, Tick, store
  <2> QED
    BY <1>1, <2>1, <2>2, <2>3, <2>4, <2>5, <2>6 DEF CallOK, agents
<1>3. StrayInv'
  BY <1>1 DEF StrayInv
<1>4. CountedIsLeased'
  <2> SUFFICES ASSUME NEW a \in Agent, holds'[a] # 0, "release" \notin failed[a]
               PROVE  owner' = a /\ holds'[a] <= until'
    BY <1>1 DEF CountedIsLeased, Holding
  <2>1. holds'[a] = holds[a] /\ holds[a] > clock'
    BY DEF Tick, TypeOK
  <2>2. holds[a] # 0
    BY <2>1, <1>1, Numbers
  <2>3. owner = a /\ holds[a] <= until
    BY <2>2 DEF CountedIsLeased, Holding
  <2>4. UNCHANGED store
    BY <2>1, <2>3, <1>1, Numbers, LockAssumption DEF Tick
  <2> QED
    BY <2>1, <2>3, <2>4 DEF store
<1>5. ReleasedIsFree'
  BY <1>1, LockAssumption DEF ReleasedIsFree, Tick, store
<1> QED
  BY <1>2, <1>3, <1>4, <1>5 DEF Links

\* A call starts.
LEMMA SendStep ==
  ASSUME LInv, TypeOK', NEW a \in Agent,
         NEW tool \in {"acquire", "release"}, NEW x \in Expiries \cup {0},
         Send(a, tool, x),
         tool = "release" => holds' = [holds EXCEPT ![a] = 0],
         tool = "acquire" => UNCHANGED holds
  PROVE  Links'
<1> USE DEF LInv
<1>1. /\ pc[a] = "idle" /\ pc' = [pc EXCEPT ![a] = tool]
      /\ began' = [began EXCEPT ![a] = clock]
      /\ expiry' = [expiry EXCEPT ![a] = x]
      /\ result' = [result EXCEPT ![a] = "none"]
      /\ UNCHANGED <<clock, owner, until, reply, stray, failed>>
  BY DEF Send, store
<1>2. ASSUME NEW b \in Agent PROVE CallOK(b)'
  <2>1. CASE b = a
    <3>1. reply[a] = "pending"
      BY <1>1 DEF CallOK
    <3>2. pc'[a] = tool /\ began'[a] = clock /\ result'[a] = "none"
      BY <1>1 DEF TypeOK
    <3>3. clock <= clock + Deadline /\ clock <= clock
      BY Numbers
    <3>4. tool = "release" => holds'[a] = 0
      BY DEF TypeOK
    <3> QED
      BY <2>1, <1>1, <3>1, <3>2, <3>3, <3>4 DEF CallOK
  <2>2. CASE b # a
    <3>1. /\ pc'[b] = pc[b] /\ began'[b] = began[b] /\ expiry'[b] = expiry[b]
          /\ result'[b] = result[b] /\ holds'[b] = holds[b]
      BY <2>2, <1>1 DEF TypeOK
    <3> QED
      BY <3>1, <1>1 DEF CallOK
  <2> QED
    BY <2>1, <2>2
<1>3. StrayInv'
  BY <1>1 DEF StrayInv
<1>4. CountedIsLeased'
  <2>1. \A b \in Agent : holds'[b] # 0 => holds'[b] = holds[b]
    BY DEF TypeOK
  <2> QED
    BY <1>1, <2>1 DEF CountedIsLeased, Holding
<1>5. ReleasedIsFree'
  <2>1. \A b \in Agent : result'[b] = "released" => result[b] = "released"
    BY <1>1 DEF TypeOK
  <2> QED
    BY <1>1, <2>1 DEF ReleasedIsFree
<1> QED
  BY <1>2, <1>3, <1>4, <1>5 DEF Links

\* When a call ends, the calls of the others are as they were.
LEMMA FinishFrame ==
  ASSUME LInv, TypeOK', NEW a \in Agent, NEW what \in Results \ {"none"},
         Finish(a, what),
         \A b \in Agent \ {a} : holds'[b] = holds[b] /\ failed'[b] = failed[b],
         failed[a] \subseteq failed'[a]
  PROVE  /\ \A b \in Agent : CallOK(b)'
         /\ UNCHANGED <<clock, owner, until>>
         /\ \A b \in Agent \ {a} : result'[b] = result[b]
         /\ result'[a] = what
<1> USE DEF LInv
<1>1. /\ pc' = [pc EXCEPT ![a] = "idle"]
      /\ began' = [began EXCEPT ![a] = 0]
      /\ expiry' = [expiry EXCEPT ![a] = 0]
      /\ reply' = [reply EXCEPT ![a] = "pending"]
      /\ result' = [result EXCEPT ![a] = what]
      /\ UNCHANGED <<clock, owner, until>>
  BY DEF Finish, store
<1>2. pc'[a] = "idle" /\ reply'[a] = "pending" /\ result'[a] = what
  BY <1>1 DEF TypeOK
<1>3. ASSUME NEW b \in Agent \ {a}
      PROVE  /\ pc'[b] = pc[b] /\ began'[b] = began[b] /\ expiry'[b] = expiry[b]
             /\ reply'[b] = reply[b] /\ result'[b] = result[b]
  BY <1>1 DEF TypeOK
<1>4. ASSUME NEW b \in Agent PROVE CallOK(b)'
  <2>1. CASE b = a
    BY <2>1, <1>2 DEF CallOK
  <2>2. CASE b # a
    <3>1. CallOK(b) /\ holds'[b] = holds[b] /\ failed'[b] = failed[b]
      BY <2>2
    <3> QED
      BY <2>2, <3>1, <1>1, <1>3 DEF CallOK
  <2> QED
    BY <2>1, <2>2
<1> QED
  BY <1>1, <1>2, <1>3, <1>4

\* A call returns what the store answered.
LEMMA ReturnStep ==
  ASSUME LInv, TypeOK', NEW a \in Agent, Return(a)
  PROVE  Links'
<1> USE DEF LInv
<1>1. /\ pc[a] \in {"acquire", "release"} /\ reply[a] \in Replies
      /\ holds' = [holds EXCEPT ![a] = CountsUntil(a)]
      /\ UNCHANGED <<stray, failed>>
  BY DEF Return, TypeOK
<1>2. Outcome(reply[a]) \in Results \ {"none"} /\ Finish(a, Outcome(reply[a]))
  BY <1>1 DEF Return, Outcome
<1>3. \A b \in Agent \ {a} : holds'[b] = holds[b] /\ failed'[b] = failed[b]
  BY <1>1 DEF TypeOK
<1>4. /\ \A b \in Agent : CallOK(b)'
      /\ UNCHANGED <<clock, owner, until>>
      /\ \A b \in Agent \ {a} : result'[b] = result[b]
      /\ result'[a] = Outcome(reply[a])
  BY <1>1, <1>2, <1>3, FinishFrame
<1>5. StrayInv'
  BY <1>1 DEF StrayInv
<1>6. CountedIsLeased'
  <2> SUFFICES ASSUME NEW b \in Agent, holds'[b] # 0, "release" \notin failed[b]
               PROVE  owner = b /\ holds'[b] <= until
    BY <1>1, <1>4 DEF CountedIsLeased, Holding
  <2>1. CASE b # a \/ reply[a] # "granted"
    <3>1. holds'[b] = holds[b]
      BY <2>1, <1>1, <1>3, OutcomeType DEF TypeOK, CountsUntil
    <3> QED
      BY <3>1 DEF CountedIsLeased, Holding
  <2>2. CASE b = a /\ reply[a] = "granted"
    <3>1. holds'[a] = CountsUntil(a) /\ Outcome(reply[a]) = "acquired"
      BY <2>2, <1>1, OutcomeType DEF TypeOK
    <3>2. expiry[a] > Deadline /\ holds'[a] = (clock + expiry[a]) - Deadline
      BY <3>1, <2>2 DEF CountsUntil
    <3>3. pc[a] = "acquire" /\ clock <= began[a] + Deadline
      BY <2>2, <1>1 DEF CallOK
    <3>4. holds'[a] <= began[a] + expiry[a] /\ clock < holds'[a]
      BY <3>2, <3>3, Numbers
    <3>5. owner = a /\ began[a] + expiry[a] <= until
      <4>1. \/ owner = a /\ began[a] + expiry[a] <= until
            \/ began[a] + expiry[a] <= clock
        BY <2>2 DEF CallOK
      <4>2. ~(began[a] + expiry[a] <= clock)
        BY <3>2, <3>4, Numbers
      <4> QED
        BY <4>1, <4>2
    <3> QED
      BY <2>2, <3>2, <3>4, <3>5, Numbers
  <2> QED
    BY <2>1, <2>2
<1>7. ReleasedIsFree'
  <2> SUFFICES ASSUME NEW b \in Agent, result'[b] = "released", owner = b
               PROVE  "acquire" \in failed[b]
    BY <1>1, <1>4 DEF ReleasedIsFree
  <2>1. CASE b = a
    <3>1. reply[a] = "SUCCESS"
      BY <2>1, <1>1, <1>4, OutcomeType
    <3> QED
      BY <3>1, <2>1 DEF CallOK
  <2>2. CASE b # a
    BY <2>2, <1>4 DEF ReleasedIsFree
  <2> QED
    BY <2>1, <2>2
<1> QED
  BY <1>4, <1>5, <1>6, <1>7 DEF Links

\* A handler gives up; its request may be left behind.
LEMMA GiveUpStep ==
  ASSUME LInv, TypeOK', NEW a \in Agent, GiveUp(a)
  PROVE  Links'
<1> USE DEF LInv
<1>1. /\ pc[a] \in {"acquire", "release"}
      /\ Finish(a, "error") /\ UNCHANGED holds
      /\ failed' = [failed EXCEPT ![a] = @ \cup {pc[a]}]
  BY DEF GiveUp, TypeOK
<1>2. /\ failed'[a] = failed[a] \cup {pc[a]}
      /\ \A b \in Agent \ {a} : failed'[b] = failed[b]
  BY <1>1 DEF TypeOK
<1>3. \A b \in Agent : failed[b] \subseteq failed'[b]
  BY <1>2
<1>4. /\ \A b \in Agent : CallOK(b)'
      /\ UNCHANGED <<clock, owner, until>>
      /\ \A b \in Agent \ {a} : result'[b] = result[b]
      /\ result'[a] = "error"
  BY <1>1, <1>2, <1>3, FinishFrame
<1>5. StrayInv'
  <2>1. \A r \in stray' : r \in stray \/ (r.tool = pc[a] /\ r.agent = a)
    BY DEF GiveUp
  <2>2. \A r \in stray : r.agent \in Agent
    BY DEF TypeOK, Requests
  <2> QED
    BY <2>1, <2>2, <1>2, <1>3 DEF StrayInv
<1>6. CountedIsLeased'
  BY <1>1, <1>3, <1>4 DEF CountedIsLeased, Holding
<1>7. ReleasedIsFree'
  <2>1. \A b \in Agent : result'[b] = "released" => result[b] = "released"
    BY <1>4
  <2> QED
    BY <2>1, <1>3, <1>4 DEF ReleasedIsFree
<1> QED
  BY <1>4, <1>5, <1>6, <1>7 DEF Links

\* What the store does for a request of agent a, early or late: a lease that an
\* agent counts on or was granted stays, unless a release of its owner ends it.
LEMMA StoreStep ==
  ASSUME LInv, NEW a \in Agent, NEW e \in Nat, NEW answer,
         TryLock(a, e, answer) \/ Unlock(a, answer),
         holds[a] = 0 \/ "release" \in failed[a] \/ TryLock(a, e, answer)
  PROVE  /\ \A b \in Agent : Holding(b) => owner' = b /\ holds[b] <= until'
         /\ \A b \in Agent \ {a} : owner' = b => owner = b
         /\ \A b \in Agent \ {a} : owner = b => UNCHANGED store
         /\ TryLock(a, e, answer) /\ owner = a => UNCHANGED store
<1> USE LockAssumption DEF LInv
<1>1. \A b \in Agent \ {a} : owner' = b => owner = b
  BY DEF TryLock, Unlock, store
<1>2. \A b \in Agent \ {a} : owner = b => UNCHANGED store
  BY DEF TryLock, Unlock, store
<1>3. TryLock(a, e, answer) /\ owner = a => UNCHANGED store
  BY DEF TryLock
<1>4. ASSUME NEW b \in Agent, Holding(b) PROVE owner' = b /\ holds[b] <= until'
  <2>1. owner = b /\ holds[b] <= until
    BY <1>4 DEF CountedIsLeased
  <2>2. UNCHANGED store
    BY <1>2, <1>3, <1>4, <2>1 DEF Holding
  <2> QED
    BY <2>1, <2>2 DEF store
<1> QED
  BY <1>1, <1>2, <1>3, <1>4

\* The store answers the request of a call under way.
LEMMA ServeStep ==
  ASSUME LInv, TypeOK', NEW a \in Agent, Serve(a)
  PROVE  Links'
<1> USE DEF LInv
<1> PICK answer \in Replies :
      /\ \/ pc[a] = "acquire" /\ TryLock(a, expiry[a], answer)
         \/ pc[a] = "release" /\ Unlock(a, answer)
      /\ reply' = [reply EXCEPT ![a] = answer]
  BY DEF Serve
<1>1. /\ UNCHANGED <<clock, pc, began, expiry, stray, result, holds, failed>>
      /\ reply[a] = "pending" /\ reply'[a] = answer
      /\ \A b \in Agent \ {a} : reply'[b] = reply[b]
  BY DEF Serve, agents, TypeOK
<1>2. pc[a] = "release" => holds[a] = 0
  BY DEF CallOK
<1>3. /\ \A b \in Agent : Holding(b) => owner' = b /\ holds[b] <= until'
      /\ \A b \in Agent \ {a} : owner' = b => owner = b
      /\ \A b \in Agent \ {a} : owner = b => UNCHANGED store
  BY <1>2, ExpiryType, StoreStep
<1>4. ASSUME NEW b \in Agent PROVE CallOK(b)'
  <2>1. CASE b = a
    <3>1. pc[a] = "acquire" => answer \in {"granted", "refused"}
      BY DEF TryLock
    <3>2. pc[a] = "release" => answer \in {"SUCCESS", "failure"}
      BY DEF Unlock
    <3>3. answer = "granted" => owner' = a /\ began[a] + expiry[a] <= until'
      <4>1. SUFFICES ASSUME answer = "granted"
                     PROVE  owner' = a /\ began[a] + expiry[a] <= until'
        OBVIOUS
      <4>2. owner' = a /\ until' = clock + expiry[a] /\ pc[a] # "idle"
        BY <4>1 DEF TryLock, Unlock
      <4>3. began[a] <= clock
        BY <4>2 DEF CallOK
      <4> QED
        BY <4>2, <4>3, Numbers
    <3>4. answer = "SUCCESS" => owner' # a
      BY LockAssumption DEF TryLock, Unlock
    <3> QED
      BY <2>1, <1>1, <3>1, <3>2, <3>3, <3>4 DEF CallOK
  <2>2. CASE b # a
    <3>1. reply[b] = "granted" /\ "release" \notin failed[b] =>
            \/ owner' = b /\ began[b] + expiry[b] <= until'
            \/ began[b] + expiry[b] <= clock
      BY <2>2, <1>3 DEF CallOK, store
    <3>2. reply[b] = "SUCCESS" /\ owner' = b => "acquire" \in failed[b]
      BY <2>2, <1>3 DEF CallOK
    <3> QED
      BY <2>2, <1>1, <3>1, <3>2 DEF CallOK
  <2> QED
    BY <2>1, <2>2
<1>5. StrayInv'
  BY <1>1 DEF StrayInv
<1>6. CountedIsLeased'
  BY <1>1, <1>3 DEF CountedIsLeased, Holding
<1>7. ReleasedIsFree'
  <2>1. result[a] = "none"
    BY DEF CallOK
  <2> QED
    BY <2>1, <1>1, <1>3 DEF ReleasedIsFree
<1> QED
  BY <1>4, <1>5, <1>6, <1>7 DEF Links

\* A late request arrives: only a release that failed can end a lease so, only
\* an acquire that failed can begin one.
LEMMA StrayStep ==
  ASSUME LInv, TypeOK', NEW r \in stray, ServeStray(r)
  PROVE  Links'
<1> USE DEF LInv
<1> DEFINE a == r.agent
<1>1. a \in Agent /\ r.expiry \in Expiries \cup {0} /\ r.tool \in failed[a]
  BY DEF TypeOK, Requests, StrayInv
<1>2. r.expiry \in Nat
  <2>1. CASE r.expiry = 0
    BY <2>1
  <2>2. CASE r.expiry \in Expiries
    BY <2>2, LockAssumption
  <2> QED
    BY <1>1, <2>1, <2>2
<1> PICK answer \in Replies :
      \/ r.tool = "acquire" /\ TryLock(a, r.expiry, answer)
      \/ r.tool = "release" /\ Unlock(a, answer)
  BY DEF ServeStray
<1>3. /\ UNCHANGED <<clock, pc, began, expiry, reply, result, holds, failed>>
      /\ stray' \subseteq stray
  BY DEF ServeStray, agents
<1>4. /\ \A b \in Agent : Holding(b) => owner' = b /\ holds[b] <= until'
      /\ \A b \in Agent \ {a} : owner' = b => owner = b
      /\ \A b \in Agent \ {a} : owner = b => UNCHANGED store
      /\ TryLock(a, r.expiry, answer) /\ owner = a => UNCHANGED store
  BY <1>1, <1>2, StoreStep
<1>5. owner' = a => owner = a \/ "acquire" \in failed[a]
  BY <1>1, LockAssumption DEF Unlock, store
<1>6. ASSUME NEW b \in Agent PROVE CallOK(b)'
  <2>1. reply[b] = "granted" /\ "release" \notin failed[b] =>
          \/ owner' = b /\ began[b] + expiry[b] <= until'
          \/ began[b] + expiry[b] <= clock
    <3>1. CASE b # a
      BY <3>1, <1>4 DEF CallOK, store
    <3>2. CASE b = a
      <4>1. "release" \notin failed[a] => TryLock(a, r.expiry, answer)
        BY <1>1
      <4> QED
        BY <3>2, <4>1, <1>4 DEF CallOK, store
    <3> QED
      BY <3>1, <3>2
  <2>2. reply[b] = "SUCCESS" /\ owner' = b => "acquire" \in failed[b]
    BY <1>4, <1>5 DEF CallOK
  <2> QED
    BY <1>3, <2>1, <2>2 DEF CallOK
<1>7. StrayInv'
  BY <1>3 DEF StrayInv
<1>8. CountedIsLeased'
  BY <1>3, <1>4 DEF CountedIsLeased, Holding
<1>9. ReleasedIsFree'
  BY <1>3, <1>4, <1>5 DEF ReleasedIsFree
<1> QED
  BY <1>6, <1>7, <1>8, <1>9 DEF Links

\* Every step preserves the invariant.
LEMMA LInvStep == LInv /\ [Next]_vars => LInv'
<1> SUFFICES ASSUME LInv, [Next]_vars PROVE LInv'
  OBVIOUS
<1>1. TypeOK'
  BY TypeStep DEF LInv
<1>2. Links'
  <2>1. CASE Tick
    BY <2>1, <1>1, TickStep
  <2>2. ASSUME NEW a \in Agent, NEW e \in Expiries, Acquire(a, e) PROVE Links'
    BY <2>2, <1>1, SendStep DEF Acquire
  <2>3. ASSUME NEW a \in Agent, Release(a) PROVE Links'
    BY <2>3, <1>1, SendStep DEF Release
  <2>4. ASSUME NEW a \in Agent, Return(a) PROVE Links'
    BY <2>4, <1>1, ReturnStep
  <2>5. ASSUME NEW a \in Agent, GiveUp(a) PROVE Links'
    BY <2>5, <1>1, GiveUpStep
  <2>6. ASSUME NEW a \in Agent, Serve(a) PROVE Links'
    BY <2>6, <1>1, ServeStep
  <2>7. ASSUME NEW r \in stray, ServeStray(r) PROVE Links'
    BY <2>7, <1>1, StrayStep
  <2>8. CASE UNCHANGED vars
    BY <2>8 DEF vars, store, agents, LInv, Links, CallOK, StrayInv,
                CountedIsLeased, ReleasedIsFree, Holding
  <2> QED
    BY <2>1, <2>2, <2>3, <2>4, <2>5, <2>6, <2>7, <2>8
       DEF Next, Step, Timeout, Fail, Quiesce
<1> QED
  BY <1>1, <1>2 DEF LInv, Links

-----------------------------------------------------------------------------
(* Theorems.                                                               *)

\* The invariant LInv holds in every reachable state.
THEOREM Invariance == Spec => []LInv
<1>1. Init => LInv
  BY InitInv
<1>2. LInv /\ [Next]_vars => LInv'
  BY LInvStep
<1> QED
  BY <1>1, <1>2, PTL DEF Spec

\* Whatever tools are called in whatever order, every state is well typed.
THEOREM TypeCorrect == Spec => []TypeOK
<1>1. LInv => TypeOK
  BY DEF LInv
<1> QED
  BY <1>1, Invariance, PTL

\* An agent that counts on the lock has it in the store as long as it counts,
\* unless one of its releases failed.
THEOREM CountsAreLeased == Spec => []CountedIsLeased
<1>1. LInv => CountedIsLeased
  BY DEF LInv
<1> QED
  BY <1>1, Invariance, PTL

\* Two agents none of whose releases failed never count on the lock at once.
THEOREM MutualExclusion == Spec => []Exclusive
<1>1. LInv => Exclusive
  BY DEF LInv, CountedIsLeased, Exclusive
<1> QED
  BY <1>1, Invariance, PTL

\* An agent told that its lock is released does not have it, unless by an
\* acquire that it gave up on.
THEOREM ReleasesAreFree == Spec => []ReleasedIsFree
<1>1. LInv => ReleasedIsFree
  BY DEF LInv
<1> QED
  BY <1>1, Invariance, PTL
=============================================================================
