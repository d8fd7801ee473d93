---------------------------- MODULE SentryProofs ----------------------------
(***************************************************************************)
(* Proofs about the Sentry key cache, for any number of concurrent calls,  *)
(* any publication history and any interval, timeout and clock bound, and  *)
(* then that the authenticator implements TokenVerifier.                   *)
(*                                                                         *)
(* Every step advances the world: the clock, the published version and     *)
(* lastRefresh only grow (Advance).  The frame lemmas show once that this  *)
(* disturbs no fetch and no call; what is left of an action is the one     *)
(* fetch or the one call that it moves.                                    *)
(***************************************************************************)
EXTENDS SentryVerifier, WellFoundedInduction, TLAPS

\* What no step undoes: time, the version and lastRefresh only grow, and a
\* version that was current at a past moment stays so described.
Advance ==
  /\ clock <= clock'
  /\ version <= version'
  /\ lastRefresh <= lastRefresh'
  /\ \A v \in Version, t, s \in Nat :
        t <= clock /\ CurrentAfter(v, t, s) => CurrentAfter(v, t, s)'

\* The initial state has the invariant.
LEMMA InitInv == Init => IInv
<1> SUFFICES ASSUME Init PROVE IInv
  OBVIOUS
<1> USE ConstantsAssumption
<1>1. TypeOK
  BY DEF Init, TypeOK, Version, Proc, NoJwks, Pending, Places, Fetching, Verdicts
<1>2. HistoryInv
  BY DEF Init, HistoryInv, Version
<1>3. CacheInv
  BY DEF Init, CacheInv, CacheAsOf, Proc
<1>4. \A p \in Proc : FetchOK(p)
  BY DEF Init, FetchOK, Fetching, Pending, Proc
<1>5. \A r \in Request : CallOK(r)
  BY DEF Init, CallOK, Proc
<1>6. RetiredKeysExpire /\ PublishedKeyFound
  BY DEF Init, RetiredKeysExpire, PublishedKeyFound, AcceptedOK, MissingOK
<1> QED
  BY <1>1, <1>2, <1>3, <1>4, <1>5, <1>6 DEF IInv

\* The variables of a fetch keep their types when it starts and when it ends.
LEMMA HttpTypes ==
  ASSUME TypeOK, NEW p \in Proc, NEW place,
         Send(p, place) \/ Received(p)
  PROVE  /\ sentAt' \in [Proc -> 0 .. MaxClock]
         /\ reply' \in [Proc -> Version \cup {Pending}]
<1>1. clock \in 0 .. MaxClock /\ 0 \in 0 .. MaxClock
  BY ConstantsAssumption DEF TypeOK
<1>2. sentAt' \in [Proc -> 0 .. MaxClock]
  <2>1. CASE Send(p, place)
    BY <1>1, <2>1 DEF TypeOK, Send
  <2>2. CASE Received(p)
    BY <1>1, <2>2 DEF TypeOK, Received
  <2> QED
    BY <2>1, <2>2
<1>3. reply' \in [Proc -> Version \cup {Pending}]
  <2>1. CASE Send(p, place)
    BY <2>1 DEF TypeOK, Send
  <2>2. CASE Received(p)
    BY <2>2 DEF TypeOK, Received
  <2> QED
    BY <2>1, <2>2
<1> QED
  BY <1>2, <1>3

\* Types are preserved, action by action.
LEMMA TypeStep == TypeOK /\ [Next]_vars => TypeOK'
<1> SUFFICES ASSUME TypeOK, [Next]_vars PROVE TypeOK'
  OBVIOUS
<1> USE ConstantsAssumption DEF TypeOK, external, cache, local, http, Version,
        NoJwks, Pending, Places, Fetching, Verdicts, Proc
<1>1. CASE Tick
  <2>1. clock' \in 0 .. MaxClock
    BY <1>1 DEF Tick
  <2>2. UNCHANGED <<version, publishedAt, jwks, lastRefresh, pc, token, began,
                    seen, seenRefresh, sentAt, reply, outage, verdict>>
    BY <1>1 DEF Tick
  <2> QED
    BY <2>1, <2>2
<1>2. CASE Rotate
  <2>1. version' \in 0 .. MaxVersion
    BY <1>2 DEF Rotate
  <2>2. publishedAt' \in [0 .. MaxVersion -> 0 .. MaxClock]
    BY <1>2 DEF Rotate
  <2>3. UNCHANGED <<clock, jwks, lastRefresh, pc, token, began, seen,
                    seenRefresh, sentAt, reply, outage, verdict>>
    BY <1>2 DEF Rotate
  <2> QED
    BY <2>1, <2>2, <2>3
<1>3. ASSUME NEW p \in Proc, Answer(p) PROVE TypeOK'
  BY <1>3 DEF Answer
<1>4. ASSUME NEW p \in Proc, Install(p) PROVE TypeOK'
  <2>1. AfterRefresh(pc[p]) \in Places
    BY <1>4 DEF Install, AfterRefresh
  <2>2. reply[p] \in Version
    BY <1>4 DEF Install
  <2>3. /\ sentAt' \in [Proc -> 0 .. MaxClock]
        /\ reply' \in [Proc -> Version \cup {Pending}]
    BY <1>4, HttpTypes DEF Install
  <2> QED
    BY <1>4, <2>1, <2>2, <2>3 DEF Install
<1>5. ASSUME NEW p \in Proc, FailRefresh(p) PROVE TypeOK'
  <2>1. /\ sentAt' \in [Proc -> 0 .. MaxClock]
        /\ reply' \in [Proc -> Version \cup {Pending}]
    BY <1>5, HttpTypes DEF FailRefresh
  <2>2. pc' \in [Proc -> Places]
    BY <1>5 DEF FailRefresh, AfterRefresh
  <2>3. outage' \in [Proc -> BOOLEAN] /\ verdict' \in [Request -> Verdicts]
    BY <1>5 DEF FailRefresh
  <2> QED
    BY <1>5, <2>1, <2>2, <2>3 DEF FailRefresh
<1>6. ASSUME NEW r \in Request, Begin(r) PROVE TypeOK'
  <2>1. pc' \in [Proc -> Places]
    BY <1>6 DEF Begin, Finish
  <2>2. verdict' \in [Request -> Verdicts]
    BY <1>6 DEF Begin, Finish
  <2>3. began' \in [Request -> 0 .. MaxClock]
    BY <1>6 DEF Begin
  <2> QED
    BY <1>6, <2>1, <2>2, <2>3 DEF Begin
<1>7. ASSUME NEW r \in Request, Snapshot(r) PROVE TypeOK'
  BY <1>7 DEF Snapshot
<1>8. ASSUME NEW r \in Request, CheckAge(r) PROVE TypeOK'
  <2>1. CASE UNCHANGED http
    <3>1. seenRefresh' \in [Request -> 0 .. MaxClock]
      BY <1>8 DEF CheckAge
    <3>2. pc' \in [Proc -> Places]
      <4>1. r \in Proc
        OBVIOUS
      <4>2. pc' = [pc EXCEPT ![r] = "lookup"] \/ pc' = [pc EXCEPT ![r] = "ageFetch"]
        BY <1>8 DEF CheckAge, Send
      <4> QED
        BY <4>1, <4>2
    <3> QED
      BY <1>8, <2>1, <3>1, <3>2 DEF CheckAge
  <2>2. ASSUME NEW place \in Places, Send(r, place) PROVE TypeOK'
    <3>1. /\ sentAt' \in [Proc -> 0 .. MaxClock]
          /\ reply' \in [Proc -> Version \cup {Pending}]
      BY <2>2, HttpTypes
    <3>2. pc' \in [Proc -> Places]
      BY <2>2 DEF Send
    <3>3. seenRefresh' \in [Request -> 0 .. MaxClock]
      BY <1>8 DEF CheckAge
    <3> QED
      BY <1>8, <3>1, <3>2, <3>3 DEF CheckAge
  <2> QED
    BY <1>8, <2>1, <2>2 DEF CheckAge
<1>9. ASSUME NEW r \in Request, RereadAged(r) PROVE TypeOK'
  BY <1>9 DEF RereadAged
<1>10. ASSUME NEW r \in Request, Lookup(r) PROVE TypeOK'
  <2>1. CASE UNCHANGED http
    BY <1>10, <2>1 DEF Lookup, Send
  <2>2. ASSUME NEW place \in Places, Send(r, place) PROVE TypeOK'
    <3>1. /\ sentAt' \in [Proc -> 0 .. MaxClock]
          /\ reply' \in [Proc -> Version \cup {Pending}]
      BY <2>2, HttpTypes
    <3>2. pc' \in [Proc -> Places]
      BY <2>2 DEF Send
    <3> QED
      BY <1>10, <3>1, <3>2 DEF Lookup
  <2> QED
    BY <1>10, <2>1, <2>2 DEF Lookup
<1>11. ASSUME NEW r \in Request, RereadMissed(r) PROVE TypeOK'
  BY <1>11 DEF RereadMissed, Finish
<1>12. ASSUME NEW r \in Request, Validate(r) PROVE TypeOK'
  <2>1. Judgement(token[r], SigningKey(seen[r], token[r].kid)) \in Verdicts
    <3>1. token[r] \in Token
      OBVIOUS
    <3>2. token[r].subject \in {"none", "foreign", "trusted"}
      BY <3>1, TokenAssumption DEF TokenShape
    <3> QED
      BY <3>2 DEF Judgement
  <2> QED
    BY <1>12, <2>1 DEF Validate, Finish
<1>13. CASE UNCHANGED vars
  BY <1>13 DEF vars
<1> QED
  BY <1>1, <1>2, <1>3, <1>4, <1>5, <1>6, <1>7, <1>8, <1>9, <1>10, <1>11, <1>12,
     <1>13 DEF Next, Fetch, Step, Quiesce

\* The type invariant, for every instance.
THEOREM TypeCorrect == Spec => []TypeOK
<1>1. Init => TypeOK
  BY InitInv DEF IInv
<1> QED
  BY <1>1, TypeStep, PTL DEF Spec

-----------------------------------------------------------------------------

\* The publication history stays ordered.
LEMMA HistoryStep == IInv /\ [Next]_vars => HistoryInv'
<1> SUFFICES ASSUME IInv, [Next]_vars PROVE HistoryInv'
  OBVIOUS
<1> USE ConstantsAssumption DEF IInv, TypeOK, HistoryInv, Version
<1>1. CASE Rotate
  <2>1. \A v \in 0 .. version' : v # version' => v \in 0 .. version
    BY <1>1 DEF Rotate
  <2>2. \A v \in 0 .. version : publishedAt'[v] = publishedAt[v]
    BY <1>1 DEF Rotate
  <2>3. publishedAt'[version'] = clock' /\ clock' = clock
    BY <1>1 DEF Rotate
  <2>4. ASSUME NEW v \in 0 .. version' PROVE publishedAt'[v] <= clock'
    <3>1. clock \in Nat
      OBVIOUS
    <3>2. CASE v = version'
      BY <2>3, <3>1, <3>2
    <3>3. CASE v # version'
      <4>1. v \in 0 .. version
        BY <2>1, <3>3
      <4>2. publishedAt[v] <= clock
        BY <4>1
      <4> QED
        BY <2>2, <2>3, <4>1, <4>2
    <3> QED
      BY <3>2, <3>3
  <2>5. ASSUME NEW v \in 0 .. version', NEW w \in 0 .. version', v <= w
        PROVE  publishedAt'[v] <= publishedAt'[w]
    <3>1. CASE w = version'
      BY <2>3, <2>4, <3>1
    <3>2. CASE w # version'
      <4>1. v # version'
        BY <1>1, <2>5, <3>2 DEF Rotate
      <4> QED
        BY <2>1, <2>2, <2>5, <3>2, <4>1
    <3> QED
      BY <3>1, <3>2
  <2> QED
    BY <2>4, <2>5
<1>2. CASE Tick
  <2>1. version' = version /\ publishedAt' = publishedAt /\ clock' = clock + 1
    BY <1>2 DEF Tick, external
  <2>2. \A v \in 0 .. version : publishedAt[v] \in Nat /\ clock \in Nat
    OBVIOUS
  <2> QED
    BY <2>1, <2>2
<1>3. CASE UNCHANGED <<clock, external>>
  BY <1>3 DEF external
<1> QED
  BY <1>1, <1>2, <1>3 DEF Next, Fetch, Step, Quiesce, Answer, Install,
     FailRefresh, Begin, Snapshot, CheckAge, RereadAged, Lookup, RereadMissed,
     Validate, vars, external

\* Every step advances.
LEMMA StepAdvances == IInv /\ [Next]_vars => Advance
<1> SUFFICES ASSUME IInv, [Next]_vars PROVE Advance
  OBVIOUS
<1> USE ConstantsAssumption
<1>1. clock \in Nat /\ lastRefresh \in Nat /\ lastRefresh <= clock
  BY DEF IInv, TypeOK, CacheInv
<1>2. CASE Rotate
  <2>1. /\ version \in 0 .. MaxVersion /\ version' = version + 1
        /\ clock' = clock /\ lastRefresh' = lastRefresh
        /\ version' \in Version
    BY <1>2 DEF Rotate, IInv, TypeOK, Version, cache
  <2>2. publishedAt'[version'] = clock
    BY <1>2, <2>1 DEF Rotate, IInv, TypeOK
  <2>3. \A v \in Version : v # version' => publishedAt'[v] = publishedAt[v]
    BY <1>2, <2>1 DEF Rotate, IInv, TypeOK
  <2>4. ASSUME NEW v \in Version, NEW t \in Nat, NEW s \in Nat,
               t <= clock, CurrentAfter(v, t, s)
        PROVE  CurrentAfter(v, t, s)'
    <3>1. v \in 0 .. version
      BY <2>4 DEF CurrentAfter
    <3>2. CASE v = version
      <4>1. publishedAt'[v + 1] = clock /\ v \in 0 .. version'
        BY <2>1, <2>2, <3>2
      <4>2. clock + s >= t
        BY <1>1, <2>4
      <4>3. publishedAt'[v + 1] + s >= t
        BY <4>1, <4>2
      <4> QED
        BY <4>1, <4>3 DEF CurrentAfter
    <3>3. CASE v # version
      <4>1. v + 1 \in Version /\ v + 1 # version'
        BY <2>1, <3>1, <3>3 DEF Version
      <4> QED
        BY <2>1, <2>3, <2>4, <3>1, <3>3, <4>1 DEF CurrentAfter
    <3> QED
      BY <3>2, <3>3
  <2> QED
    BY <1>1, <2>1, <2>4 DEF Advance
<1>3. CASE UNCHANGED external
  <2>1. version' = version /\ publishedAt' = publishedAt
    BY <1>3 DEF external
  <2>2. version \in Nat
    BY DEF IInv, TypeOK, Version
  <2>3. clock <= clock'
    BY <1>1, <1>3 DEF Next, Fetch, Step, Quiesce, Tick, Rotate, Answer, Install,
       FailRefresh, Begin, Snapshot, CheckAge, RereadAged, Lookup, RereadMissed,
       Validate, vars
  <2>4. lastRefresh <= lastRefresh'
    BY <1>1, <1>3 DEF Next, Fetch, Step, Quiesce, Tick, Rotate, Answer, Install,
       FailRefresh, Begin, Snapshot, CheckAge, RereadAged, Lookup, RereadMissed,
       Validate, vars, cache
  <2> QED
    BY <2>1, <2>2, <2>3, <2>4 DEF Advance, CurrentAfter
<1> QED
  BY <1>2, <1>3 DEF Next, Fetch, Step, Quiesce, Tick, Answer, Install,
     FailRefresh, Begin, Snapshot, CheckAge, RereadAged, Lookup, RereadMissed,
     Validate, vars, external

\* A step that leaves a fetch alone leaves it in order.
LEMMA FetchFrame ==
  ASSUME IInv, TypeOK', Advance, NEW p \in Proc,
         pc'[p] = pc[p], sentAt'[p] = sentAt[p], reply'[p] = reply[p],
         pc[p] \in Fetching => clock' <= sentAt[p] + FetchTimeout
  PROVE  FetchOK(p)'
<1>1. /\ FetchOK(p) /\ sentAt[p] \in Nat /\ clock \in Nat /\ clock' \in Nat
      /\ 0 \in Nat
  BY ConstantsAssumption DEF IInv, TypeOK
<1>2. reply[p] # Pending => reply[p] \in Version
  BY DEF IInv, TypeOK
<1>3. clock <= clock'
  BY DEF Advance
<1>4. reply[p] # Pending => CurrentAfter(reply[p], sentAt[p], 0)'
  <2> HAVE reply[p] # Pending
  <2>1. sentAt[p] <= clock /\ CurrentAfter(reply[p], sentAt[p], 0)
    BY <1>1 DEF FetchOK
  <2>2. \A v \in Version, t, s \in Nat :
           t <= clock /\ CurrentAfter(v, t, s) => CurrentAfter(v, t, s)'
    BY DEF Advance
  <2> DEFINE v == reply[p]
             t == sentAt[p]
  <2>3. v \in Version /\ t \in Nat
    BY <1>1, <1>2
  <2> QED
    BY <1>1, <2>1, <2>2, <2>3 DEF CurrentAfter
<1> QED
  BY <1>1, <1>3, <1>4 DEF FetchOK, Pending, CurrentAfter

\* The place of the first match is a match.
LEMMA FirstMatch ==
  ASSUME NEW v \in Version, NEW kid, Matching(v, kid) # {}
  PROVE  Min(Matching(v, kid)) \in Matching(v, kid)
<1> DEFINE S == Matching(v, kid)
           R == {ss \in Nat \X Nat : ss[1] < ss[2]}
<1>1. S \subseteq Nat
  BY ConstantsAssumption DEF Matching
<1>2. \E x \in S : \A y \in S : <<y, x>> \notin R
  <2>1. IsWellFoundedOn(R, Nat)
    BY NatLessThanWellFounded DEF OpToRel
  <2> HIDE DEF S, R
  <2>2. S # {}
    BY DEF S
  <2> QED
    BY <1>1, <2>1, <2>2, WFMin
<1>3. \E x \in S : \A y \in S : x <= y
  <2>1. PICK x \in S : \A y \in S : <<y, x>> \notin R
    BY <1>2
  <2>2. \A y \in S : ~(y < x)
    BY <1>1, <2>1
  <2> QED
    BY <1>1, <2>2
<1> QED
  BY <1>3 DEF Min

\* What a call knows of its snapshot survives a step that leaves the call alone.
LEMMA CallFrame ==
  ASSUME IInv, TypeOK', Advance, NEW r \in Request,
         pc'[r] = pc[r], token'[r] = token[r], began'[r] = began[r],
         seen'[r] = seen[r], seenRefresh'[r] = seenRefresh[r],
         outage'[r] = outage[r], verdict'[r] = verdict[r],
         pc'[Ctor] = pc[Ctor] \/ pc[Ctor] = "constructing"
  PROVE  CallOK(r)'
<1>1. /\ CallOK(r) /\ began[r] \in Nat /\ seenRefresh[r] \in Nat
      /\ clock \in Nat /\ lastRefresh \in Nat /\ version \in Nat
      /\ clock' \in Nat /\ lastRefresh' \in Nat /\ version' \in Nat
      /\ FetchTimeout \in Nat /\ RefreshInterval + FetchTimeout \in Nat
  BY ConstantsAssumption DEF IInv, TypeOK, Version
<1>2. clock <= clock' /\ lastRefresh <= lastRefresh' /\ version <= version'
  BY DEF Advance
<1>3. \A v \in Version, t, s \in Nat :
         t <= clock /\ CurrentAfter(v, t, s) => CurrentAfter(v, t, s)'
  BY DEF Advance
<1>4. ASSUME NEW t \in Nat, NEW s \in Nat, t <= clock, CurrentAfter(seen[r], t, s)
      PROVE  CurrentAfter(seen[r], t, s)'
  <2>1. seen[r] \in Version
    <3>1. seen[r] \in 0 .. version
      BY <1>4 DEF CurrentAfter
    <3>2. MaxVersion \in Nat /\ version \in 0 .. MaxVersion
      BY ConstantsAssumption DEF IInv, TypeOK, Version
    <3> QED
      BY <3>1, <3>2 DEF Version
  <2>2. PICK v \in Version : v = seen[r]
    BY <2>1
  <2>3. CurrentAfter(v, t, s)
    BY <1>4, <2>2
  <2>4. CurrentAfter(v, t, s)'
    BY <1>3, <1>4, <2>3
  <2>5. seen'[r] = v
    BY <2>2
  <2> QED
    BY <2>4, <2>5 DEF CurrentAfter
<1>5. pc'[r] \notin {"constructing", "ready", "failed"}
      /\ (pc'[r] # "idle" => pc'[Ctor] = "ready") /\ began'[r] <= clock'
  BY <1>1, <1>2 DEF CallOK
<1>6. pc[r] = "check" =>
        /\ seenRefresh[r] <= clock'
        /\ CurrentAfter(seen[r], seenRefresh[r], FetchTimeout)'
  <2> HAVE pc[r] = "check"
  <2>1. /\ seenRefresh[r] <= clock
        /\ CurrentAfter(seen[r], seenRefresh[r], FetchTimeout)
    BY <1>1 DEF CallOK
  <2>2. CurrentAfter(seen[r], seenRefresh[r], FetchTimeout)'
    BY <1>1, <1>4, <2>1
  <2> QED
    BY <1>1, <1>2, <2>1, <2>2
<1>7. pc[r] \in {"lookup", "verify"} =>
        /\ seen[r] \in 0 .. version'
        /\ \/ outage[r]
           \/ CurrentAfter(seen[r], began[r], RefreshInterval + FetchTimeout)'
  <2> HAVE pc[r] \in {"lookup", "verify"}
  <2>1. /\ began[r] <= clock
        /\ seen[r] \in 0 .. version
        /\ outage[r] \/ CurrentAfter(seen[r], began[r], RefreshInterval + FetchTimeout)
    BY <1>1 DEF CallOK
  <2>2. seen[r] \in 0 .. version'
    BY <1>1, <1>2, <2>1
  <2> QED
    BY <1>1, <1>4, <2>1, <2>2
<1> QED
  BY <1>1, <1>2, <1>5, <1>6, <1>7 DEF CallOK, CurrentAfter

\* A verdict that was sound stays sound.
LEMMA VerdictFrame ==
  ASSUME IInv, TypeOK', Advance, NEW r \in Request, verdict'[r] = verdict[r],
         verdict[r] # "none" =>
            token'[r] = token[r] /\ began'[r] = began[r] /\ (outage[r] => outage'[r])
  PROVE  AcceptedOK(r)' /\ MissingOK(r)'
<1>1. /\ AcceptedOK(r) /\ MissingOK(r) /\ CallOK(r)
      /\ began[r] \in Nat /\ version \in Nat /\ version' \in Nat
      /\ version <= version' /\ version <= MaxVersion
      /\ FetchTimeout \in Nat /\ RefreshInterval + FetchTimeout \in Nat
      /\ began[r] <= clock
  BY ConstantsAssumption
     DEF IInv, TypeOK, Version, RetiredKeysExpire, PublishedKeyFound, CallOK, Advance
<1>2. ASSUME NEW v \in 0 .. version
      PROVE  /\ v \in 0 .. version' /\ v \in Version
             /\ CurrentAfter(v, began[r], FetchTimeout) /\ began'[r] = began[r] =>
                  CurrentAfter(v, began[r], FetchTimeout)'
             /\ /\ CurrentAfter(v, began[r], RefreshInterval + FetchTimeout)
                /\ began'[r] = began[r]
                => CurrentAfter(v, began[r], RefreshInterval + FetchTimeout)'
  <2>1. v \in 0 .. version' /\ v \in Version
    BY <1>1, <1>2, ConstantsAssumption DEF Version
  <2> QED
    BY <1>1, <2>1 DEF Advance, CurrentAfter
<1>3. AcceptedOK(r)'
  <2> SUFFICES ASSUME verdict[r] = "accepted"
               PROVE  \E v \in 0 .. version' :
                        /\ Vouches(v, token'[r])
                        /\ \/ outage'[r]
                           \/ CurrentAfter(v, began[r], RefreshInterval + FetchTimeout)'
    BY DEF AcceptedOK, Vouches
  <2>1. PICK v \in 0 .. version :
          /\ Vouches(v, token[r])
          /\ outage[r] \/ CurrentAfter(v, began[r], RefreshInterval + FetchTimeout)
    BY <1>1 DEF AcceptedOK
  <2> QED
    BY <1>2, <2>1
<1>4. MissingOK(r)'
  <2> SUFFICES ASSUME verdict[r] = "unknown_key"
               PROVE  \E v \in 0 .. version' :
                        /\ CurrentAfter(v, began[r], FetchTimeout)'
                        /\ Matching(v, token'[r].kid) = {}
    BY DEF MissingOK, Matching
  <2>1. PICK v \in 0 .. version : /\ CurrentAfter(v, began[r], FetchTimeout)
                                  /\ Matching(v, token[r].kid) = {}
    BY <1>1 DEF MissingOK
  <2> QED
    BY <1>2, <2>1
<1> QED
  BY <1>3, <1>4

\* The cache invariant, when the cache itself does not change.
LEMMA CacheFrame ==
  ASSUME IInv, TypeOK', Advance, UNCHANGED cache,
         pc'[Ctor] = pc[Ctor] \/ pc'[Ctor] = "failed"
  PROVE  CacheInv'
<1>1. /\ lastRefresh \in Nat /\ lastRefresh <= clock /\ clock <= clock'
      /\ clock \in Nat /\ clock' \in Nat /\ FetchTimeout \in Nat
      /\ jwks' = jwks /\ lastRefresh' = lastRefresh
      /\ jwks # NoJwks => jwks \in Version
  BY ConstantsAssumption DEF IInv, TypeOK, CacheInv, Advance, cache
<1>2. CacheAsOf'
  <2> SUFFICES ASSUME jwks # NoJwks
               PROVE  CurrentAfter(jwks, lastRefresh, FetchTimeout)'
    BY <1>1 DEF CacheAsOf, NoJwks
  <2> DEFINE v == jwks
  <2>1. v \in Version /\ CurrentAfter(v, lastRefresh, FetchTimeout)
    BY <1>1 DEF IInv, CacheInv, CacheAsOf
  <2> QED
    BY <1>1, <2>1 DEF Advance, CurrentAfter
<1> QED
  BY <1>1, <1>2 DEF IInv, CacheInv, NoJwks

\* A step of call a touches no other call's variables.
MovesOnly(a) ==
  /\ clock' = clock
  /\ \A p \in Proc \ {a} :
        /\ pc'[p] = pc[p] /\ outage'[p] = outage[p]
        /\ sentAt'[p] = sentAt[p] /\ reply'[p] = reply[p]
  /\ \A r \in Request \ {a} :
        /\ token'[r] = token[r] /\ began'[r] = began[r] /\ seen'[r] = seen[r]
        /\ seenRefresh'[r] = seenRefresh[r] /\ verdict'[r] = verdict[r]
  /\ pc'[Ctor] = pc[Ctor] \/ pc[Ctor] = "constructing"

\* So everything the invariant says of the others still holds.
LEMMA OthersFrame ==
  ASSUME IInv, TypeOK', Advance, NEW a \in Proc, MovesOnly(a)
  PROVE  /\ \A p \in Proc \ {a} : FetchOK(p)'
         /\ \A r \in Request \ {a} : CallOK(r)' /\ AcceptedOK(r)' /\ MissingOK(r)'
<1>1. ASSUME NEW p \in Proc \ {a} PROVE FetchOK(p)'
  <2>1. pc[p] \in Fetching => clock' <= sentAt[p] + FetchTimeout
    BY DEF IInv, FetchOK, MovesOnly
  <2> QED
    BY <2>1, FetchFrame DEF MovesOnly
<1>2. ASSUME NEW r \in Request \ {a}
      PROVE  CallOK(r)' /\ AcceptedOK(r)' /\ MissingOK(r)'
  <2>1. r \in Proc
    BY DEF Proc
  <2> QED
    BY <2>1, CallFrame, VerdictFrame DEF MovesOnly
<1> QED
  BY <1>1, <1>2

\* A step of call a keeps the invariant if it keeps the cache's and a's part.
LEMMA OneMoves ==
  ASSUME IInv, TypeOK', HistoryInv', Advance, NEW a \in Proc, MovesOnly(a),
         CacheInv', FetchOK(a)',
         a \in Request => CallOK(a)' /\ AcceptedOK(a)' /\ MissingOK(a)'
  PROVE  IInv'
<1>1. \A p \in Proc : FetchOK(p)'
  BY OthersFrame
<1>2. \A r \in Request : CallOK(r)' /\ AcceptedOK(r)' /\ MissingOK(r)'
  BY OthersFrame
<1> QED
  BY <1>1, <1>2 DEF IInv, RetiredKeysExpire, PublishedKeyFound

\* The clock and Sentry's rotation.
LEMMA WorldStep ==
  ASSUME IInv, TypeOK', HistoryInv', Advance, Tick \/ Rotate \/ UNCHANGED vars
  PROVE  IInv'
<1>1. UNCHANGED <<cache, pc, local, http, outage, verdict>>
  BY DEF Tick, Rotate, vars
<1>2. ASSUME NEW p \in Proc PROVE FetchOK(p)'
  <2>1. /\ clock \in Nat /\ sentAt[p] \in Nat /\ FetchTimeout \in Nat
        /\ FetchOK(p)
    BY ConstantsAssumption DEF IInv, TypeOK
  <2>2. pc[p] \in Fetching => clock' <= sentAt[p] + FetchTimeout
    BY <2>1 DEF Tick, Rotate, Overdue, vars, FetchOK
  <2> QED
    BY <1>1, <2>2, FetchFrame DEF http
<1>3. ASSUME NEW r \in Request PROVE CallOK(r)' /\ AcceptedOK(r)' /\ MissingOK(r)'
  BY <1>1, CallFrame, VerdictFrame DEF local
<1>4. CacheInv'
  BY <1>1, CacheFrame
<1> QED
  BY <1>2, <1>3, <1>4 DEF IInv, RetiredKeysExpire, PublishedKeyFound

\* The three steps of a fetch.
LEMMA FetchStep ==
  ASSUME IInv, TypeOK', HistoryInv', Advance, NEW p \in Proc, Fetch(p)
  PROVE  IInv'
<1>1. /\ clock \in Nat /\ clock' = clock /\ sentAt[p] \in Nat
      /\ FetchTimeout \in Nat /\ lastRefresh \in Nat /\ FetchOK(p)
      /\ version \in Version /\ MaxVersion \in Nat /\ pc[p] \in Fetching
      /\ UNCHANGED <<clock, external, local>>
      /\ p \in Request => CallOK(p) /\ began[p] \in Nat
      /\ p \notin Request => p = Ctor
      /\ Ctor \in Proc /\ Ctor \notin Request
      /\ pc[Ctor] \in {"constructing", "ready", "failed"}
  BY ConstantsAssumption
     DEF IInv, TypeOK, CacheInv, Fetch, Answer, Install, FailRefresh, local, Proc
<1>2. p = Ctor => pc[p] = "constructing"
  BY <1>1 DEF Fetching
<1>3. p \in Request => pc[p] \in {"ageFetch", "missFetch"} /\ verdict[p] = "none"
  BY <1>1 DEF Fetching, CallOK
<1>4. /\ pc \in [Proc -> Places] /\ sentAt \in [Proc -> 0 .. MaxClock]
      /\ reply \in [Proc -> Version \cup {Pending}] /\ outage \in [Proc -> BOOLEAN]
      /\ verdict \in [Request -> Verdicts]
  BY DEF IInv, TypeOK
<1>5. MovesOnly(p)
  <2>1. \A q \in Proc \ {p} : /\ pc'[q] = pc[q] /\ outage'[q] = outage[q]
                              /\ sentAt'[q] = sentAt[q] /\ reply'[q] = reply[q]
    BY <1>4 DEF Fetch, Answer, Install, FailRefresh, Received
  <2>2. \A r \in Request \ {p} : verdict'[r] = verdict[r]
    BY <1>4 DEF Fetch, Answer, Install, FailRefresh
  <2> QED
    BY <1>1, <1>2, <2>1, <2>2 DEF MovesOnly, local
<1>6. CASE Answer(p)
  <2>1. /\ reply'[p] = version /\ sentAt' = sentAt /\ pc' = pc
        /\ UNCHANGED <<cache, version, verdict, outage>>
    BY <1>4, <1>6 DEF Answer, external
  <2>2. FetchOK(p)'
    BY <1>1, <2>1 DEF FetchOK, CurrentAfter, Version
  <2>3. p \in Request => CallOK(p)' /\ AcceptedOK(p)' /\ MissingOK(p)'
    BY <1>1, <2>1, CallFrame, VerdictFrame DEF local
  <2>4. CacheInv'
    BY <2>1, CacheFrame
  <2> QED
    BY <1>5, <2>2, <2>3, <2>4, OneMoves
<1>7. CASE Install(p)
  <2>1. /\ jwks' = reply[p] /\ reply[p] # Pending /\ lastRefresh' = clock
        /\ pc'[p] = AfterRefresh(pc[p]) /\ reply'[p] = Pending
        /\ UNCHANGED <<version, publishedAt, verdict, outage>>
    BY <1>4, <1>7 DEF Install, Received, external
  <2>2. reply[p] \in 0 .. version
        /\ (reply[p] = version \/ publishedAt[reply[p] + 1] + FetchTimeout >= clock)
    <3>1. /\ reply[p] \in 0 .. version
          /\ reply[p] = version \/ publishedAt[reply[p] + 1] + 0 >= sentAt[p]
          /\ clock <= sentAt[p] + FetchTimeout
      BY <1>1, <2>1 DEF FetchOK, CurrentAfter
    <3>2. CASE reply[p] # version
      <4>1. publishedAt[reply[p] + 1] \in Nat
        <5>1. reply[p] + 1 \in Version
          BY <1>1, <3>1, <3>2 DEF Version
        <5>2. publishedAt \in [Version -> 0 .. MaxClock]
          BY DEF IInv, TypeOK
        <5> QED
          BY <5>1, <5>2
      <4> QED
        BY <1>1, <3>1, <3>2, <4>1
    <3> QED
      BY <3>1, <3>2
  <2>3. CacheInv'
    <3>1. CacheAsOf'
      BY <2>1, <2>2 DEF CacheAsOf, CurrentAfter
    <3>2. jwks' # NoJwks
      BY <1>1, <2>1, <2>2 DEF Version, NoJwks
    <3>3. pc'[Ctor] \in {"constructing", "ready", "failed"}
      <4>1. CASE p = Ctor
        BY <1>2, <2>1, <4>1 DEF AfterRefresh
      <4>2. CASE p # Ctor
        BY <1>1, <1>5, <4>2 DEF MovesOnly
      <4> QED
        BY <4>1, <4>2
    <3> QED
      BY <1>1, <2>1, <3>1, <3>2, <3>3 DEF CacheInv, NoJwks
  <2>4. pc'[p] \in {"ready", "ageReread", "missReread"}
    BY <1>2, <1>3, <1>1, <2>1 DEF AfterRefresh
  <2>5. FetchOK(p)'
    BY <2>1, <2>4 DEF FetchOK, Fetching, Pending
  <2>6. ASSUME p \in Request PROVE CallOK(p)' /\ AcceptedOK(p)' /\ MissingOK(p)'
    <3>1. AcceptedOK(p)' /\ MissingOK(p)'
      BY <1>1, <2>1, <2>6, VerdictFrame DEF local
    <3>2. pc'[p] \in {"ageReread", "missReread"}
      BY <1>3, <2>1, <2>6 DEF AfterRefresh
    <3>3. pc[Ctor] = "ready" /\ pc'[Ctor] = "ready"
      BY <1>1, <1>3, <1>5, <2>6 DEF CallOK, MovesOnly
    <3>4. began'[p] = began[p] /\ began[p] <= clock /\ verdict'[p] = "none"
      BY <1>1, <1>3, <2>1, <2>6 DEF CallOK, local
    <3>5. CallOK(p)'
      BY <1>1, <2>1, <3>2, <3>3, <3>4 DEF CallOK
    <3> QED
      BY <3>1, <3>5
  <2> QED
    BY <1>5, <2>3, <2>5, <2>6, OneMoves
<1>8. CASE FailRefresh(p)
  <2>1. /\ outage'[p] = TRUE /\ reply'[p] = Pending /\ UNCHANGED cache
    BY <1>4, <1>8 DEF FailRefresh, Received
  <2>2. \/ pc[p] = "constructing" /\ pc'[p] = "failed" /\ verdict' = verdict
        \/ pc[p] = "ageFetch" /\ pc'[p] = "ageReread" /\ verdict' = verdict
        \/ pc[p] = "missFetch" /\ pc'[p] = "done"
             /\ verdict' = [verdict EXCEPT ![p] = "refresh_failed"]
    BY <1>4, <1>8 DEF FailRefresh
  <2>3. FetchOK(p)'
    BY <2>1, <2>2 DEF FetchOK, Fetching, Pending
  <2>4. CacheInv'
    <3>1. pc'[Ctor] = pc[Ctor] \/ pc'[Ctor] = "failed"
      BY <1>1, <1>2, <1>5, <2>2 DEF MovesOnly
    <3> QED
      BY <2>1, <3>1, CacheFrame
  <2>5. ASSUME p \in Request PROVE CallOK(p)' /\ AcceptedOK(p)' /\ MissingOK(p)'
    <3>1. pc'[Ctor] = "ready" /\ began'[p] = began[p] /\ began[p] <= clock
      BY <1>1, <1>3, <1>5, <2>5 DEF CallOK, MovesOnly, local
    <3>2. CASE pc[p] = "ageFetch"
      <4>1. pc'[p] = "ageReread" /\ verdict'[p] = "none"
        BY <1>3, <2>2, <2>5, <3>2
      <4> QED
        BY <1>1, <2>1, <3>1, <4>1 DEF CallOK, AcceptedOK, MissingOK
    <3>3. CASE pc[p] = "missFetch"
      <4>1. pc'[p] = "done" /\ verdict'[p] = "refresh_failed"
        BY <1>4, <2>2, <2>5, <3>3
      <4> QED
        BY <1>1, <2>1, <3>1, <4>1 DEF CallOK, AcceptedOK, MissingOK
    <3> QED
      BY <1>3, <2>5, <3>2, <3>3
  <2> QED
    BY <1>5, <2>3, <2>4, <2>5, OneMoves
<1> QED
  BY <1>6, <1>7, <1>8 DEF Fetch

\* The steps of Authenticate and getSigningKey.
LEMMA CallStep ==
  ASSUME IInv, TypeOK', HistoryInv', Advance, NEW r \in Request, Begin(r) \/ Step(r)
  PROVE  IInv'
<1> DEFINE slack == RefreshInterval + FetchTimeout
<1>1. /\ clock \in Nat /\ lastRefresh \in Nat /\ lastRefresh <= clock
      /\ FetchTimeout \in Nat /\ RefreshInterval \in Nat /\ MaxVersion \in Nat
      /\ version \in Version /\ began[r] \in Nat /\ seenRefresh[r] \in Nat
      /\ jwks \in Version \cup {NoJwks} /\ CacheAsOf
      /\ r \in Proc /\ Ctor \in Proc /\ r # Ctor /\ outage[r] \in BOOLEAN
      /\ CallOK(r) /\ FetchOK(r)
      /\ pc[Ctor] = "ready" => jwks # NoJwks
  BY ConstantsAssumption DEF IInv, TypeOK, CacheInv, Proc
<1>2. /\ UNCHANGED <<clock, external, cache, token, outage>>
      /\ pc[Ctor] = "ready" /\ pc[r] # "done"
  BY <1>1 DEF Begin, Step, Snapshot, CheckAge, RereadAged, Lookup, RereadMissed,
     Validate, CallOK, local
<1>3. /\ pc \in [Proc -> Places] /\ sentAt \in [Proc -> 0 .. MaxClock]
      /\ reply \in [Proc -> Version \cup {Pending}]
      /\ verdict \in [Request -> Verdicts] /\ began \in [Request -> 0 .. MaxClock]
      /\ seen \in [Request -> Version \cup {NoJwks}]
      /\ seenRefresh \in [Request -> 0 .. MaxClock]
  BY DEF IInv, TypeOK
<1>4. MovesOnly(r)
  <2>1. \A q \in Proc \ {r} : /\ pc'[q] = pc[q] /\ outage'[q] = outage[q]
                              /\ sentAt'[q] = sentAt[q] /\ reply'[q] = reply[q]
    BY <1>2, <1>3 DEF Begin, Step, Snapshot, CheckAge, RereadAged, Lookup,
       RereadMissed, Validate, Finish, Send, http
  <2>2. \A q \in Request \ {r} :
           /\ began'[q] = began[q] /\ seen'[q] = seen[q]
           /\ seenRefresh'[q] = seenRefresh[q] /\ verdict'[q] = verdict[q]
    BY <1>2, <1>3 DEF Begin, Step, Snapshot, CheckAge, RereadAged, Lookup,
       RereadMissed, Validate, Finish, local
  <2> QED
    BY <1>1, <1>2, <2>1, <2>2 DEF MovesOnly
<1>5. /\ pc'[Ctor] = "ready" /\ verdict[r] = "none" /\ began[r] <= clock
      /\ clock' = clock /\ jwks' = jwks /\ lastRefresh' = lastRefresh
      /\ version' = version /\ publishedAt' = publishedAt /\ token' = token
      /\ outage' = outage /\ jwks \in Version
      /\ CurrentAfter(jwks, lastRefresh, FetchTimeout)
  BY <1>1, <1>2, <1>4 DEF MovesOnly, external, cache, CallOK, CacheAsOf
<1>6. CacheInv'
  BY <1>2, <1>5, CacheFrame
<1>7. \A v, t, s : CurrentAfter(v, t, s)' <=> CurrentAfter(v, t, s)
  BY <1>5 DEF CurrentAfter
\* A snapshot taken when the cache was refreshed after the call began.
<1>8. began[r] <= lastRefresh =>
        CurrentAfter(jwks, began[r], FetchTimeout) /\ CurrentAfter(jwks, began[r], slack)
  <2> SUFFICES ASSUME began[r] <= lastRefresh, jwks # version
               PROVE  /\ publishedAt[jwks + 1] + FetchTimeout >= began[r]
                      /\ publishedAt[jwks + 1] + slack >= began[r]
    BY <1>5 DEF CurrentAfter
  <2>1. jwks \in 0 .. version /\ publishedAt[jwks + 1] + FetchTimeout >= lastRefresh
    BY <1>5 DEF CurrentAfter
  <2>2. publishedAt[jwks + 1] \in Nat
    <3>1. jwks + 1 \in Version
      BY <1>1, <2>1 DEF Version
    <3>2. publishedAt \in [Version -> 0 .. MaxClock]
      BY DEF IInv, TypeOK
    <3> QED
      BY <3>1, <3>2
  <2> QED
    BY <1>1, <2>1, <2>2
<1>9. CASE Begin(r)
  <2>1. /\ pc[r] = "idle" /\ began'[r] = clock /\ UNCHANGED http
        /\ \/ pc'[r] = "snapshot" /\ verdict'[r] = "none"
           \/ pc'[r] = "done" /\ verdict'[r] = "bad_jwt"
    BY <1>1, <1>3, <1>5, <1>9 DEF Begin, Finish
  <2>2. FetchOK(r)'
    BY <1>1, <1>5, <2>1 DEF FetchOK, Fetching, http
  <2>3. CallOK(r)' /\ AcceptedOK(r)' /\ MissingOK(r)'
    BY <1>1, <1>5, <2>1 DEF CallOK, AcceptedOK, MissingOK
  <2> QED
    BY <1>1, <1>4, <1>6, <2>2, <2>3, OneMoves
<1>10. CASE Snapshot(r)
  <2>1. /\ pc[r] = "snapshot" /\ pc'[r] = "check" /\ UNCHANGED <<began, http, verdict>>
        /\ seen'[r] = jwks /\ seenRefresh'[r] = lastRefresh
    BY <1>1, <1>3, <1>10 DEF Snapshot
  <2>2. FetchOK(r)'
    BY <1>1, <1>5, <2>1 DEF FetchOK, Fetching, http
  <2>3. CallOK(r)' /\ AcceptedOK(r)' /\ MissingOK(r)'
    BY <1>1, <1>5, <2>1 DEF CallOK, AcceptedOK, MissingOK, CurrentAfter
  <2> QED
    BY <1>1, <1>4, <1>6, <2>2, <2>3, OneMoves
<1>11. CASE CheckAge(r)
  <2>1. /\ pc[r] = "check" /\ UNCHANGED <<began, seen, verdict>>
        /\ \/ pc'[r] = "ageFetch" /\ sentAt'[r] = clock /\ reply'[r] = Pending
           \/ /\ ~Expired(seenRefresh[r]) /\ pc'[r] = "lookup" /\ UNCHANGED http
    BY <1>1, <1>3, <1>11 DEF CheckAge, Send
  <2>2. FetchOK(r)'
    BY <1>1, <1>5, <2>1 DEF FetchOK, Fetching, http
  <2>3. pc'[r] = "lookup" => CurrentAfter(seen[r], began[r], slack)
    <3>1. /\ seenRefresh[r] <= clock
          /\ CurrentAfter(seen[r], seenRefresh[r], FetchTimeout)
      BY <1>1, <2>1 DEF CallOK
    <3> SUFFICES ASSUME clock - seenRefresh[r] <= RefreshInterval,
                        seen[r] # version
                 PROVE  publishedAt[seen[r] + 1] + slack >= began[r]
      BY <1>1, <2>1, <3>1 DEF Expired, CurrentAfter
    <3>2. seen[r] \in 0 .. version /\ publishedAt[seen[r] + 1] + FetchTimeout >= seenRefresh[r]
      BY <3>1 DEF CurrentAfter
    <3>3. publishedAt[seen[r] + 1] \in Nat
      <4>1. seen[r] + 1 \in Version
        BY <1>1, <3>2 DEF Version
      <4>2. publishedAt \in [Version -> 0 .. MaxClock]
        BY DEF IInv, TypeOK
      <4> QED
        BY <4>1, <4>2
    <3> QED
      BY <1>1, <1>5, <3>2, <3>3
  <2>4. CallOK(r)'
    BY <1>1, <1>5, <2>1, <2>3 DEF CallOK, CurrentAfter
  <2>5. AcceptedOK(r)' /\ MissingOK(r)'
    BY <1>5, <2>1 DEF AcceptedOK, MissingOK
  <2> QED
    BY <1>1, <1>4, <1>6, <2>2, <2>4, <2>5, OneMoves
<1>12. CASE RereadAged(r)
  <2>1. /\ pc[r] = "ageReread" /\ pc'[r] = "lookup" /\ UNCHANGED <<began, http, verdict>>
        /\ seen'[r] = jwks
    BY <1>1, <1>3, <1>12 DEF RereadAged
  <2>2. FetchOK(r)'
    BY <1>1, <1>5, <2>1 DEF FetchOK, Fetching, http
  <2>3. outage[r] \/ CurrentAfter(jwks, began[r], slack)
    BY <1>1, <1>8, <2>1 DEF CallOK
  <2>4. CallOK(r)'
    BY <1>1, <1>5, <2>1, <2>3 DEF CallOK, CurrentAfter
  <2>5. AcceptedOK(r)' /\ MissingOK(r)'
    BY <1>5, <2>1 DEF AcceptedOK, MissingOK
  <2> QED
    BY <1>1, <1>4, <1>6, <2>2, <2>4, <2>5, OneMoves
<1>13. CASE Lookup(r)
  <2>1. /\ pc[r] = "lookup" /\ UNCHANGED <<began, seen, seenRefresh, verdict>>
        /\ \/ pc'[r] = "missFetch" /\ sentAt'[r] = clock /\ reply'[r] = Pending
           \/ /\ pc'[r] = "verify" /\ UNCHANGED http
              /\ Matching(seen[r], token[r].kid) # {}
    BY <1>1, <1>3, <1>13 DEF Lookup, Send, local
  <2>2. FetchOK(r)'
    BY <1>1, <1>5, <2>1 DEF FetchOK, Fetching, http
  <2>3. CallOK(r)'
    BY <1>1, <1>5, <2>1 DEF CallOK, CurrentAfter, Matching
  <2>4. AcceptedOK(r)' /\ MissingOK(r)'
    BY <1>5, <2>1 DEF AcceptedOK, MissingOK
  <2> QED
    BY <1>1, <1>4, <1>6, <2>2, <2>3, <2>4, OneMoves
<1>14. CASE RereadMissed(r)
  <2>1. /\ pc[r] = "missReread" /\ UNCHANGED <<began, http>> /\ seen'[r] = jwks
        /\ \/ /\ pc'[r] = "done" /\ verdict'[r] = "unknown_key"
              /\ Matching(jwks, token[r].kid) = {}
           \/ /\ pc'[r] = "verify" /\ verdict'[r] = "none"
              /\ Matching(jwks, token[r].kid) # {}
    BY <1>1, <1>3, <1>5, <1>14 DEF RereadMissed, Finish
  <2>2. FetchOK(r)'
    BY <1>1, <1>5, <2>1 DEF FetchOK, Fetching, http
  <2>3. CurrentAfter(jwks, began[r], FetchTimeout) /\ CurrentAfter(jwks, began[r], slack)
    BY <1>1, <1>8, <2>1 DEF CallOK
  <2>4. CallOK(r)'
    BY <1>1, <1>5, <2>1, <2>3 DEF CallOK, CurrentAfter, Matching
  <2>5. AcceptedOK(r)'
    BY <2>1 DEF AcceptedOK
  <2>6. MissingOK(r)'
    BY <1>5, <2>1, <2>3 DEF MissingOK, CurrentAfter, Matching
  <2> QED
    BY <1>1, <1>4, <1>6, <2>2, <2>4, <2>5, <2>6, OneMoves
<1>15. CASE Validate(r)
  <2> DEFINE key == SigningKey(seen[r], token[r].kid)
  <2>1. /\ pc[r] = "verify" /\ pc'[r] = "done" /\ UNCHANGED <<began, seen, http>>
        /\ verdict'[r] = Judgement(token[r], key)
    BY <1>1, <1>3, <1>15 DEF Validate, Finish, local
  <2>2. FetchOK(r)'
    BY <1>1, <1>5, <2>1 DEF FetchOK, Fetching, http
  <2>3. CallOK(r)'
    BY <1>1, <1>5, <2>1 DEF CallOK
  <2>4. token[r].subject \in {"none", "foreign", "trusted"}
    BY TokenAssumption DEF IInv, TypeOK, TokenShape
  <2>5. AcceptedOK(r)'
    <3> SUFFICES ASSUME verdict'[r] = "accepted" PROVE AcceptedOK(r)'
      BY DEF AcceptedOK
    <3>1. token[r].signer = key.secret
      BY <2>1, <2>4 DEF Judgement
    <3>2. /\ seen[r] \in 0 .. version /\ seen[r] \in Version
          /\ outage[r] \/ CurrentAfter(seen[r], began[r], slack)
          /\ Matching(seen[r], token[r].kid) # {}
      BY <1>1, <2>1 DEF CallOK, Version
    <3>3. Min(Matching(seen[r], token[r].kid)) \in Matching(seen[r], token[r].kid)
      BY <3>2, FirstMatch
    <3>4. Vouches(seen[r], token[r])
      BY <3>1, <3>3 DEF Vouches, Matching, SigningKey
    <3> QED
      BY <1>5, <2>1, <3>2, <3>4 DEF AcceptedOK, Vouches, CurrentAfter
  <2>6. MissingOK(r)'
    BY <2>1, <2>4 DEF MissingOK, Judgement
  <2> QED
    BY <1>1, <1>4, <1>6, <2>2, <2>3, <2>5, <2>6, OneMoves
<1> QED
  BY <1>9, <1>10, <1>11, <1>12, <1>13, <1>14, <1>15 DEF Step

\* IInv is inductive.
LEMMA InvStep == IInv /\ [Next]_vars => IInv'
<1> SUFFICES ASSUME IInv, [Next]_vars PROVE IInv'
  OBVIOUS
<1>1. TypeOK' /\ HistoryInv' /\ Advance
  BY TypeStep, HistoryStep, StepAdvances DEF IInv
<1> QED
  BY <1>1, WorldStep, FetchStep, CallStep DEF Next, Quiesce

\* The inductive invariant: how fresh the cache, every answer under way and every
\* snapshot of a call are.
THEOREM Invariance == Spec => []IInv
  BY InitInv, InvStep, PTL DEF Spec

\* The cache is never older than its time stamp claims by more than a fetch.
THEOREM CacheIsAsOf == Spec => []CacheAsOf
<1>1. IInv => CacheAsOf
  BY DEF IInv, CacheInv
<1> QED
  BY <1>1, Invariance, PTL

\* A retired key is trusted for a refresh interval and a fetch at most, except
\* by calls that could not refresh.
THEOREM RetiredKeysDoExpire == Spec => []RetiredKeysExpire
<1>1. IInv => RetiredKeysExpire
  BY DEF IInv
<1> QED
  BY <1>1, Invariance, PTL

\* A key published for the duration of a fetch is found.
THEOREM PublishedKeyIsFound == Spec => []PublishedKeyFound
<1>1. IInv => PublishedKeyFound
  BY DEF IInv
<1> QED
  BY <1>1, Invariance, PTL

\* Only a fetch that overlaps a publication rolls the cache back.
THEOREM RollbackNeedsOverlap == Spec => RollbackOnlyByOverlap
<1> DEFINE Act == jwks # NoJwks /\ jwks' < jwks =>
                    \E p \in Proc : /\ pc[p] \in Fetching
                                    /\ reply[p] = jwks'
                                    /\ sentAt[p] <= publishedAt[jwks]
<1>1. IInv /\ [Next]_vars => [Act]_vars
  <2> SUFFICES ASSUME IInv, Next, jwks # NoJwks, jwks' < jwks
               PROVE  \E p \in Proc : /\ pc[p] \in Fetching
                                      /\ reply[p] = jwks'
                                      /\ sentAt[p] <= publishedAt[jwks]
    OBVIOUS
  <2>1. /\ jwks \in 0 .. version /\ version \in Nat /\ version <= MaxVersion
        /\ MaxVersion \in Nat /\ publishedAt \in [Version -> 0 .. MaxClock]
    BY ConstantsAssumption DEF IInv, TypeOK, CacheInv, CacheAsOf, CurrentAfter, Version
  <2>2. PICK p \in Proc : Install(p)
    BY <2>1 DEF Next, Fetch, Step, Quiesce, Tick, Rotate, Answer, FailRefresh, Begin,
       Snapshot, CheckAge, RereadAged, Lookup, RereadMissed, Validate, vars, cache
  <2>3. pc[p] \in Fetching /\ reply[p] = jwks' /\ FetchOK(p) /\ reply[p] # Pending
    BY <2>2 DEF Install, IInv
  <2>4. /\ reply[p] \in 0 .. version /\ reply[p] < jwks
        /\ publishedAt[reply[p] + 1] + 0 >= sentAt[p]
    BY <2>1, <2>3 DEF FetchOK, CurrentAfter
  <2>5. publishedAt[reply[p] + 1] <= publishedAt[jwks]
    BY <2>1, <2>4 DEF IInv, HistoryInv
  <2>6. /\ publishedAt[reply[p] + 1] \in Nat /\ publishedAt[jwks] \in Nat
        /\ sentAt[p] \in Nat
    <3>1. reply[p] + 1 \in Version /\ jwks \in Version
      BY <2>1, <2>4 DEF Version
    <3>2. sentAt[p] \in Nat
      BY ConstantsAssumption DEF IInv, TypeOK
    <3>3. \A v \in Version : publishedAt[v] \in Nat
      BY <2>1
    <3> QED
      BY <3>1, <3>2, <3>3
  <2> QED
    BY <2>3, <2>4, <2>5, <2>6
<1> QED
  BY <1>1, Invariance, PTL DEF Spec, RollbackOnlyByOverlap

-----------------------------------------------------------------------------
(* The refinement.  That the verdicts are just is the inductive invariant  *)
(* above; what is left is to map each step to one of the verifier's or to  *)
(* none.                                                                   *)


\* A call that moves to a place changes its status at most.
LEMMA StatusOfMove ==
  ASSUME TypeOK, NEW r \in Request, NEW place,
         pc' = [pc EXCEPT ![r] = place]
  PROVE  [q \in Request |-> Status(pc[q])]' =
           [[q \in Request |-> Status(pc[q])] EXCEPT ![r] = Status(place)]
  BY DEF TypeOK, Proc

\* A move between two places where a call is under way changes no status.
LEMMA StatusKept ==
  ASSUME TypeOK, NEW r \in Request, NEW place,
         pc' = [pc EXCEPT ![r] = place],
         Status(pc[r]) = Status(place)
  PROVE  [q \in Request |-> Status(pc[q])]' = [q \in Request |-> Status(pc[q])]
  BY DEF TypeOK, Proc

\* The initial states map to initial states.
LEMMA InitRefines == Init => Verifier!Init
<1> SUFFICES ASSUME Init PROVE Verifier!Init
  OBVIOUS
<1>1. \A r \in Request : r # Ctor /\ r \in Proc
  BY ConstantsAssumption DEF Proc
<1>2. [r \in Request |-> Status(pc[r])] = [r \in Request |-> "idle"]
  BY <1>1 DEF Init, Status
<1>3. [r \in Request |-> outage[r]] = [r \in Request |-> FALSE]
  BY <1>1 DEF Init
<1> QED
  BY <1>2, <1>3 DEF Init, Verifier!Init

\* A verdict that the invariant vouches for is just.
LEMMA VerdictIsJust ==
  ASSUME IInv, IInv', NEW r \in Request, NEW w,
         UNCHANGED <<clock, version, publishedAt, token, began>>,
         outage'[r] = outage[r],
         verdict'[r] = w,
         w = "accepted" => clock \in Sound(token[r])
  PROVE  Verifier!Just(r, w)
<1>1. token[r] \in Token
  BY DEF IInv, TypeOK
<1>2. ASSUME w = "accepted"
      PROVE  \E v \in 0 .. version :
               /\ v \in [t \in Token |-> {u \in Version : Vouches(u, t)}][token[r]]
               /\ \/ [q \in Request |-> outage[q]][r]
                  \/ Verifier!Recent(v, began[r], RefreshInterval + FetchTimeout)
  <2>1. AcceptedOK(r)'
    BY DEF IInv, RetiredKeysExpire
  <2>2. PICK v \in 0 .. version :
          /\ Vouches(v, token[r])
          /\ outage[r] \/ CurrentAfter(v, began[r], RefreshInterval + FetchTimeout)
    BY <2>1, <1>2 DEF AcceptedOK, CurrentAfter, Vouches
  <2>3. v \in Version
    BY <2>2, ConstantsAssumption DEF IInv, TypeOK, Version
  <2> QED
    BY <1>1, <2>2, <2>3 DEF CurrentAfter, Verifier!Recent
<1>3. ASSUME w = "unknown_key"
      PROVE  \E v \in 0 .. version :
               /\ v \notin [t \in Token |->
                             {u \in Version : Matching(u, t.kid) # {}}][token[r]]
               /\ Verifier!Recent(v, began[r], FetchTimeout)
  <2>1. MissingOK(r)'
    BY DEF IInv, PublishedKeyFound
  <2>2. PICK v \in 0 .. version :
          /\ CurrentAfter(v, began[r], FetchTimeout)
          /\ Matching(v, token[r].kid) = {}
    BY <2>1, <1>3 DEF MissingOK, CurrentAfter, Matching
  <2> QED
    BY <1>1, <2>2 DEF CurrentAfter, Verifier!Recent
<1>4. w = "accepted" => clock \in [t \in Token |-> Sound(t)][token[r]]
  BY <1>1
<1> QED
  BY <1>2, <1>3, <1>4 DEF Verifier!Just

\* A fetch that ends or is answered.
LEMMA FetchRefines ==
  ASSUME IInv, IInv', NEW p \in Proc, Fetch(p)
  PROVE  [Verifier!Next]_Verifier!vars
<1> USE DEF external, cache, local, http, Verifier!vars, Verifier!world,
        Verifier!calls
<1>1. TypeOK
  BY DEF IInv
<1>2. CASE Answer(p)
  BY <1>2 DEF Answer
<1>3. CASE Install(p)
  <2>1. Status(pc[p]) = Status(AfterRefresh(pc[p]))
    BY <1>3 DEF Install, AfterRefresh, Status, Fetching
  <2>2. [q \in Request |-> Status(pc[q])]' = [q \in Request |-> Status(pc[q])]
    BY <1>1, <1>3, <2>1 DEF Install, TypeOK, Proc
  <2> QED
    BY <1>3, <2>2 DEF Install
<1>4. CASE FailRefresh(p) /\ p = Ctor
  <2>1. \A q \in Request : q # p
    BY <1>4, ConstantsAssumption
  <2>2. \A q \in Request : pc'[q] = pc[q] /\ outage'[q] = outage[q]
    BY <1>1, <1>4, <2>1 DEF FailRefresh, TypeOK, Proc
  <2>3. pc[Ctor] # "missFetch"
    BY DEF IInv, CacheInv
  <2>4. UNCHANGED verdict
    BY <1>4, <2>3 DEF FailRefresh
  <2>5. [q \in Request |-> Status(pc[q])]' = [q \in Request |-> Status(pc[q])]
    BY <2>2
  <2>6. [q \in Request |-> outage[q]]' = [q \in Request |-> outage[q]]
    BY <2>2
  <2> QED
    BY <1>4, <2>4, <2>5, <2>6 DEF FailRefresh
<1>5. CASE FailRefresh(p) /\ p # Ctor
  <2>1. p \in Request
    BY <1>5 DEF Proc
  <2>2. pc[p] # "constructing"
    BY <2>1 DEF IInv, CallOK
  <2>3. [q \in Request |-> outage[q]]' =
          [[q \in Request |-> outage[q]] EXCEPT ![p] = TRUE]
    BY <1>1, <1>5 DEF FailRefresh, TypeOK, Proc
  <2>4. CASE pc[p] = "ageFetch"
    <3>1. pc' = [pc EXCEPT ![p] = "ageReread"] /\ UNCHANGED verdict
      BY <1>5, <2>4 DEF FailRefresh
    <3>2. [q \in Request |-> Status(pc[q])]' = [q \in Request |-> Status(pc[q])]
      BY <1>1, <2>1, <2>4, <3>1, StatusKept DEF Status
    <3>3. [q \in Request |-> Status(pc[q])][p] = "called"
      BY <2>1, <2>4 DEF Status
    <3>4. Verifier!Excuse(p)
      BY <1>5, <2>3, <3>1, <3>2, <3>3 DEF FailRefresh, Verifier!Excuse
    <3> QED
      BY <2>1, <3>4 DEF Verifier!Next
  <2>5. CASE pc[p] = "missFetch"
    <3>1. /\ pc' = [pc EXCEPT ![p] = "done"]
          /\ verdict' = [verdict EXCEPT ![p] = "refresh_failed"]
      BY <1>5, <2>5 DEF FailRefresh
    <3>2. [q \in Request |-> Status(pc[q])]' =
            [[q \in Request |-> Status(pc[q])] EXCEPT ![p] = "done"]
      BY <1>1, <2>1, <3>1, StatusOfMove DEF Status
    <3>3. [q \in Request |-> Status(pc[q])][p] = "called"
      BY <2>1, <2>5 DEF Status
    <3>4. Verifier!Just(p, "refresh_failed")
      BY DEF Verifier!Just
    <3>5. Verifier!Decide(p, "refresh_failed")
      BY <1>5, <2>3, <3>1, <3>2, <3>3, <3>4 DEF FailRefresh, Verifier!Decide
    <3> QED
      BY <2>1, <3>5 DEF Verifier!Next, Verifier!Refusals
  <2> QED
    BY <1>5, <2>2, <2>4, <2>5 DEF FailRefresh
<1> QED
  BY <1>2, <1>3, <1>4, <1>5 DEF Fetch

\* A call that begins.
LEMMA BeginRefines ==
  ASSUME IInv, NEW r \in Request, Begin(r)
  PROVE  Verifier!Call(r) \/ Verifier!Malformed(r)
<1> USE DEF external, cache, local, http, Verifier!world, Verifier!calls
<1>1. TypeOK
  BY DEF IInv
<1>2. [q \in Request |-> Status(pc[q])][r] = "idle"
  BY DEF Begin, Status
<1>3. UNCHANGED [q \in Request |-> outage[q]]
  BY DEF Begin
<1>4. CASE token[r].parses
  <2>1. pc' = [pc EXCEPT ![r] = "snapshot"] /\ UNCHANGED verdict
    BY <1>4 DEF Begin
  <2>2. Status("snapshot") = "called"
    BY DEF Status
  <2>3. [q \in Request |-> Status(pc[q])]' =
          [[q \in Request |-> Status(pc[q])] EXCEPT ![r] = Status("snapshot")]
    BY <1>1, <2>1, StatusOfMove
  <2> QED
    BY <1>2, <1>3, <2>1, <2>2, <2>3 DEF Begin, Verifier!Call
<1>5. CASE ~token[r].parses
  <2>1. /\ pc' = [pc EXCEPT ![r] = "done"]
        /\ verdict' = [verdict EXCEPT ![r] = "bad_jwt"]
    BY <1>5 DEF Begin, Finish
  <2>2. [q \in Request |-> Status(pc[q])]' =
          [[q \in Request |-> Status(pc[q])] EXCEPT ![r] = "done"]
    BY <1>1, <2>1, StatusOfMove DEF Status
  <2> QED
    BY <1>2, <1>3, <2>1, <2>2 DEF Begin, Verifier!Malformed
<1> QED
  BY <1>4, <1>5

\* A step of a call that is under way and stays so is none of the verifier's.
LEMMA WorkingRefines ==
  ASSUME IInv, NEW r \in Request, NEW place,
         pc' = [pc EXCEPT ![r] = place],
         Status(pc[r]) = "called", Status(place) = "called",
         UNCHANGED <<clock, external, token, began, outage, verdict>>
  PROVE  UNCHANGED Verifier!vars
<1>1. UNCHANGED [q \in Request |-> Status(pc[q])]
  BY StatusKept DEF IInv
<1>2. UNCHANGED [q \in Request |-> outage[q]]
  OBVIOUS
<1> QED
  BY <1>1, <1>2 DEF external, Verifier!vars, Verifier!world, Verifier!calls

\* A call that ends with a verdict.
LEMMA VerdictRefines ==
  ASSUME IInv, IInv', NEW r \in Request, NEW w,
         Finish(r, w), Status(pc[r]) = "called",
         w \in Verifier!Refusals \cup {"accepted"},
         w # "refresh_failed",
         w = "accepted" => clock \in Sound(token[r]),
         UNCHANGED <<clock, external, token, began, outage>>
  PROVE  Verifier!Decide(r, w)
<1> USE DEF external, Verifier!world
<1>1. /\ pc' = [pc EXCEPT ![r] = "done"]
      /\ verdict' = [verdict EXCEPT ![r] = w]
  BY DEF Finish
<1>2. [q \in Request |-> Status(pc[q])]' =
        [[q \in Request |-> Status(pc[q])] EXCEPT ![r] = "done"]
  BY <1>1, StatusOfMove DEF IInv, Status
<1>3. [q \in Request |-> Status(pc[q])][r] = "called"
  OBVIOUS
<1>4. verdict'[r] = w
  BY <1>1 DEF IInv, TypeOK
<1>5. Verifier!Just(r, w)
  BY <1>4, VerdictIsJust
<1>6. outage \in [Proc -> BOOLEAN] /\ r \in Proc
  BY DEF IInv, TypeOK, Proc
<1>7. [q \in Request |-> outage[q]]' =
        [[q \in Request |-> outage[q]] EXCEPT ![r] = @ \/ FALSE]
  <2>1. ([q \in Request |-> outage[q]][r] \/ FALSE) = outage[r]
    BY <1>6
  <2>2. [[q \in Request |-> outage[q]] EXCEPT ![r] = outage[r]] =
          [q \in Request |-> outage[q]]
    OBVIOUS
  <2> QED
    BY <2>1, <2>2
<1>8. (w = "refresh_failed") = FALSE
  OBVIOUS
<1> QED
  BY <1>1, <1>2, <1>3, <1>5, <1>7, <1>8 DEF Verifier!Decide

\* The steps of getSigningKey and the judgement.
LEMMA StepRefines ==
  ASSUME IInv, IInv', NEW r \in Request, Step(r)
  PROVE  [Verifier!Next]_Verifier!vars
<1>1. CASE Snapshot(r)
  BY <1>1, WorkingRefines DEF Snapshot, Status
<1>2. CASE CheckAge(r)
  BY <1>2, WorkingRefines DEF CheckAge, Send, Status
<1>3. CASE RereadAged(r)
  BY <1>3, WorkingRefines DEF RereadAged, Status
<1>4. CASE Lookup(r)
  BY <1>4, WorkingRefines DEF Lookup, Send, Status, local
<1>5. CASE RereadMissed(r)
  <2>1. CASE Matching(jwks, token[r].kid) = {}
    <3>1. Finish(r, "unknown_key")
      BY <1>5, <2>1 DEF RereadMissed
    <3>2. Verifier!Decide(r, "unknown_key")
      BY <1>5, <3>1, VerdictRefines DEF RereadMissed, Status, Verifier!Refusals
    <3> QED
      BY <3>2 DEF Verifier!Next, Verifier!Refusals
  <2>2. CASE Matching(jwks, token[r].kid) # {}
    BY <1>5, <2>2, WorkingRefines DEF RereadMissed, Status
  <2> QED
    BY <2>1, <2>2
<1>6. CASE Validate(r)
  <2>1. TokenShape(token[r]) /\ clock \in Nat
    BY TokenAssumption, ConstantsAssumption DEF IInv, TypeOK
  <2>2. PICK w : w = Judgement(token[r], SigningKey(seen[r], token[r].kid))
    OBVIOUS
  <2>3. w \in Verifier!Refusals \cup {"accepted"} /\ w # "refresh_failed"
    BY <2>1, <2>2 DEF Judgement, TokenShape, Verifier!Refusals
  <2>4. w = "accepted" => clock \in Sound(token[r])
    BY <2>1, <2>2 DEF Judgement, TokenShape, Sound
  <2>5. Finish(r, w)
    BY <1>6, <2>2 DEF Validate
  <2>6. Status(pc[r]) = "called"
    BY <1>6 DEF Validate, Status
  <2>7. UNCHANGED <<clock, external, token, began, outage>>
    BY <1>6 DEF Validate, local
  <2>8. Verifier!Decide(r, w)
    BY <2>3, <2>4, <2>5, <2>6, <2>7, VerdictRefines
  <2> QED
    BY <2>3, <2>8 DEF Verifier!Next
<1> QED
  BY <1>1, <1>2, <1>3, <1>4, <1>5, <1>6 DEF Step

\* Every step is one of the verifier's or none.
LEMMA NextRefines ==
  IInv /\ IInv' /\ [Next]_vars => [Verifier!Next]_Verifier!vars
<1> SUFFICES ASSUME IInv, IInv', [Next]_vars
             PROVE  [Verifier!Next]_Verifier!vars
  OBVIOUS
<1>1. CASE Tick
  <2>1. Verifier!Pass
    BY <1>1 DEF Tick, external, local, Verifier!Pass, Verifier!calls
  <2> QED
    BY <2>1 DEF Verifier!Next
<1>2. CASE Rotate
  <2>1. Verifier!Publish
    BY <1>2 DEF Rotate, local, Verifier!Publish, Verifier!calls
  <2> QED
    BY <2>1 DEF Verifier!Next
<1>3. ASSUME NEW p \in Proc, Fetch(p) PROVE [Verifier!Next]_Verifier!vars
  BY <1>3, FetchRefines
<1>4. ASSUME NEW r \in Request, Begin(r) PROVE [Verifier!Next]_Verifier!vars
  BY <1>4, BeginRefines DEF Verifier!Next
<1>5. ASSUME NEW r \in Request, Step(r) PROVE [Verifier!Next]_Verifier!vars
  BY <1>5, StepRefines
<1>6. CASE UNCHANGED vars
  BY <1>6 DEF vars, external, local, Verifier!vars, Verifier!world, Verifier!calls
<1> QED
  BY <1>1, <1>2, <1>3, <1>4, <1>5, <1>6 DEF Next, Quiesce

\* The Sentry authenticator implements the verifier: whatever was cached and
\* whoever fetched it, no call gets a verdict that the published key sets do
\* not justify, and none gets two (ImplementsVerifier).
THEOREM Refinement == Spec => ImplementsVerifier
<1>1. Init => Verifier!Init
  BY InitRefines
<1>2. IInv /\ IInv' /\ [Next]_vars => [Verifier!Next]_Verifier!vars
  BY NextRefines
<1>3. Spec => []IInv
  BY Invariance
<1> QED
  BY <1>1, <1>2, <1>3, PTL DEF Spec, Verifier!Spec, ImplementsVerifier
=============================================================================
