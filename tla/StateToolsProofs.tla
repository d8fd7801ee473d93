-------------------------- MODULE StateToolsProofs --------------------------
(***************************************************************************)
(* Proofs about the state tools, for any number of calls, keys, values and *)
(* items of a transaction.                                                 *)
(*                                                                         *)
(* A step does one of three things to a call: it moves it along, it writes *)
(* the store, or it leaves both alone.  What a call knows of its keys      *)
(* (ReadOK) and what its answer stands for (AnswerOK, WroteOK) survive the *)
(* steps of the other calls, because held only grows and because a request *)
(* is applied only while its call waits or is stray.                       *)
(***************************************************************************)
EXTENDS StateTools, WellFoundedInduction, TLAPS

-----------------------------------------------------------------------------
(* Operators.                                                              *)

\* A set of places that is not empty has a last one.
LEMMA LastPlace ==
  ASSUME NEW n \in Nat, NEW S \in SUBSET (1 .. n), S # {}
  PROVE  \E m \in S : \A x \in S : x <= m
<1> DEFINE R == {ss \in Nat \X Nat : ss[1] < ss[2]}
           T == {b \in Nat : \A x \in S : x <= b}
<1>1. IsWellFoundedOn(R, Nat)
  BY NatLessThanWellFounded DEF OpToRel
<1>2. n \in T
  OBVIOUS
<1>3. \E b \in T : \A y \in T : <<y, b>> \notin R
  <2>1. T \subseteq Nat /\ T # {}
    BY <1>2
  <2> HIDE DEF R, T
  <2> QED
    BY <1>1, <2>1, WFMin
<1>4. PICK b \in T : \A y \in T : <<y, b>> \notin R
  BY <1>3
<1>5. \A y \in T : ~(y < b)
  BY <1>4
<1>6. b >= 1
  <2>1. PICK x \in S : TRUE
    OBVIOUS
  <2>2. x >= 1 /\ x <= b /\ x \in Nat /\ b \in Nat
    BY <2>1
  <2> QED
    BY <2>2
<1>7. b \in S
  <2> HIDE DEF R
  <2>1. b - 1 \notin T
    BY <1>5, <1>6
  <2>2. PICK x \in S : ~(x <= b - 1)
    BY <1>6, <2>1
  <2>3. x <= b
    OBVIOUS
  <2> QED
    BY <2>2, <2>3
<1> QED
  BY <1>7

\* The items of a call are a sequence of items.
LEMMA ItemsType ==
  ASSUME NEW a \in Arguments
  PROVE  a.items \in Seq(Item)
<1>1. CASE a.items = <<>>
  BY <1>1
<1>2. CASE \E i \in Item : a.items = <<i>>
  BY <1>2
<1>3. CASE \E n \in 0 .. MaxItems : a.items \in [1 .. n -> Item]
  <2>1. PICK n \in 0 .. MaxItems : a.items \in [1 .. n -> Item]
    BY <1>3
  <2>2. n \in Nat
    BY <2>1, StateAssumption
  <2> QED
    BY <2>1, <2>2
<1>4. \/ a.items = <<>>
      \/ \E i \in Item : a.items = <<i>>
      \/ \E n \in 0 .. MaxItems : a.items \in [1 .. n -> Item]
  <2> DEFINE U == UNION {[1 .. n -> Item] : n \in 0 .. MaxItems}
             T1 == {<<i>> : i \in {j \in Item : ~j.isDelete}}
             T2 == {<<i>> : i \in {j \in Item : j.isDelete}}
  <2>1. a.items \in {<<>>} \/ a.items \in T1 \/ a.items \in T2 \/ a.items \in U
    <3> HIDE DEF T1, T2, U
    <3> QED
      BY DEF Arguments, T1, T2, U
  <2>2. CASE a.items \in U
    BY <2>2
  <2>3. CASE a.items \in T1
    BY <2>3
  <2>4. CASE a.items \in T2
    BY <2>4
  <2> QED
    BY <2>1, <2>2, <2>3, <2>4
<1> QED
  BY <1>1, <1>2, <1>3, <1>4

\* A request has an operation of the store for each item.
LEMMA OperationsType ==
  ASSUME NEW items \in Seq(Item)
  PROVE  /\ Operations(items) \in Seq(Operation)
         /\ DOMAIN Operations(items) = DOMAIN items
         /\ DOMAIN items = 1 .. Len(items) /\ Len(items) \in Nat
<1>1. DOMAIN items = 1 .. Len(items) /\ Len(items) \in Nat
  OBVIOUS
<1>2. ASSUME NEW n \in 1 .. Len(items)
      PROVE  Operations(items)[n] \in Operation
  <2>1. items[n] \in Item
    BY <1>2
  <2> DEFINE i == items[n]
  <2>2. i.key \in Key /\ i.value \in Value
    BY <2>1 DEF Item, Value
  <2>3. (IF i.isDelete THEN Absent ELSE i.value) \in Stored
    BY <2>2 DEF Stored
  <2> QED
    BY <1>1, <2>2, <2>3 DEF Operations, Operation
<1>3. Operations(items) = [n \in 1 .. Len(items) |-> Operations(items)[n]]
  BY <1>1 DEF Operations
<1>4. Operations(items) \in Seq(Operation)
  BY <1>1, <1>2, <1>3
<1> QED
  BY <1>1, <1>4 DEF Operations

\* What a request leaves at a key: the entry of its last operation on the key,
\* and what was there if it has none.
LEMMA AppliedAt ==
  ASSUME NEW ops \in Seq(Operation), NEW s \in [Key -> Stored], NEW k \in Key
  PROVE  \/ /\ \A n \in DOMAIN ops : ops[n].key # k
            /\ Applied(ops, s)[k] = s[k]
         \/ \E n \in DOMAIN ops :
              /\ ops[n].key = k
              /\ \A m \in DOMAIN ops : ops[m].key = k => m <= n
              /\ Applied(ops, s)[k] = ops[n].entry
<1> DEFINE on == {n \in DOMAIN ops : ops[n].key = k}
           last == CHOOSE n \in on : \A m \in on : m <= n
<1>1. Applied(ops, s)[k] = IF on = {} THEN s[k] ELSE ops[last].entry
  BY DEF Applied
<1>2. CASE on = {}
  BY <1>1, <1>2
<1>3. CASE on # {}
  <2>1. on \in SUBSET (1 .. Len(ops)) /\ Len(ops) \in Nat
    OBVIOUS
  <2>2. \E n \in on : \A m \in on : m <= n
    <3> HIDE DEF on
    <3> QED
      BY <1>3, <2>1, LastPlace
  <2>3. last \in on /\ \A m \in on : m <= last
    BY <2>2
  <2> QED
    BY <1>1, <1>3, <2>3
<1> QED
  BY <1>2, <1>3

\* A request leaves a store.
LEMMA AppliedType ==
  ASSUME NEW ops \in Seq(Operation), NEW s \in [Key -> Stored]
  PROVE  Applied(ops, s) \in [Key -> Stored]
<1>1. ASSUME NEW k \in Key PROVE Applied(ops, s)[k] \in Stored
  <2>1. \A n \in DOMAIN ops : ops[n] \in Operation
    OBVIOUS
  <2> QED
    <3>1. CASE Applied(ops, s)[k] = s[k]
      BY <3>1
    <3>2. CASE \E n \in DOMAIN ops : Applied(ops, s)[k] = ops[n].entry
      BY <2>1, <3>2 DEF Operation
    <3> QED
      BY <3>1, <3>2, AppliedAt
<1>2. Applied(ops, s) = [k \in Key |-> Applied(ops, s)[k]]
  BY DEF Applied
<1> QED
  BY <1>1, <1>2

\* The empty result tells of nothing.
LEMMA TellsNothing == ASSUME NEW S PROVE <<>> \in Telling(S)
<1>1. <<>> \in [1 .. 0 -> Told]
  <2>1. <<>> \in Seq(Told) /\ Len(<<>>) = 0
    OBVIOUS
  <2> QED
    BY <2>1
<1>2. 1 .. 0 = {}
  OBVIOUS
<1>3. {} \in SUBSET S
  OBVIOUS
<1> QED
  BY <1>1, <1>2, <1>3 DEF Telling

-----------------------------------------------------------------------------
(* The steps.                                                              *)

LEMMA InitInv == Init => IInv
<1> SUFFICES ASSUME Init PROVE IInv
  OBVIOUS
<1>1. VarTypes
  BY DEF Init, VarTypes, Found
<1>2. ArgsInv
  BY DEF Init, ArgsInv
<1>3. ReadInv
  BY DEF Init, ReadInv, ReadOK
<1>4. AnswerInv
  BY DEF Init, AnswerInv, AnswerOK
<1>5. WroteInv
  BY DEF Init, WroteInv, WroteOK
<1>6. ResultInv
  BY DEF Init, ResultInv
<1> QED
  BY <1>1, <1>2, <1>3, <1>4, <1>5, <1>6 DEF IInv

\* What a write does to the store and to what is known of it.
LEMMA ApplyTypes ==
  ASSUME VarTypes, NEW c \in Call, args[c] \in Arguments, Apply(c)
  PROVE  /\ store' \in [Key -> Stored]
         /\ wrote' \in [Call -> Seq(Seq(Operation))]
         /\ held' \in [Call -> [Key -> SUBSET Stored]]
<1> DEFINE ops == Operations(args[c].items)
<1>1. ops \in Seq(Operation)
  BY ItemsType, OperationsType
<1> HIDE DEF ops
<1>2. store' \in [Key -> Stored]
  BY <1>1, AppliedType DEF Apply, VarTypes, ops
<1>3. wrote' \in [Call -> Seq(Seq(Operation))]
  BY <1>1 DEF Apply, VarTypes, ops
<1>4. held' \in [Call -> [Key -> SUBSET Stored]]
  <2> DEFINE new(d, k) == IF held[d][k] # {} /\ pc[d] = "sent"
                          THEN held[d][k] \cup {store'[k]}
                          ELSE held[d][k]
  <2>1. \A d \in Call, k \in Key : new(d, k) \in SUBSET Stored
    BY <1>2 DEF VarTypes
  <2>2. held' = [d \in Call |-> [k \in Key |-> new(d, k)]]
    BY DEF Apply
  <2> HIDE DEF new
  <2> QED
    BY <2>1, <2>2
<1> QED
  BY <1>2, <1>3, <1>4

\* The moments of a read go on being counted.
LEMMA ApplyHeld ==
  ASSUME VarTypes, NEW c \in Call, args[c] \in Arguments, Apply(c),
         NEW d \in Call, NEW k \in Key
  PROVE  /\ held[d][k] \subseteq held'[d][k]
         /\ pc[d] = "sent" /\ store[k] \in held[d][k] => store'[k] \in held'[d][k]
BY DEF Apply, VarTypes

\* A write changes what one call wrote.
LEMMA ApplyWrote ==
  ASSUME VarTypes, NEW c \in Call, Apply(c), wrote[c] = <<>>
  PROVE  /\ wrote'[c] = <<Operations(args[c].items)>>
         /\ \A d \in Call \ {c} : wrote'[d] = wrote[d]
BY DEF Apply, VarTypes

LEMMA InvokeStep ==
  ASSUME IInv, NEW c \in Call, NEW a \in Arguments, Invoke(c, a)
  PROVE  IInv'
<1> USE DEF IInv, Invoke
<1>1. VarTypes'
  <2>1. args' \in [Call -> Arguments \cup {NoArgs}]
    BY DEF VarTypes
  <2>2. held' \in [Call -> [Key -> SUBSET Stored]]
    BY DEF VarTypes
  <2>3. pc' \in [Call -> {"idle", "sent", "answered", "done"}]
    BY DEF VarTypes
  <2> QED
    BY <2>1, <2>2, <2>3 DEF VarTypes
<1>2. ArgsInv'
  BY DEF VarTypes, ArgsInv
<1>3. ReadInv'
  <2> SUFFICES ASSUME NEW d \in Call, NEW k \in Key PROVE ReadOK(d, k)'
    BY DEF ReadInv
  <2>1. ReadOK(d, k)
    BY DEF ReadInv
  <2>2. CASE d # c
    BY <2>1, <2>2 DEF ReadOK, VarTypes
  <2>3. CASE d = c
    <3>1. found[c][k] = "unread"
      BY DEF ReadInv, ReadOK, ArgsInv, NoArgs
    <3> QED
      BY <2>3, <3>1 DEF ReadOK, VarTypes
  <2> QED
    BY <2>2, <2>3
<1>4. AnswerInv'
  BY DEF AnswerInv, AnswerOK, VarTypes
<1>5. WroteInv'
  BY DEF WroteInv, WroteOK, VarTypes, AnswerInv, AnswerOK
<1>6. ResultInv'
  BY DEF ResultInv, VarTypes
<1> QED
  BY <1>1, <1>2, <1>3, <1>4, <1>5, <1>6

LEMMA ReturnStep ==
  ASSUME IInv, NEW c \in Call, Return(c)
  PROVE  IInv'
<1> USE DEF IInv, Return
<1>1. VarTypes'
  BY DEF VarTypes
<1>2. ArgsInv'
  BY DEF VarTypes, ArgsInv
<1>3. ReadInv'
  BY DEF VarTypes, ReadInv, ReadOK
<1>4. AnswerInv'
  BY DEF VarTypes, AnswerInv, AnswerOK
<1>5. WroteInv'
  BY DEF WroteInv, WroteOK
<1>6. ResultInv'
  BY DEF ResultInv, VarTypes
<1> QED
  BY <1>1, <1>2, <1>3, <1>4, <1>5, <1>6

LEMMA ReadStep ==
  ASSUME IInv, NEW c \in Call, NEW k \in Key, Read(c, k)
  PROVE  IInv'
<1> USE DEF IInv
<1>1. PICK f \in {store[k]} \cup (IF args[c].tool = "get_bulk_state"
                                THEN {"failed"} ELSE {}) :
        found' = [found EXCEPT ![c][k] = f]
  BY DEF Read
<1>2. f = store[k] \/ (f = "failed" /\ args[c].tool = "get_bulk_state")
  BY <1>1
<1>3. VarTypes'
  <2>1. f \in Found
    BY <1>2 DEF VarTypes, Found
  <2>2. found' \in [Call -> [Key -> Found]]
    BY <1>1, <2>1 DEF VarTypes
  <2> QED
    BY <2>2 DEF VarTypes, Read
<1>4. ArgsInv'
  BY DEF ArgsInv, Read
<1>5. ReadInv'
  <2> SUFFICES ASSUME NEW d \in Call, NEW l \in Key PROVE ReadOK(d, l)'
    BY DEF ReadInv
  <2>1. ReadOK(d, l)
    BY DEF ReadInv
  <2>2. CASE d = c /\ l = k
    <3>1. found'[d][l] = f
      BY <1>1, <2>2 DEF VarTypes
    <3>2. store[l] \in held[d][l] /\ l \in args[d].keys
      BY <2>1, <2>2 DEF ReadOK, Read
    <3>3. store[l] # "failed"
      BY StateAssumption DEF VarTypes, Stored, Value
    <3> QED
      BY <1>2, <2>2, <3>1, <3>2, <3>3 DEF ReadOK, Read
  <2>3. CASE ~(d = c /\ l = k)
    <3>1. found'[d][l] = found[d][l]
      BY <1>1, <2>3 DEF VarTypes
    <3> QED
      BY <2>1, <3>1 DEF ReadOK, Read
  <2> QED
    BY <2>2, <2>3
<1>6. AnswerInv'
  <2> SUFFICES ASSUME NEW d \in Call PROVE AnswerOK(d)'
    BY DEF AnswerInv
  <2>1. AnswerOK(d)
    BY DEF AnswerInv
  <2>2. CASE d = c
    BY <2>1, <2>2 DEF AnswerOK, Read
  <2>3. CASE d # c
    <3>1. found'[d] = found[d]
      BY <1>1, <2>3 DEF VarTypes
    <3> QED
      BY <2>1, <3>1 DEF AnswerOK, Read
  <2> QED
    BY <2>2, <2>3
<1>7. WroteInv'
  BY DEF WroteInv, WroteOK, Read
<1>8. ResultInv'
  <2>1. \A d \in Call : pc[d] = "done" => found'[d] = found[d]
    BY <1>1 DEF VarTypes, Read
  <2> QED
    BY <2>1 DEF ResultInv, Read
<1> QED
  BY <1>3, <1>4, <1>5, <1>6, <1>7, <1>8

LEMMA AnswerReadStep ==
  ASSUME IInv, NEW c \in Call, AnswerRead(c)
  PROVE  IInv'
<1> USE DEF IInv, AnswerRead, Replies
<1>1. VarTypes'
  BY DEF VarTypes
<1>2. ArgsInv'
  BY DEF VarTypes, ArgsInv
<1>3. ReadInv'
  BY DEF VarTypes, ReadInv, ReadOK
<1>4. AnswerInv'
  BY DEF VarTypes, AnswerInv, AnswerOK
<1>5. WroteInv'
  BY DEF WroteInv, WroteOK, AnswerInv, AnswerOK, VarTypes
<1>6. ResultInv'
  BY DEF ResultInv, VarTypes
<1> QED
  BY <1>1, <1>2, <1>3, <1>4, <1>5, <1>6

LEMMA FailStep ==
  ASSUME IInv, NEW c \in Call, Fail(c)
  PROVE  IInv'
<1> USE DEF IInv, Fail, Replies
<1>1. VarTypes'
  BY DEF VarTypes
<1>2. ArgsInv'
  BY DEF VarTypes, ArgsInv
<1>3. ReadInv'
  BY DEF VarTypes, ReadInv, ReadOK
<1>4. AnswerInv'
  <2>1. wrote[c] = <<>>
    BY DEF WroteInv, WroteOK, AnswerInv, AnswerOK
  <2> QED
    BY <2>1 DEF VarTypes, AnswerInv, AnswerOK
<1>5. WroteInv'
  BY DEF WroteInv, WroteOK, AnswerInv, AnswerOK, VarTypes
<1>6. ResultInv'
  BY DEF ResultInv, VarTypes
<1> QED
  BY <1>1, <1>2, <1>3, <1>4, <1>5, <1>6

LEMMA WriteStep ==
  ASSUME IInv, NEW c \in Call, Write(c)
  PROVE  IInv'
<1> USE DEF IInv
<1>1. PICK what \in {"ok", "error"} : Replies(c, what)
  BY DEF Write
<1>2. args[c] \in Arguments /\ Apply(c) /\ pc[c] = "sent"
  BY <1>1 DEF Write, Replies, ArgsInv
<1>3. wrote[c] = <<>> /\ c \notin stray /\ answer[c] = "none"
  BY <1>2 DEF WroteInv, WroteOK, AnswerInv, AnswerOK
<1>4. VarTypes'
  <2>1. pc' \in [Call -> {"idle", "sent", "answered", "done"}]
    BY <1>1 DEF VarTypes, Replies
  <2>2. answer' \in [Call -> {"none", "ok", "error"}]
    BY <1>1 DEF VarTypes, Replies
  <2> QED
    BY <1>2, <2>1, <2>2, ApplyTypes DEF VarTypes, Write
<1>5. ArgsInv'
  BY <1>1 DEF ArgsInv, Write, Replies, VarTypes
<1>6. ReadInv'
  <2> SUFFICES ASSUME NEW d \in Call, NEW k \in Key PROVE ReadOK(d, k)'
    BY DEF ReadInv
  <2>1. ReadOK(d, k)
    BY DEF ReadInv
  <2>2. /\ held[d][k] \subseteq held'[d][k]
        /\ pc[d] = "sent" /\ store[k] \in held[d][k] => store'[k] \in held'[d][k]
    BY <1>2, ApplyHeld
  <2>3. pc'[d] = "sent" => pc[d] = "sent"
    BY <1>1 DEF Replies, VarTypes
  <2> QED
    BY <2>1, <2>2, <2>3 DEF ReadOK, Write
<1>7. AnswerInv' /\ WroteInv'
  <2>1. /\ wrote'[c] = <<Operations(args[c].items)>>
        /\ \A d \in Call \ {c} : wrote'[d] = wrote[d]
    BY <1>2, <1>3, ApplyWrote
  <2>2. pc'[c] = "answered" /\ answer'[c] = what
    BY <1>1 DEF Replies, VarTypes
  <2>3. \A d \in Call \ {c} : pc'[d] = pc[d] /\ answer'[d] = answer[d]
    BY <1>1 DEF Replies, VarTypes
  <2>4. AnswerOK(c)' /\ WroteOK(c)'
    BY <1>3, <2>1, <2>2 DEF AnswerOK, WroteOK, Write, Writes, Reads
  <2>5. \A d \in Call \ {c} : AnswerOK(d)' /\ WroteOK(d)'
    BY <2>1, <2>3 DEF AnswerOK, WroteOK, Write, AnswerInv, WroteInv
  <2> QED
    BY <2>4, <2>5 DEF AnswerInv, WroteInv
<1>8. ResultInv'
  BY <1>1 DEF ResultInv, VarTypes, Write, Replies
<1> QED
  BY <1>4, <1>5, <1>6, <1>7, <1>8

LEMMA WriteLateStep ==
  ASSUME IInv, NEW c \in Call, WriteLate(c)
  PROVE  IInv'
<1> USE DEF IInv
<1>1. wrote[c] = <<>> /\ answer[c] = "error"
  BY DEF AnswerInv, AnswerOK, WriteLate
<1>2. args[c] \in Arguments /\ Apply(c)
  BY <1>1 DEF AnswerInv, AnswerOK, WriteLate, ArgsInv
<1>3. VarTypes'
  BY <1>2, ApplyTypes DEF VarTypes, WriteLate, calls
<1>4. ArgsInv'
  BY DEF ArgsInv, WriteLate, calls
<1>5. ReadInv'
  <2> SUFFICES ASSUME NEW d \in Call, NEW k \in Key PROVE ReadOK(d, k)'
    BY DEF ReadInv
  <2>1. ReadOK(d, k)
    BY DEF ReadInv
  <2>2. /\ held[d][k] \subseteq held'[d][k]
        /\ pc[d] = "sent" /\ store[k] \in held[d][k] => store'[k] \in held'[d][k]
    BY <1>2, ApplyHeld
  <2> QED
    BY <2>1, <2>2 DEF ReadOK, WriteLate, calls
<1>6. AnswerInv' /\ WroteInv'
  <2>1. /\ wrote'[c] = <<Operations(args[c].items)>>
        /\ \A d \in Call \ {c} : wrote'[d] = wrote[d]
    BY <1>1, <1>2, ApplyWrote
  <2>2. AnswerOK(c)' /\ WroteOK(c)'
    BY <1>1, <2>1 DEF AnswerOK, WroteOK, WriteLate, calls, AnswerInv
  <2>3. \A d \in Call \ {c} : AnswerOK(d)' /\ WroteOK(d)'
    BY <2>1 DEF AnswerOK, WroteOK, WriteLate, calls, AnswerInv, WroteInv
  <2> QED
    BY <2>2, <2>3 DEF AnswerInv, WroteInv
<1>7. ResultInv'
  BY DEF ResultInv, WriteLate, calls
<1> QED
  BY <1>3, <1>4, <1>5, <1>6, <1>7

LEMMA InvStep == IInv /\ [Next]_vars => IInv'
<1> SUFFICES ASSUME IInv, [Next]_vars PROVE IInv'
  OBVIOUS
<1>1. CASE UNCHANGED vars
  <2> USE <1>1 DEF vars, calls, IInv
  <2>1. VarTypes'
    BY DEF VarTypes
  <2>2. ArgsInv'
    BY DEF ArgsInv
  <2>3. ReadInv'
    BY DEF ReadInv, ReadOK
  <2>4. AnswerInv'
    BY DEF AnswerInv, AnswerOK
  <2>5. WroteInv'
    BY DEF WroteInv, WroteOK
  <2>6. ResultInv'
    BY DEF ResultInv
  <2> QED
    BY <2>1, <2>2, <2>3, <2>4, <2>5, <2>6
<1>2. CASE Quiesce
  BY <1>1, <1>2 DEF Quiesce
<1> QED
  BY <1>1, <1>2, InvokeStep, ReadStep, AnswerReadStep, WriteStep, FailStep,
     WriteLateStep, ReturnStep DEF Next

THEOREM Invariance == Spec => []IInv
BY InitInv, InvStep, PTL DEF Spec

-----------------------------------------------------------------------------
(* What the invariant gives.                                               *)

\* The outcome of an answer is the one of its tool.
LEMMA OutcomeOf ==
  ASSUME NEW a, NEW f
  PROVE  /\ Outcome(a, "error", f) = [NoResult EXCEPT !.status = "error"]
         /\ a.tool = "get_state" => Outcome(a, "ok", f) = GetOutcome(a, f)
         /\ a.tool = "get_bulk_state" => Outcome(a, "ok", f) = GetBulkOutcome(a, f)
         /\ a.tool \in Writes => Outcome(a, "ok", f) = WriteOutcome(a)
<1>1. Outcome(a, "error", f) = [NoResult EXCEPT !.status = "error"]
  BY DEF Outcome
<1>2. a.tool = "get_state" => Outcome(a, "ok", f) = GetOutcome(a, f)
  BY DEF Outcome, Writes
<1>3. a.tool = "get_bulk_state" => Outcome(a, "ok", f) = GetBulkOutcome(a, f)
  BY DEF Outcome, Writes
<1>4. a.tool \in Writes => Outcome(a, "ok", f) = WriteOutcome(a)
  BY DEF Outcome, Writes
<1> QED
  BY <1>1, <1>2, <1>3, <1>4

\* A call that is under way asks for keys of the store.
LEMMA KeysType ==
  ASSUME NEW a \in Arguments \cup {NoArgs}
  PROVE  a.keys \subseteq Key
<1>1. a.keys \in {{k} : k \in Key} \/ a.keys \in SUBSET Key \/ a.keys = {}
  BY DEF Arguments, NoArgs
<1> QED
  BY <1>1

\* What a call that was answered with its keys has found of one of them.
LEMMA FoundAt ==
  ASSUME IInv, NEW c \in Call, answer[c] = "ok", args[c].tool \in Reads,
         NEW k \in args[c].keys
  PROVE  /\ k \in Key
         /\ found[c][k] # "unread"
         /\ found[c][k] = "failed" => args[c].tool = "get_bulk_state"
         /\ found[c][k] # "failed" => found[c][k] \in held[c][k] /\ found[c][k] \in Stored
<1>1. k \in Key
  BY KeysType DEF IInv, VarTypes
<1>2. found[c][k] # "unread"
  BY DEF IInv, AnswerInv, AnswerOK
<1>3. ReadOK(c, k)
  BY <1>1 DEF IInv, ReadInv
<1>4. held[c][k] \subseteq Stored
  BY <1>1 DEF IInv, VarTypes
<1> QED
  BY <1>1, <1>2, <1>3, <1>4 DEF ReadOK

\* What a read tells of a key, as text or as a value, if it tells of it.
LEMMA ToldOfFound ==
  ASSUME IInv, NEW c \in Call, answer[c] = "ok", args[c].tool \in Reads,
         NEW k \in args[c].keys
  PROVE  /\ ToldWasHeld(c, k, Tells(found[c][k]))
         /\ Tells(found[c][k]) \in Told
         /\ Tells(found[c][k]) = Blank => ToldWasHeld(c, k, "not_found")
         /\ Tells(found[c][k]) # Blank => Tells(found[c][k]) = found[c][k]
<1>1. /\ found[c][k] # "unread"
      /\ found[c][k] = "failed" => args[c].tool = "get_bulk_state"
      /\ found[c][k] # "failed" => found[c][k] \in held[c][k] /\ found[c][k] \in Stored
  BY FoundAt
<1> DEFINE f == found[c][k]
<1> HIDE DEF f
<1>2. CASE f = "failed"
  BY <1>1, <1>2, StateAssumption DEF Tells, Told, ToldWasHeld, f
<1>3. CASE f \in {Absent, Blank}
  BY <1>1, <1>3, StateAssumption DEF Tells, Told, Value, ToldWasHeld, f
<1>4. CASE f \in Text
  BY <1>1, <1>4, StateAssumption DEF Tells, Told, Value, ToldWasHeld, f
<1> QED
  BY <1>1, <1>2, <1>3, <1>4 DEF Stored, Value, f

\* A result that reports success comes from an answer that did.
LEMMA ResultOf ==
  ASSUME IInv, NEW c \in Call, result[c].status = "success"
  PROVE  /\ answer[c] = "ok" /\ args[c] \in Arguments
         /\ result[c] = Outcome(args[c], "ok", [k \in args[c].keys |-> found[c][k]])
<1>1. pc[c] = "done"
  BY DEF IInv, ResultInv, NoResult
<1>2. result[c] = Outcome(args[c], answer[c], [k \in args[c].keys |-> found[c][k]])
  BY <1>1 DEF IInv, ResultInv
<1>3. answer[c] \in {"ok", "error"}
  BY <1>1 DEF IInv, AnswerInv, AnswerOK, VarTypes
<1>4. answer[c] # "error"
  <2> SUFFICES ASSUME answer[c] = "error" PROVE FALSE
    OBVIOUS
  <2>1. result[c].status = "error"
    BY <1>2 DEF Outcome, NoResult
  <2> QED
    BY <2>1
<1> QED
  BY <1>1, <1>2, <1>3, <1>4 DEF IInv, ArgsInv

\* What the answer to a read tells of a key was there during the call.
THEOREM TruthOfReads == Spec => []ReadsWereTrue
<1>1. IInv => ReadsWereTrue
  <2> SUFFICES ASSUME IInv, NEW c \in Call,
                      result[c].status = "success", args[c].tool \in Reads
               PROVE  /\ \A k \in DOMAIN result[c].text : ToldWasHeld(c, k, result[c].text[k])
                      /\ \A k \in DOMAIN result[c].structured :
                            ToldWasHeld(c, k, result[c].structured[k])
                      /\ args[c].keys \subseteq
                            DOMAIN result[c].text \cup DOMAIN result[c].structured
    BY DEF ReadsWereTrue
  <2> DEFINE a == args[c]
             f == [k \in a.keys |-> found[c][k]]
  <2>1. answer[c] = "ok" /\ a \in Arguments /\ result[c] = Outcome(a, "ok", f)
    BY ResultOf
  <2>2. \A k \in a.keys :
          /\ ToldWasHeld(c, k, Tells(f[k]))
          /\ Tells(f[k]) = Blank => ToldWasHeld(c, k, "not_found")
          /\ Tells(f[k]) # Blank => Tells(f[k]) = f[k]
    BY <2>1, ToldOfFound
  <2>3. CASE a.tool = "get_bulk_state"
    <3>1. result[c] = GetBulkOutcome(a, f)
      BY <2>1, <2>3, OutcomeOf
    <3>2. /\ DOMAIN result[c].structured = a.keys
          /\ \A k \in a.keys : result[c].structured[k] = Tells(f[k])
          /\ result[c].text = <<>>
      BY <3>1 DEF GetBulkOutcome
    <3>3. DOMAIN result[c].text = {}
      BY <3>2
    <3> QED
      BY <2>2, <3>2, <3>3
  <2>4. CASE a.tool = "get_state" /\ \A k \in a.keys : Tells(f[k]) = Blank
    <3>1. result[c] = GetOutcome(a, f)
      BY <2>1, <2>4, OutcomeOf
    <3>2. /\ DOMAIN result[c].text = a.keys
          /\ \A k \in a.keys : result[c].text[k] = "not_found"
          /\ result[c].structured = <<>>
      <4>1. result[c] = [status |-> "success", text |-> [k \in a.keys |-> "not_found"],
                         structured |-> <<>>]
        <5> HIDE DEF f, a
        <5> QED
          BY <3>1, <2>4 DEF GetOutcome
      <4> QED
        BY <4>1
    <3>3. DOMAIN result[c].structured = {}
      BY <3>2
    <3> QED
      BY <2>2, <2>4, <3>2, <3>3
  <2>5. CASE a.tool = "get_state" /\ ~(\A k \in a.keys : Tells(f[k]) = Blank)
    <3>1. \A k \in a.keys : Tells(f[k]) # Blank
      BY <2>1, <2>5 DEF Arguments
    <3>2. result[c] = GetOutcome(a, f)
      BY <2>1, <2>5, OutcomeOf
    <3>3. result[c].text = f /\ result[c].structured = f
      BY <3>2, <2>5 DEF GetOutcome
    <3> QED
      BY <2>2, <3>1, <3>3
  <2> QED
    BY <2>3, <2>4, <2>5 DEF Reads
<1> QED
  BY <1>1, Invariance, PTL

\* A write changes the store once at most, by all of its items in their order.
THEOREM WritesAreAsked == Spec => []WrittenAsAsked
<1>1. IInv => WrittenAsAsked
  <2> SUFFICES ASSUME IInv, NEW c \in Call
               PROVE  /\ Len(wrote[c]) <= 1
                      /\ \A n \in DOMAIN wrote[c] : \A s \in [Key -> Stored] :
                           \A k \in Key :
                             LET entry == Applied(wrote[c][n], s)[k] IN
                             \/ Asks(c, k, entry)
                             \/ entry = s[k] /\ \A e \in Stored : ~Asks(c, k, e)
    BY DEF WrittenAsAsked
  <2>1. CASE wrote[c] = <<>>
    BY <2>1
  <2>2. CASE answer[c] # "none" /\ wrote[c] = <<Operations(args[c].items)>>
    <3> DEFINE items == args[c].items
               ops   == Operations(items)
    <3>1. args[c] \in Arguments
      BY <2>2 DEF IInv, ArgsInv, AnswerInv, AnswerOK
    <3>2. items \in Seq(Item)
      BY <3>1, ItemsType
    <3>3. /\ ops \in Seq(Operation) /\ DOMAIN ops = DOMAIN items
          /\ DOMAIN items = 1 .. Len(items) /\ Len(items) \in Nat
      BY <3>2, OperationsType
    <3>4. \A n \in DOMAIN items :
            /\ ops[n].key = items[n].key
            /\ ops[n].entry = IF items[n].isDelete THEN Absent ELSE items[n].value
      BY DEF Operations
    <3>5. ASSUME NEW s \in [Key -> Stored], NEW k \in Key
          PROVE  \/ Asks(c, k, Applied(ops, s)[k])
                 \/ Applied(ops, s)[k] = s[k] /\ \A e \in Stored : ~Asks(c, k, e)
      <4>1. CASE /\ \A n \in DOMAIN ops : ops[n].key # k
                 /\ Applied(ops, s)[k] = s[k]
        BY <3>3, <3>4, <4>1 DEF Asks
      <4>2. CASE \E n \in DOMAIN ops :
                   /\ ops[n].key = k
                   /\ \A m \in DOMAIN ops : ops[m].key = k => m <= n
                   /\ Applied(ops, s)[k] = ops[n].entry
        BY <3>3, <3>4, <4>2 DEF Asks
      <4> QED
        <5> HIDE DEF ops
        <5> QED
          BY <3>3, <4>1, <4>2, AppliedAt
    <3>6. Len(wrote[c]) = 1 /\ DOMAIN wrote[c] = {1} /\ wrote[c][1] = ops
      BY <2>2
    <3> QED
      BY <3>5, <3>6
  <2> QED
    BY <2>1, <2>2 DEF IInv, WroteInv, WroteOK
<1> QED
  BY <1>1, Invariance, PTL

\* Success is reported of writes that were applied.
THEOREM SuccessOfWrites == Spec => []SuccessWasWritten
<1>1. IInv => SuccessWasWritten
  <2> SUFFICES ASSUME IInv, NEW c \in Call,
                      result[c].status = "success", args[c].tool \in Writes
               PROVE  wrote[c] # <<>> /\ c \notin stray
    BY DEF SuccessWasWritten
  <2>1. answer[c] = "ok"
    BY ResultOf
  <2>2. AnswerOK(c)
    BY DEF IInv, AnswerInv
  <2> QED
    BY <2>1, <2>2 DEF AnswerOK, Reads, Writes
<1> QED
  BY <1>1, Invariance, PTL

\* Every variable has its type.
THEOREM TypeCorrect == Spec => []TypeOK
<1>1. IInv => TypeOK
  <2> SUFFICES ASSUME IInv, NEW c \in Call
               PROVE  /\ result[c].status \in {"none", "success", "error"}
                      /\ result[c].text \in Telling(args[c].keys)
                      /\ result[c].structured \in Telling(args[c].keys)
    BY DEF IInv, TypeOK, ResultInv
  <2> DEFINE a == args[c]
             f == [k \in a.keys |-> found[c][k]]
  <2>1. <<>> \in Telling(a.keys)
    BY TellsNothing
  <2>2. CASE result[c] = NoResult \/ result[c] = [NoResult EXCEPT !.status = "error"]
    BY <2>1, <2>2 DEF NoResult
  <2>3. ASSUME NEW g \in [a.keys -> Told] PROVE g \in Telling(a.keys)
    BY DEF Telling
  <2>4. CASE answer[c] = "ok" /\ result[c] = Outcome(a, "ok", f) /\ a \in Arguments
    <3>1. CASE a.tool \in Writes
      BY <2>1, <2>4, <3>1, OutcomeOf DEF WriteOutcome, NoResult
    <3>2. CASE a.tool \in Reads
      <4>1. \A k \in a.keys :
              /\ Tells(f[k]) \in Told
              /\ Tells(f[k]) # Blank => Tells(f[k]) = f[k]
        BY <2>4, <3>2, ToldOfFound
      <4>2. [k \in a.keys |-> Tells(f[k])] \in Telling(a.keys)
        BY <2>3, <4>1
      <4>3. [k \in a.keys |-> "not_found"] \in Telling(a.keys)
        BY <2>3 DEF Told
      <4>4. CASE a.tool = "get_bulk_state"
        <5>1. result[c] = GetBulkOutcome(a, f)
          BY <2>4, <4>4, OutcomeOf
        <5>2. result[c] = [status |-> "success", text |-> <<>>,
                           structured |-> [k \in a.keys |-> Tells(f[k])]]
          <6> HIDE DEF f, a
          <6> QED
            BY <5>1 DEF GetBulkOutcome
        <5> QED
          BY <2>1, <4>2, <5>2
      <4>5. CASE a.tool = "get_state" /\ \A k \in a.keys : Tells(f[k]) = Blank
        <5>1. result[c] = GetOutcome(a, f)
          BY <2>4, <4>5, OutcomeOf
        <5>2. result[c] = [status |-> "success", text |-> [k \in a.keys |-> "not_found"],
                           structured |-> <<>>]
          <6> HIDE DEF f, a
          <6> QED
            BY <4>5, <5>1 DEF GetOutcome
        <5> QED
          BY <2>1, <4>3, <5>2
      <4>6. CASE a.tool = "get_state" /\ ~(\A k \in a.keys : Tells(f[k]) = Blank)
        <5>1. \A k \in a.keys : f[k] \in Told
          BY <2>4, <4>1, <4>6 DEF Arguments
        <5>2. f \in Telling(a.keys)
          BY <2>3, <5>1
        <5> QED
          <6>1. result[c] = GetOutcome(a, f)
            BY <2>4, <4>6, OutcomeOf
          <6>2. result[c] = [status |-> "success", text |-> f, structured |-> f]
            <7> HIDE DEF f, a
            <7> QED
              BY <4>6, <6>1 DEF GetOutcome
          <6> QED
            BY <5>2, <6>2
      <4> QED
        BY <3>2, <4>4, <4>5, <4>6 DEF Reads
    <3> QED
      BY <2>4, <3>1, <3>2 DEF Arguments, Reads, Writes
  <2> QED
    <3>1. CASE pc[c] # "done"
      BY <2>2, <3>1 DEF IInv, ResultInv
    <3>2. CASE pc[c] = "done" /\ answer[c] = "error"
      <4>1. result[c] = Outcome(a, "error", f)
        BY <3>2 DEF IInv, ResultInv
      <4> QED
        BY <2>2, <4>1, OutcomeOf
    <3>3. CASE pc[c] = "done" /\ answer[c] = "ok"
      BY <2>4, <3>3 DEF IInv, ResultInv, ArgsInv
    <3> QED
      BY <3>1, <3>2, <3>3 DEF IInv, VarTypes, AnswerInv, AnswerOK
<1> QED
  BY <1>1, Invariance, PTL
-----------------------------------------------------------------------------
(* The tools implement StateStore.                                         *)

Statuses == [c \in Call |-> Status(c)]
Hearings == [c \in Call |-> Heard(c)]
Writers  == {c \in Call : wrote[c] # <<>>}

\* How far a call is, by its place.
LEMMA StatusIs ==
  ASSUME NEW c \in Call
  PROVE  /\ pc[c] = "idle" => Status(c) = "idle"
         /\ pc[c] \in {"sent", "answered"} => Status(c) = "open"
         /\ pc[c] = "done" => Status(c) = result[c].status
         /\ Status(c) # "success" => Heard(c) = <<>>
BY DEF Status, Heard

\* Only the call that moves changes for its caller.
LEMMA OneMoves ==
  ASSUME NEW c \in Call,
         \A d \in Call \ {c} :
           pc'[d] = pc[d] /\ result'[d] = result[d] /\ args'[d] = args[d]
  PROVE  /\ Statuses' = [Statuses EXCEPT ![c] = Status(c)']
         /\ Hearings' = [Hearings EXCEPT ![c] = Heard(c)']
         /\ Statuses[c] = Status(c) /\ Hearings[c] = Heard(c)
<1>1. \A d \in Call \ {c} : Status(d)' = Status(d)
  BY DEF Status
<1>2. \A d \in Call \ {c} : Heard(d)' = Heard(d)
  BY <1>1 DEF Heard
<1> QED
  BY <1>1, <1>2 DEF Statuses, Hearings

\* A call goes on being open, and its caller hears of nothing.
LEMMA StaysOpen ==
  ASSUME NEW c \in Call, pc[c] \in {"sent", "answered"}, pc'[c] \in {"sent", "answered"},
         \A d \in Call \ {c} : pc'[d] = pc[d],
         UNCHANGED <<args, result>>
  PROVE  UNCHANGED <<Statuses, Hearings>>
<1>1. Status(c) = "open" /\ Status(c)' = "open"
  BY StatusIs DEF Status
<1>2. Heard(c) = <<>> /\ Heard(c)' = <<>>
  BY <1>1 DEF Heard
<1> DEFINE s == Statuses  h == Hearings
<1>3. Statuses' = [s EXCEPT ![c] = s[c]] /\ Hearings' = [h EXCEPT ![c] = h[c]]
  BY <1>1, <1>2, OneMoves
<1>4. s = [s EXCEPT ![c] = s[c]] /\ h = [h EXCEPT ![c] = h[c]]
  BY DEF Statuses, Hearings
<1> QED
  BY <1>3, <1>4

LEMMA InitRefines == Init => Store!Init
<1> SUFFICES ASSUME Init PROVE Store!Init
  OBVIOUS
<1>1. [c \in Call |-> Status(c)] = [c \in Call |-> "idle"]
  BY StatusIs DEF Init
<1>2. [c \in Call |-> Heard(c)] = [c \in Call |-> <<>>]
  BY StatusIs DEF Init
<1>3. {c \in Call : wrote[c] # <<>>} = {}
  BY DEF Init
<1> QED
  BY <1>1, <1>2, <1>3 DEF Init, Store!Init, Store!NotSeen

LEMMA InvokeRefines ==
  ASSUME IInv, NEW c \in Call, NEW a \in Arguments, Invoke(c, a)
  PROVE  Store!Begin(c, a)
<1>1. Status(c) = "idle" /\ Status(c)' = "open"
  BY StatusIs DEF Invoke, Status, IInv, VarTypes
<1>2. Heard(c) = <<>> /\ Heard(c)' = <<>>
  BY <1>1 DEF Heard
<1>3. \A d \in Call \ {c} :
        pc'[d] = pc[d] /\ result'[d] = result[d] /\ args'[d] = args[d]
  BY DEF Invoke, IInv, VarTypes
<1>4. /\ Statuses' = [Statuses EXCEPT ![c] = "open"] /\ Statuses[c] = "idle"
      /\ Hearings' = [Hearings EXCEPT ![c] = Hearings[c]]
  BY <1>1, <1>2, <1>3, OneMoves
<1>5. UNCHANGED Hearings
  BY <1>4 DEF Hearings
<1>6. UNCHANGED Writers
  BY DEF Invoke, Writers
<1> QED
  BY <1>4, <1>5, <1>6 DEF Store!Begin, Invoke, Statuses, Hearings, Writers

LEMMA ReadRefines ==
  ASSUME IInv, NEW c \in Call, NEW k \in Key, Read(c, k)
  PROVE  Store!See(c, k)
<1>1. Statuses[c] = "open"
  BY StatusIs DEF Read, Statuses
<1>2. UNCHANGED <<Statuses, Hearings, Writers>>
  BY StaysOpen DEF Read, Writers
<1>3. \/ found' = [found EXCEPT ![c][k] = store[k]]
      \/ args[c].tool = "get_bulk_state" /\ found' = [found EXCEPT ![c][k] = "failed"]
  BY DEF Read
<1> QED
  BY <1>1, <1>2, <1>3
     DEF Store!See, Store!NotSeen, Store!Failed, Read, Statuses, Hearings, Writers

\* A request that takes effect is one change of the store.
LEMMA ApplyRefines ==
  ASSUME IInv, NEW c \in Call, args[c] \in Arguments, args[c].tool \in Writes,
         wrote[c] = <<>>, Apply(c), Status(c) \in {"open", "error"},
         UNCHANGED <<args, found, Statuses, Hearings>>
  PROVE  Store!Change(c)
<1> DEFINE items == args[c].items
           ops   == Operations(items)
<1>1. VarTypes /\ store \in [Key -> Stored]
  BY DEF IInv, VarTypes
<1>2. store' \in [Key -> Stored]
  BY <1>1, ApplyTypes
<1>3. ops \in Seq(Operation) /\ DOMAIN ops = DOMAIN items
  BY ItemsType, OperationsType
<1>4. \A n \in DOMAIN items :
        ops[n].key = items[n].key /\ ops[n].entry = Store!Entry(items[n])
  BY DEF Operations, Store!Entry
<1>5. ASSUME NEW k \in Key
      PROVE  \/ \E n \in DOMAIN items :
                   Store!LastOn(items, k, n) /\ store'[k] = Store!Entry(items[n])
             \/ /\ \A n \in DOMAIN items : items[n].key # k
                /\ store'[k] = store[k]
  <2> HIDE DEF ops
  <2>1. store' = Applied(ops, store)
    BY DEF Apply, ops
  <2>2. CASE /\ \A n \in DOMAIN ops : ops[n].key # k
             /\ store'[k] = store[k]
    BY <1>3, <1>4, <2>2
  <2>3. CASE \E n \in DOMAIN ops :
               /\ ops[n].key = k
               /\ \A m \in DOMAIN ops : ops[m].key = k => m <= n
               /\ store'[k] = ops[n].entry
    <3>1. PICK n \in DOMAIN ops :
            /\ ops[n].key = k
            /\ \A m \in DOMAIN ops : ops[m].key = k => m <= n
            /\ store'[k] = ops[n].entry
      BY <2>3
    <3>2. Store!LastOn(items, k, n)
      BY <1>3, <1>4, <3>1 DEF Store!LastOn
    <3> QED
      BY <1>3, <1>4, <3>1, <3>2
  <2> QED
    BY <1>1, <1>3, <2>1, <2>2, <2>3, AppliedAt
<1>6. Writers' = Writers \cup {c} /\ c \notin Writers
  BY <1>1, ApplyWrote DEF Writers
<1> QED
  BY <1>2, <1>5, <1>6 DEF Store!Change, Statuses, Hearings, Writers

LEMMA WriteRefines ==
  ASSUME IInv, NEW c \in Call, Write(c)
  PROVE  Store!Change(c)
<1>1. pc[c] = "sent" /\ pc' = [pc EXCEPT ![c] = "answered"]
  BY DEF Write, Replies
<1>2. UNCHANGED <<Statuses, Hearings>>
  BY <1>1, StaysOpen DEF Write, IInv, VarTypes
<1>3. args[c] \in Arguments /\ wrote[c] = <<>>
  BY <1>1 DEF IInv, ArgsInv, AnswerInv, AnswerOK, WroteInv, WroteOK
<1> QED
  BY <1>1, <1>2, <1>3, ApplyRefines, StatusIs DEF Write

LEMMA WriteLateRefines ==
  ASSUME IInv, NEW c \in Call, WriteLate(c)
  PROVE  Store!Change(c)
<1>1. /\ answer[c] = "error" /\ args[c].tool \in Writes /\ wrote[c] = <<>>
      /\ pc[c] \in {"answered", "done"}
  BY DEF WriteLate, IInv, VarTypes, AnswerInv, AnswerOK
<1>2. args[c] \in Arguments
  BY <1>1 DEF IInv, ArgsInv
<1>3. pc[c] = "done" => result[c].status = "error"
  <2> SUFFICES ASSUME pc[c] = "done" PROVE result[c].status = "error"
    OBVIOUS
  <2>1. PICK f : result[c] = Outcome(args[c], "error", f)
    BY <1>1 DEF IInv, ResultInv
  <2> QED
    BY <2>1, OutcomeOf DEF NoResult
<1>4. Status(c) \in {"open", "error"}
  BY <1>1, <1>3, StatusIs
<1>5. UNCHANGED <<Statuses, Hearings>>
  BY DEF WriteLate, calls, Statuses, Hearings, Status, Heard
<1> QED
  BY <1>1, <1>2, <1>4, <1>5, ApplyRefines DEF WriteLate, calls

\* What a caller hears of a successful call is what the call saw.
LEMMA HeardIsShown ==
  ASSUME IInv, NEW c \in Call, result[c].status = "success", NEW k \in args[c].keys
  PROVE  /\ found[c][k] # "unread"
         /\ Says(result[c], k) = Store!Shown(found[c][k])
<1> DEFINE a == args[c]
           f == [x \in a.keys |-> found[c][x]]
<1>1. answer[c] = "ok" /\ a \in Arguments /\ result[c] = Outcome(a, "ok", f)
  BY ResultOf
<1>2. a.tool \in Reads
  BY <1>1 DEF Arguments, Reads
<1>3. found[c][k] # "unread"
  BY <1>1, <1>2, FoundAt
<1>4. f[k] = found[c][k] /\ Tells(f[k]) = Store!Shown(found[c][k])
  BY DEF Tells, Store!Shown
<1>5. CASE a.tool = "get_bulk_state"
  <2>1. result[c] = GetBulkOutcome(a, f)
    BY <1>1, <1>5, OutcomeOf
  <2>2. result[c].structured = [x \in a.keys |-> Tells(f[x])]
    <3> HIDE DEF a, f
    <3> QED
      BY <2>1 DEF GetBulkOutcome
  <2>3. Says(result[c], k) = Tells(f[k])
    <3> HIDE DEF f
    <3> QED
      BY <2>2 DEF Says
  <2> QED
    BY <1>3, <1>4, <2>3
<1>6. CASE a.tool = "get_state" /\ \A x \in a.keys : Tells(f[x]) = Blank
  <2>1. result[c] = GetOutcome(a, f)
    BY <1>1, <1>6, OutcomeOf
  <2>2. /\ result[c].structured = <<>>
        /\ result[c].text = [x \in a.keys |-> "not_found"]
    <3> HIDE DEF a, f
    <3> QED
      BY <1>6, <2>1 DEF GetOutcome
  <2>3. k \notin DOMAIN result[c].structured
    BY <2>2
  <2>4. Says(result[c], k) = Blank
    BY <2>2, <2>3 DEF Says
  <2>5. Tells(f[k]) = Blank
    <3> HIDE DEF f
    <3> QED
      BY <1>6
  <2> QED
    BY <1>3, <1>4, <2>4, <2>5
<1>7. CASE a.tool = "get_state" /\ ~(\A x \in a.keys : Tells(f[x]) = Blank)
  <2>1. result[c] = GetOutcome(a, f)
    BY <1>1, <1>7, OutcomeOf
  <2>2. result[c].structured = f
    <3> HIDE DEF a, f
    <3> QED
      BY <1>7, <2>1 DEF GetOutcome
  <2>3. Says(result[c], k) = f[k]
    BY <2>2 DEF Says
  <2>4. Tells(f[k]) # Blank
    <3>1. PICK x \in a.keys : Tells(f[x]) # Blank
      BY <1>7
    <3>2. x = k
      BY <1>1, <1>7, <3>1 DEF Arguments
    <3> QED
      BY <3>1, <3>2
  <2>5. Tells(f[k]) = f[k]
    BY <2>4 DEF Tells
  <2> QED
    BY <1>3, <1>4, <2>3, <2>5
<1> QED
  BY <1>2, <1>5, <1>6, <1>7 DEF Reads

HeardAreShown ==
  \A c \in Call : result[c].status = "success" =>
    \A k \in args[c].keys :
      /\ found[c][k] # "unread"
      /\ Says(result[c], k) = Store!Shown(found[c][k])

\* So it is after a step that keeps the invariant.
LEMMA HeardAreShownNext == IInv' => HeardAreShown'
<1>1. IInv => HeardAreShown
  BY HeardIsShown DEF HeardAreShown
<1> QED
  BY <1>1, PTL

LEMMA ReturnRefines ==
  ASSUME IInv, IInv', NEW c \in Call, Return(c)
  PROVE  Store!Succeed(c) \/ Store!Fail(c)
<1>1. /\ pc[c] = "answered" /\ pc'[c] = "done"
      /\ \A d \in Call \ {c} :
           pc'[d] = pc[d] /\ result'[d] = result[d] /\ args'[d] = args[d]
      /\ UNCHANGED <<store, args, found, answer, wrote>>
  BY DEF Return, IInv, VarTypes, ResultInv
<1>2. Status(c) = "open" /\ Status(c)' = result'[c].status
  BY <1>1, StatusIs DEF Status
<1>3. /\ Statuses' = [Statuses EXCEPT ![c] = Status(c)'] /\ Statuses[c] = "open"
      /\ Hearings' = [Hearings EXCEPT ![c] = Heard(c)'] /\ Hearings[c] = <<>>
  BY <1>1, <1>2, OneMoves, StatusIs
<1>4. UNCHANGED Writers
  BY <1>1 DEF Writers
<1>5. args[c] \in Arguments /\ answer[c] \in {"ok", "error"}
  BY <1>1 DEF IInv, VarTypes, ArgsInv, AnswerInv, AnswerOK
<1>6. CASE answer[c] = "error"
  <2>1. PICK f : result'[c] = Outcome(args[c], "error", f)
    BY <1>1, <1>6 DEF IInv, ResultInv
  <2>2. Status(c)' = "error"
    BY <1>2, <2>1, OutcomeOf DEF NoResult
  <2>3. Heard(c)' = <<>>
    BY <2>2 DEF Heard
  <2>4. UNCHANGED Hearings
    BY <1>3, <2>3 DEF Hearings
  <2> QED
    BY <1>1, <1>3, <1>4, <2>2, <2>4 DEF Store!Fail, Statuses, Hearings, Writers
<1>7. CASE answer[c] = "ok"
  <2>1. result'[c].status = "success"
    <3>1. PICK f : result'[c] = Outcome(args[c], "ok", f)
      BY <1>1, <1>7 DEF IInv, ResultInv
    <3>2. CASE args[c].tool = "get_state"
      BY <3>1, <3>2, OutcomeOf DEF GetOutcome
    <3>3. CASE args[c].tool = "get_bulk_state"
      BY <3>1, <3>3, OutcomeOf DEF GetBulkOutcome
    <3>4. CASE args[c].tool \in Writes
      BY <3>1, <3>4, OutcomeOf DEF WriteOutcome, NoResult
    <3> QED
      BY <1>5, <3>2, <3>3, <3>4 DEF Arguments, Writes
  <2>2. \A k \in args[c].keys :
          /\ found[c][k] # "unread"
          /\ Says(result'[c], k) = Store!Shown(found[c][k])
    <3>1. HeardAreShown'
      BY HeardAreShownNext
    <3> QED
      BY <1>1, <2>1, <3>1 DEF HeardAreShown, Says, Store!Shown
  <2>3. Heard(c)' = [k \in args[c].keys |-> Store!Shown(found[c][k])]
    BY <1>1, <1>2, <2>1, <2>2 DEF Heard
  <2>4. args[c].tool \in Writes => c \in Writers
    BY <1>7 DEF IInv, AnswerInv, AnswerOK, Writers, Reads, Writes
  <2>5. Statuses' = [Statuses EXCEPT ![c] = "success"]
    BY <1>2, <1>3, <2>1
  <2> QED
    BY <1>1, <1>3, <1>4, <2>2, <2>3, <2>4, <2>5
       DEF Store!Succeed, Store!NotSeen, Statuses, Hearings, Writers
<1> QED
  BY <1>5, <1>6, <1>7

\* Every step is one of the store's promise or none.
LEMMA NextRefines ==
  ASSUME IInv, IInv', [Next]_vars
  PROVE  [Store!Next]_Store!vars
<1>1. CASE \E c \in Call, a \in Arguments : Invoke(c, a)
  BY <1>1, InvokeRefines DEF Store!Next
<1>2. CASE \E c \in Call, k \in Key : Read(c, k)
  BY <1>2, ReadRefines DEF Store!Next
<1>3. CASE \E c \in Call : Write(c) \/ WriteLate(c)
  BY <1>3, WriteRefines, WriteLateRefines DEF Store!Next
<1>4. CASE \E c \in Call : Return(c)
  BY <1>4, ReturnRefines DEF Store!Next
<1>5. CASE \E c \in Call : AnswerRead(c) \/ Fail(c)
  <2>1. PICK c \in Call : AnswerRead(c) \/ Fail(c)
    BY <1>5
  <2>2. /\ pc[c] = "sent" /\ pc' = [pc EXCEPT ![c] = "answered"]
        /\ UNCHANGED <<store, args, found, result, wrote>>
    BY <2>1 DEF AnswerRead, Fail, Replies
  <2>3. UNCHANGED <<Statuses, Hearings>>
    BY <2>2, StaysOpen DEF IInv, VarTypes
  <2> QED
    BY <2>2, <2>3 DEF Store!vars, Statuses, Hearings
<1>6. CASE Quiesce \/ UNCHANGED vars
  <2>1. UNCHANGED <<store, pc, args, found, result, wrote>>
    BY <1>6 DEF Quiesce, vars, calls
  <2>2. UNCHANGED <<Statuses, Hearings>>
    BY <2>1 DEF Statuses, Hearings, Status, Heard
  <2> QED
    BY <2>1, <2>2 DEF Store!vars, Statuses, Hearings
<1> QED
  BY <1>1, <1>2, <1>3, <1>4, <1>5, <1>6 DEF Next

\* The state tools keep the promise of StateStore, whatever is lost or late.
THEOREM Refinement == Spec => ImplementsStore
<1>1. Init => Store!Init
  BY InitRefines
<1>2. IInv /\ IInv' /\ [Next]_vars => [Store!Next]_Store!vars
  BY NextRefines
<1>3. Spec => []IInv
  BY Invariance
<1> QED
  BY <1>1, <1>2, <1>3, PTL DEF Spec, Store!Spec, ImplementsStore
=============================================================================
