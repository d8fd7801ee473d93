-------------------------- MODULE MessageToolsProofs --------------------------
(***************************************************************************)
(* Proofs about the tools that send one message, for any calls, any of the *)
(* tools, any metadata, contexts and verbs.                                *)
(*                                                                         *)
(* The invariant MInv says where a request came from, how often it was     *)
(* delivered before its answer, and who is in which conversation.          *)
(***************************************************************************)
EXTENDS MessageTools, TLAPS

-----------------------------------------------------------------------------
(* What the handlers make of their arguments.                              *)

\* The arguments of a call are of these shapes, whichever tool it is.
LEMMA ArgumentsShape ==
  ASSUME NEW a \in Arguments
  PROVE  /\ a.tool \in Tools /\ a.metadata \in Given
         /\ a.verb \in Verbs \cup {NoVerb}
         /\ a.temperature \in Temperatures \cup {NoTemperature}
         /\ a.context \in Context \cup {NoContext}
  BY DEF Arguments

\* Merging gives metadata: all the keys of both, the propagator's being its own.
LEMMA MergedShape ==
  ASSUME NEW given \in Given, NEW injected \in {{}, {TraceField}}
  PROVE  /\ Merged(given, injected) \in Metadata
         /\ \A f \in DOMAIN given :
              /\ f \in DOMAIN Merged(given, injected)
              /\ Merged(given, injected)[f] = "caller" \/ f = TraceField
<1>1. PICK F \in SUBSET (Field \cup {TraceField}) : given \in [F -> {"caller"}]
  BY DEF Given
<1>2. DOMAIN given = F /\ \A f \in F : given[f] = "caller"
  BY <1>1
<1>3. F \cup injected \in SUBSET (Field \cup {TraceField})
  BY <1>1
<1>4. Merged(given, injected) \in [F \cup injected -> {"caller", "propagator"}]
  BY <1>2 DEF Merged
<1>5. Merged(given, injected) \in Metadata
  BY <1>3, <1>4 DEF Metadata
<1> QED
  BY <1>2, <1>5 DEF Merged

LEMMA GivenIsMetadata == Given \subseteq Metadata /\ Nothing \in Given
<1>1. \A F \in SUBSET (Field \cup {TraceField}) :
        [F -> {"caller"}] \subseteq [F -> {"caller", "propagator"}]
  OBVIOUS
<1>2. Given \subseteq Metadata
  BY <1>1 DEF Given, Metadata
<1>3. {} \in SUBSET (Field \cup {TraceField}) /\ Nothing \in [{} -> {"caller"}]
  BY DEF Nothing
<1> QED
  BY <1>2, <1>3 DEF Given

\* A request r that does what the caller c asked for in a.
Faithful(c, a, r) ==
  /\ r \in [tool : Tools \cup {"none"}, metadata : Metadata, verb : Verbs \cup {NoVerb},
            temperature : Temperatures \cup {NoTemperature, 7},
            context : Context \cup Call \cup {NoContext}]
  /\ r.tool = a.tool
  /\ a.tool = "converse_with_llm" => r.context = ContextID(c, a)
  /\ a.tool \in Annotated \ {"invoke_service"} =>
       \A f \in DOMAIN a.metadata :
         /\ f \in DOMAIN r.metadata
         /\ r.metadata[f] = "caller" \/ f = TraceField

\* The request is made by the handler of the tool, for what the caller named.
LEMMA SentIsFaithful ==
  ASSUME NEW c \in Call, NEW a \in Arguments, NEW injected \in {{}, {TraceField}}
  PROVE  Faithful(c, a, Sent(c, a, injected))
<1> DEFINE r == Sent(c, a, injected)
<1> SUFFICES Faithful(c, a, r)
  OBVIOUS
<1> USE DEF Faithful
<1> USE ArgumentsShape
<1>1. a.tool \in AllTools
  BY ToolsAssumption
<1>2. a.metadata \in Given /\ a.metadata \in Metadata /\ Nothing \in Metadata
  BY GivenIsMetadata
<1>3. /\ Merged(Nothing, injected) \in Metadata
      /\ Merged(a.metadata, injected) \in Metadata
  BY <1>2, MergedShape, GivenIsMetadata
<1>4. \A f \in DOMAIN a.metadata :
        /\ f \in DOMAIN Merged(a.metadata, injected)
        /\ Merged(a.metadata, injected)[f] = "caller" \/ f = TraceField
  <2> HIDE ArgumentsShape
  <2> QED
    BY <1>2, MergedShape
<1>5. \A f \in DOMAIN a.metadata : a.metadata[f] = "caller"
  BY <1>2 DEF Given
<1>6. CASE a.tool = "publish_event"
  <2>1. r = PublishEvent(a, injected)
    BY <1>6 DEF Sent
  <2> QED
    BY <1>2, <1>3, <1>4, <1>6, <2>1 DEF PublishEvent, Message, Plain, Annotated, Merging
<1>7. CASE a.tool = "publish_event_with_metadata"
  <2>1. r = PublishEventWithMetadata(a)
    BY <1>7 DEF Sent
  <2> QED
    BY <1>2, <1>3, <1>4, <1>5, <1>7, <2>1 DEF PublishEventWithMetadata, Message, Plain
<1>8. CASE a.tool \in Merging
  <2>1. r = [Message(a.tool) EXCEPT !.metadata = Merged(a.metadata, injected)]
    BY <1>8 DEF Sent, InvokeOutputBinding, GetSecret, GetBulkSecret, Merging
  <2> QED
    BY <1>2, <1>3, <1>4, <1>8, <2>1 DEF Message, Plain, Merging
<1>9. CASE a.tool = "invoke_service"
  <2>1. r = InvokeService(a)
    BY <1>9 DEF Sent
  <2>2. Verb(a) \in Verbs
    BY MessageAssumption DEF Verb
  <2> QED
    BY <1>2, <1>3, <1>4, <1>9, <2>1, <2>2 DEF InvokeService, Message, Plain
<1>10. CASE a.tool \in {"invoke_actor_method", "get_components", "encrypt", "decrypt"}
  <2>1. r = Message(a.tool)
    BY <1>10 DEF Sent, InvokeActorMethod, GetComponents, Encrypt, Decrypt
  <2> QED
    BY <1>2, <1>3, <1>4, <1>10, <2>1 DEF Message, Plain, Annotated, Merging
<1>11. CASE a.tool = "converse_with_llm"
  <2>1. r = Converse(c, a)
    BY <1>11 DEF Sent
  <2>2. Temperature(a) \in Temperatures \cup {NoTemperature, 7}
    BY DEF Temperature
  <2>3. ContextID(c, a) \in Context \cup Call
    BY DEF ContextID
  <2>4. r = [tool |-> a.tool, metadata |-> Nothing, verb |-> NoVerb,
             temperature |-> Temperature(a), context |-> ContextID(c, a)]
    BY <1>11, <2>1 DEF Converse, Message, Plain
  <2> QED
    BY <1>2, <1>11, <2>2, <2>3, <2>4 DEF Annotated, Merging
<1> QED
  BY <1>1, <1>6, <1>7, <1>8, <1>9, <1>10, <1>11
     DEF AllTools, Annotated, Merging, Crypto

\* A context ID is the caller's, or new and the call's own.
LEMMA ContextIsOwn ==
  ASSUME NEW c \in Call, NEW a \in Arguments
  PROVE  /\ ContextID(c, a) \in Context \cup Call
         /\ ContextID(c, a) \in Call => a.context = NoContext /\ ContextID(c, a) = c
<1> USE ArgumentsShape, MessageAssumption
<1>1. CASE a.context = NoContext
  BY <1>1 DEF ContextID
<1>2. CASE a.context \in Context
  BY <1>2 DEF ContextID
<1> QED
  BY <1>1, <1>2

\* A result o that tells the truth about an answer: success, or failure with,
\* but for publish_event, the flag.
Truthful(tool, what, o) ==
  /\ o \in [isError : BOOLEAN, says : {"nothing", "success", "failure"}]
  /\ o.says \in {"success", "failure"}
  /\ o.says = "success" =>
       /\ what # "error"
       /\ what = "broken" => tool \notin Crypto \cup {"converse_with_llm"}
  /\ o.says = "failure" => o.isError = TRUE \/ tool = "publish_event"

LEMMA OutcomeIsTruthful ==
  ASSUME NEW tool, NEW what \in Answers
  PROVE  Truthful(tool, what, Outcome(tool, what))
<1> DEFINE o == Outcome(tool, what)
<1> SUFFICES Truthful(tool, what, o)
  OBVIOUS
<1> USE DEF Truthful
<1> DEFINE Type == [isError : BOOLEAN, says : {"nothing", "success", "failure"}]
           Quiet == [isError |-> FALSE, says |-> "failure"]
<1>1. /\ Success \in Type /\ Success.says = "success"
      /\ Failure \in Type /\ Failure.says = "failure" /\ Failure.isError = TRUE
      /\ Quiet \in Type /\ Quiet.says = "failure"
  BY DEF Success, Failure
<1>2. CASE tool = "publish_event"
  <2>1. o = IF what = "error" THEN Quiet ELSE Success
    BY <1>2 DEF Outcome, PublishOutcome, Crypto
  <2> HIDE DEF Type, Quiet
  <2>2. tool \notin Crypto \cup {"converse_with_llm"}
    BY <1>2 DEF Crypto
  <2>3. CASE what = "error"
    BY <1>1, <1>2, <2>1, <2>3 DEF Type
  <2>4. CASE what # "error"
    BY <1>1, <2>1, <2>2, <2>4 DEF Type
  <2> QED
    BY <2>3, <2>4
<1>3. CASE tool \in Crypto \cup {"converse_with_llm"}
  <2>1. o = IF what \in {"error", "broken"} THEN Failure ELSE Success
    BY <1>3 DEF Outcome, StreamOutcome, ConverseOutcome, Crypto
  <2> HIDE DEF Type, Quiet
  <2>2. CASE what \in {"error", "broken"}
    BY <1>1, <2>1, <2>2 DEF Type
  <2>3. CASE what \notin {"error", "broken"}
    BY <1>1, <2>1, <2>3 DEF Type
  <2> QED
    BY <2>2, <2>3
<1>4. CASE tool \notin Crypto \cup {"publish_event", "converse_with_llm"}
  <2>1. o = IF what = "error" THEN Failure ELSE Success
    BY <1>4 DEF Outcome, PlainOutcome
  <2> HIDE DEF Type, Quiet
  <2>2. CASE what = "error"
    BY <1>1, <2>1, <2>2 DEF Type
  <2>3. CASE what # "error"
    BY <1>1, <1>4, <2>1, <2>3 DEF Type
  <2> QED
    BY <2>2, <2>3
<1> QED
  BY <1>2, <1>3, <1>4

-----------------------------------------------------------------------------
(* The invariant.                                                          *)

LEMMA InitInv == Init => MInv
<1> SUFFICES ASSUME Init PROVE MInv
  OBVIOUS
<1> USE DEF Init
<1>1. Plain \in [tool : Tools \cup {"none"}, metadata : Metadata,
                 verb : Verbs \cup {NoVerb},
                 temperature : Temperatures \cup {NoTemperature, 7},
                 context : Context \cup Call \cup {NoContext}]
  BY GivenIsMetadata DEF Plain
<1>2. TypeOK
  <2>1. NoResult \in [isError : BOOLEAN, says : {"nothing", "success", "failure"}]
    BY DEF NoResult
  <2>2. sessions \in [Context \cup Call -> Seq(Call)]
    OBVIOUS
  <2> QED
    BY <1>1, <2>1, <2>2 DEF TypeOK
<1>3. Requested /\ Answered
  BY DEF Requested, Answered
<1>4. Spoken /\ Alone
  BY DEF Spoken, Alone
<1> QED
  BY <1>2, <1>3, <1>4 DEF MInv

LEMMA InvokeInv ==
  ASSUME MInv, NEW c \in Call, NEW a \in Arguments, Invoke(c, a)
  PROVE  MInv'
<1> USE DEF MInv
<1> PICK injected \in {{}, {TraceField}} :
      request' = [request EXCEPT ![c] = Sent(c, a, injected)]
  BY DEF Invoke
<1>1. pc[c] = "idle" /\ pc' = [pc EXCEPT ![c] = "sent"] /\ args' = [args EXCEPT ![c] = a]
  BY DEF Invoke
<1>2. UNCHANGED <<answer, result, delivered, sessions>>
  BY DEF Invoke
<1>3. TypeOK'
  <2>1. Sent(c, a, injected) \in
          [tool : Tools \cup {"none"}, metadata : Metadata, verb : Verbs \cup {NoVerb},
           temperature : Temperatures \cup {NoTemperature, 7},
           context : Context \cup Call \cup {NoContext}]
    BY SentIsFaithful DEF Faithful
  <2> QED
    BY <1>1, <1>2, <2>1 DEF TypeOK
<1>4. Requested'
  <2> SUFFICES ASSUME NEW d \in Call, pc'[d] # "idle"
               PROVE  /\ args'[d] \in Arguments
                      /\ \E i \in {{}, {TraceField}} :
                           request'[d] = Sent(d, args'[d], i)
    BY DEF Requested
  <2>1. CASE d = c
    <3>1. args'[d] = a /\ request'[d] = Sent(d, a, injected)
      BY <1>1, <2>1 DEF TypeOK
    <3> QED
      BY <3>1
  <2>2. CASE d # c
    <3>1. pc'[d] = pc[d] /\ args'[d] = args[d] /\ request'[d] = request[d]
      BY <1>1, <2>2 DEF TypeOK
    <3> QED
      BY <3>1 DEF Requested
  <2> QED
    BY <2>1, <2>2
<1>5. Answered'
  BY <1>1, <1>2 DEF Answered, TypeOK
<1>6. Spoken' /\ Alone'
  <2>1. \A d \in Call : pc[d] \in {"answered", "done"} =>
          d # c /\ pc'[d] = pc[d] /\ request'[d] = request[d]
    BY <1>1 DEF TypeOK
  <2>2. \A d \in Call : pc'[d] \in {"idle", "sent"} => pc[d] \in {"idle", "sent"}
    BY <1>1 DEF TypeOK
  <2> QED
    BY <1>2, <2>1, <2>2 DEF Spoken, Alone
<1> QED
  BY <1>3, <1>4, <1>5, <1>6

\* What is under way was sent by the handler of its tool.
LEMMA RequestedShape ==
  ASSUME Requested, NEW c \in Call, pc[c] # "idle"
  PROVE  args[c] \in Arguments /\ Faithful(c, args[c], request[c])
<1>1. PICK i \in {{}, {TraceField}} : request[c] = Sent(c, args[c], i)
  BY DEF Requested
<1>2. args[c] \in Arguments
  BY DEF Requested
<1> QED
  BY <1>1, <1>2, SentIsFaithful

\* What an answer to a call leaves alone, and what it sets.
LEMMA RepliesInv ==
  ASSUME MInv, NEW c \in Call, NEW what \in Answers, Replies(c, what),
         what = "broken" => request[c].tool \in Crypto \cup {"converse_with_llm"},
         \/ delivered' = [delivered EXCEPT ![c] = @ + 1]
         \/ delivered' = delivered /\ what = "error",
         UNCHANGED <<args, request, result>>
  PROVE  /\ pc' \in [Call -> {"idle", "sent", "answered", "done"}]
         /\ answer' \in [Call -> Answers \cup {NoAnswer}]
         /\ delivered' \in [Call -> Nat]
         /\ Requested' /\ Answered'
<1> USE DEF MInv
<1>1. pc[c] = "sent" /\ pc' = [pc EXCEPT ![c] = "answered"]
      /\ answer' = [answer EXCEPT ![c] = what]
  BY DEF Replies
<1>2. delivered[c] = 0
  BY <1>1 DEF Answered
<1>3. /\ pc' \in [Call -> {"idle", "sent", "answered", "done"}]
      /\ answer' \in [Call -> Answers \cup {NoAnswer}]
  BY <1>1 DEF TypeOK
<1>4. delivered' \in [Call -> Nat]
  <2>1. delivered[c] + 1 \in Nat
    BY <1>2
  <2> QED
    BY <2>1 DEF TypeOK
<1>5. Requested'
  BY <1>1 DEF Requested, TypeOK
<1>6. request[c].tool = args[c].tool
  BY <1>1, RequestedShape DEF Faithful
<1>7. Answered'
  <2> SUFFICES ASSUME NEW d \in Call
        PROVE  /\ pc'[d] \in {"idle", "sent"} => delivered'[d] = 0
               /\ pc'[d] \in {"answered", "done"} =>
                    /\ answer'[d] \in Answers
                    /\ answer'[d] # "error" => delivered'[d] = 1
                    /\ answer'[d] = "broken" =>
                         args'[d].tool \in Crypto \cup {"converse_with_llm"}
               /\ pc'[d] = "done" => result'[d] = Outcome(args'[d].tool, answer'[d])
    BY DEF Answered
  <2>1. CASE d = c
    <3>1. pc'[d] = "answered" /\ answer'[d] = what
      BY <1>1, <2>1 DEF TypeOK
    <3>2. what # "error" => delivered'[d] = 1
      BY <1>2, <2>1 DEF TypeOK
    <3> QED
      BY <1>6, <2>1, <3>1, <3>2
  <2>2. CASE d # c
    <3>1. /\ pc'[d] = pc[d] /\ answer'[d] = answer[d] /\ delivered'[d] = delivered[d]
          /\ args'[d] = args[d] /\ result'[d] = result[d]
      BY <1>1, <2>2 DEF TypeOK
    <3> QED
      BY <3>1 DEF Answered
  <2> QED
    BY <2>1, <2>2
<1> QED
  BY <1>3, <1>4, <1>5, <1>7

\* A message that is delivered may be spoken in a conversation: in the one
\* that it names, or in a new one that nobody else can name.
LEMMA DeliverInv ==
  ASSUME MInv, NEW c \in Call, Deliver(c)
  PROVE  MInv'
<1> USE DEF MInv
<1> PICK what \in Answers :
      /\ what = "broken" => request[c].tool \in Crypto \cup {"converse_with_llm"}
      /\ Replies(c, what)
  BY DEF Deliver
<1>1. /\ pc[c] = "sent" /\ pc' = [pc EXCEPT ![c] = "answered"]
      /\ UNCHANGED <<args, request, result>>
  BY DEF Deliver, Replies
<1>2. /\ pc' \in [Call -> {"idle", "sent", "answered", "done"}]
      /\ answer' \in [Call -> Answers \cup {NoAnswer}]
      /\ delivered' \in [Call -> Nat]
      /\ Requested' /\ Answered'
  BY RepliesInv DEF Deliver
<1>3. \A d \in Call : /\ pc[d] \in {"answered", "done"} => pc'[d] \in {"answered", "done"}
                      /\ pc'[d] \in {"idle", "sent"} => pc[d] \in {"idle", "sent"}
  BY <1>1 DEF TypeOK
<1>4. sessions' \in [Context \cup Call -> Seq(Call)] /\ Spoken' /\ Alone'
  <2>1. CASE UNCHANGED sessions
    BY <1>1, <1>3, <2>1 DEF TypeOK, Spoken, Alone
  <2>2. CASE /\ request[c].tool = "converse_with_llm"
             /\ sessions' = [sessions EXCEPT ![request[c].context] = Append(@, c)]
    <3> DEFINE y == request[c].context
    <3>1. args[c] \in Arguments /\ y = ContextID(c, args[c])
      BY <1>1, <2>2, RequestedShape DEF Faithful
    <3>5. y \in Context \cup Call /\ (y \in Call => y = c)
      BY <3>1, ContextIsOwn
    <3> HIDE DEF y
    <3>6. sessions' = [sessions EXCEPT ![y] = Append(@, c)]
      BY <2>2 DEF y
    <3>7. sessions[y] \in Seq(Call)
      BY <3>5 DEF TypeOK
    <3>8. /\ sessions'[y] = Append(sessions[y], c)
          /\ \A x \in (Context \cup Call) \ {y} : sessions'[x] = sessions[x]
      BY <3>5, <3>6 DEF TypeOK
    <3>9. sessions' \in [Context \cup Call -> Seq(Call)]
      BY <3>5, <3>6, <3>7 DEF TypeOK
    <3>10. ASSUME NEW x \in Context \cup Call, NEW n \in DOMAIN sessions'[x]
           PROVE  /\ sessions'[x][n] \in Call
                  /\ pc'[sessions'[x][n]] \in {"answered", "done"}
                  /\ request'[sessions'[x][n]].tool = "converse_with_llm"
                  /\ request'[sessions'[x][n]].context = x
      <4>1. CASE n \in DOMAIN sessions[x] /\ sessions'[x][n] = sessions[x][n]
        BY <1>1, <1>3, <4>1 DEF Spoken
      <4>2. CASE x = y /\ sessions'[x][n] = c
        <5>1. pc'[c] = "answered"
          BY <1>1 DEF TypeOK
        <5> QED
          BY <1>1, <2>2, <4>2, <5>1 DEF y
      <4>3. CASE x # y
        BY <3>8, <4>1, <4>3
      <4>4. CASE x = y
        <5>1. n \in 1 .. Len(sessions[y]) + 1
          BY <3>7, <3>8, <4>4
        <5>2. CASE n = Len(sessions[y]) + 1
          BY <3>7, <3>8, <4>2, <4>4, <5>2
        <5>3. CASE n \in 1 .. Len(sessions[y])
          BY <3>7, <3>8, <4>1, <4>4, <5>3
        <5> QED
          BY <3>7, <5>1, <5>2, <5>3
      <4> QED
        BY <4>3, <4>4
    <3>11. ASSUME NEW x \in Call
           PROVE  /\ Len(sessions'[x]) <= 1
                  /\ pc'[x] \in {"idle", "sent"} => sessions'[x] = <<>>
      <4>1. CASE x # y
        <5>1. sessions'[x] = sessions[x]
          BY <3>8, <4>1
        <5> QED
          BY <1>3, <5>1 DEF Alone
      <4>2. CASE x = y
        <5>1. x = c
          BY <3>5, <4>2
        <5>2. sessions[x] = <<>>
          BY <1>1, <5>1 DEF Alone
        <5>3. sessions'[x] = <<c>> /\ pc'[x] = "answered"
          BY <1>1, <3>8, <4>2, <5>1, <5>2 DEF TypeOK
        <5> QED
          BY <5>3
      <4> QED
        BY <4>1, <4>2
    <3> QED
      BY <3>9, <3>10, <3>11 DEF Spoken, Alone
  <2> QED
    BY <2>1, <2>2 DEF Deliver
<1> QED
  BY <1>1, <1>2, <1>4 DEF TypeOK

LEMMA LoseInv ==
  ASSUME MInv, NEW c \in Call, Lose(c)
  PROVE  MInv'
<1> USE DEF MInv
<1>1. /\ pc' \in [Call -> {"idle", "sent", "answered", "done"}]
      /\ answer' \in [Call -> Answers \cup {NoAnswer}]
      /\ delivered' \in [Call -> Nat]
      /\ Requested' /\ Answered'
  BY RepliesInv DEF Lose, Answers
<1>2. /\ pc[c] = "sent" /\ pc' = [pc EXCEPT ![c] = "answered"]
      /\ UNCHANGED <<args, request, result, sessions>>
  BY DEF Lose, Replies
<1>3. \A d \in Call : /\ pc[d] \in {"answered", "done"} => pc'[d] \in {"answered", "done"}
                      /\ pc'[d] \in {"idle", "sent"} => pc[d] \in {"idle", "sent"}
  BY <1>2 DEF TypeOK
<1>4. Spoken' /\ Alone'
  BY <1>2, <1>3 DEF Spoken, Alone
<1> QED
  BY <1>1, <1>2, <1>4 DEF TypeOK

LEMMA ReturnInv ==
  ASSUME MInv, NEW c \in Call, Return(c)
  PROVE  MInv'
<1> USE DEF MInv
<1>1. /\ pc[c] = "answered" /\ pc' = [pc EXCEPT ![c] = "done"]
      /\ result' = [result EXCEPT ![c] = Outcome(args[c].tool, answer[c])]
      /\ UNCHANGED <<args, request, answer, delivered, sessions>>
  BY DEF Return
<1>2. TypeOK'
  <2>1. answer[c] \in Answers
    BY <1>1 DEF Answered
  <2>2. Outcome(args[c].tool, answer[c]) \in
          [isError : BOOLEAN, says : {"nothing", "success", "failure"}]
    BY <2>1, OutcomeIsTruthful DEF Truthful
  <2> QED
    BY <1>1, <2>2 DEF TypeOK
<1>3. Requested'
  BY <1>1 DEF Requested, TypeOK
<1>4. Answered'
  BY <1>1 DEF Answered, TypeOK
<1>5. Spoken' /\ Alone'
  BY <1>1 DEF Spoken, Alone, TypeOK
<1> QED
  BY <1>2, <1>3, <1>4, <1>5

LEMMA StepInv == MInv /\ [Next]_vars => MInv'
<1> SUFFICES ASSUME MInv, [Next]_vars PROVE MInv'
  OBVIOUS
<1>1. CASE \E c \in Call, a \in Arguments : Invoke(c, a)
  BY <1>1, InvokeInv
<1>2. CASE \E c \in Call : Deliver(c)
  BY <1>2, DeliverInv
<1>3. CASE \E c \in Call : Lose(c)
  BY <1>3, LoseInv
<1>4. CASE \E c \in Call : Return(c)
  BY <1>4, ReturnInv
<1>5. CASE UNCHANGED vars
  <2>1. TypeOK'
    BY <1>5 DEF vars, MInv, TypeOK
  <2>2. Requested'
    BY <1>5 DEF vars, MInv, Requested
  <2>3. Answered'
    BY <1>5 DEF vars, MInv, Answered
  <2>4. Spoken' /\ Alone'
    BY <1>5 DEF vars, MInv, Spoken, Alone
  <2> QED
    BY <2>1, <2>2, <2>3, <2>4 DEF MInv
<1> QED
  BY <1>1, <1>2, <1>3, <1>4, <1>5 DEF Next, Quiesce

-----------------------------------------------------------------------------
(* The theorems.                                                           *)

\* The invariant holds throughout.
THEOREM Invariance == Spec => []MInv
  BY InitInv, StepInv, PTL DEF Spec

\* Every variable has its type, in every state of the tools.
THEOREM TypeCorrect == Spec => []TypeOK
<1>1. MInv => TypeOK
  BY DEF MInv
<1> QED
  BY <1>1, Invariance, PTL

\* Of the tools that offer it, none loses a caller's metadata on its way to the
\* component, but for keys of the propagator.
THEOREM MetadataArrives == Spec => []MetadataKept
<1>1. MInv => MetadataKept
  <2> SUFFICES ASSUME MInv, NEW c \in Call,
                      args[c].tool \in Annotated \ {"invoke_service"}, delivered[c] > 0,
                      NEW f \in DOMAIN args[c].metadata
               PROVE  /\ f \in DOMAIN request[c].metadata
                      /\ request[c].metadata[f] = "caller" \/ f = TraceField
    BY DEF MetadataKept
  <2>1. pc[c] # "idle"
    BY DEF MInv, Answered
  <2> QED
    BY <2>1, RequestedShape DEF MInv, Faithful
<1> QED
  BY <1>1, Invariance, PTL

\* Success is only told of a message that arrived once and was answered whole,
\* and every failure is told and, but for publish_event, flagged.
THEOREM SuccessIsTold == Spec => []SuccessIsTrue
<1>1. MInv => SuccessIsTrue
  <2> SUFFICES ASSUME MInv, NEW c \in Call, pc[c] = "done"
               PROVE  /\ result[c].says = "success" => delivered[c] = 1 /\ answer[c] = "ok"
                      /\ result[c].says # "success" =>
                           /\ result[c].says = "failure"
                           /\ result[c].isError \/ args[c].tool = "publish_event"
    BY DEF SuccessIsTrue
  <2>1. /\ answer[c] \in Answers
        /\ answer[c] # "error" => delivered[c] = 1
        /\ answer[c] = "broken" => args[c].tool \in Crypto \cup {"converse_with_llm"}
        /\ result[c] = Outcome(args[c].tool, answer[c])
    BY DEF MInv, Answered
  <2>2. Truthful(args[c].tool, answer[c], result[c])
    BY <2>1, OutcomeIsTruthful
  <2> QED
    BY <2>1, <2>2 DEF Answers, Truthful
<1> QED
  BY <1>1, Invariance, PTL

LEMMA OneAtMost ==
  ASSUME NEW S, NEW s \in Seq(S), NEW n \in DOMAIN s, Len(s) <= 1
  PROVE  Len(s) = 1
<1>1. Len(s) \in Nat /\ DOMAIN s = 1 .. Len(s)
  OBVIOUS
<1>2. n \in 1 .. Len(s)
  BY <1>1
<1> QED
  BY <1>1, <1>2

\* Calls that do not name a conversation each get one of their own.
THEOREM ConversationsApart == Spec => []SessionsAreSeparate
<1>1. MInv => SessionsAreSeparate
  <2> SUFFICES ASSUME MInv, NEW x \in Context \cup Call, NEW n \in DOMAIN sessions[x]
               PROVE  LET c == sessions[x][n] IN
                      \/ args[c].context = x
                      \/ args[c].context = NoContext /\ Len(sessions[x]) = 1
    BY DEF SessionsAreSeparate
  <2> DEFINE c == sessions[x][n]
  <2>1. /\ c \in Call /\ pc[c] # "idle"
        /\ request[c].tool = "converse_with_llm" /\ request[c].context = x
    BY DEF MInv, Spoken
  <2> HIDE DEF c
  <2>5. x = ContextID(c, args[c])
    BY <2>1, RequestedShape DEF MInv, Faithful
  <2>6. CASE args[c].context # NoContext
    BY <2>5, <2>6 DEF ContextID, c
  <2>7. CASE args[c].context = NoContext
    <3>1. x = c /\ x \in Call
      BY <2>1, <2>5, <2>7 DEF ContextID
    <3>2. Len(sessions[x]) <= 1
      BY <3>1 DEF MInv, Alone
    <3>3. sessions[x] \in Seq(Call)
      BY <3>1 DEF MInv, TypeOK
    <3>4. Len(sessions[x]) = 1
      BY <3>2, <3>3, OneAtMost
    <3> QED
      BY <2>7, <3>4 DEF c
  <2> QED
    BY <2>6, <2>7
<1> QED
  BY <1>1, Invariance, PTL
=============================================================================
