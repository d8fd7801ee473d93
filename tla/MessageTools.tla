---------------------------- MODULE MessageTools ----------------------------
(***************************************************************************)
(* The tools that send one message through the sidecar and report on it:   *)
(* publish_event and publish_event_with_metadata (pkg/pubsub/tools.go),    *)
(* invoke_output_binding (pkg/bindings), invoke_service (pkg/invoke),      *)
(* invoke_actor_method (pkg/actors), get_secret and get_bulk_secrets       *)
(* (pkg/secrets), encrypt and decrypt (pkg/crypto), get_components         *)
(* (pkg/metadata) and converse_with_llm (pkg/conversation).  Each builds   *)
(* its request in its own way: what it passes on of the caller's metadata, *)
(* of the trace context, of a verb, a temperature or a conversation; and   *)
(* each reads the answer in its own.                                       *)
(*                                                                         *)
(* Calls run in goroutines of their own.  What they share is on the other  *)
(* side of the sidecar, which is external: the conversations that an LLM   *)
(* component keeps by context ID.  A message or its answer may be lost.    *)
(***************************************************************************)
EXTENDS Naturals, Sequences

CONSTANTS
  Call,          \* calls of the tools
  Tools,         \* the tools that are called
  Field,         \* the keys of metadata that callers give
  TraceField,    \* traceparent, which the propagator sets
  Context,       \* the context IDs that callers name
  NoContext,     \* an omitted context ID
  Temperatures,  \* the temperatures that callers ask for, in tenths
  NoTemperature, \* an omitted temperature
  Verbs,         \* the HTTP verbs asked for
  NoVerb         \* an omitted verb

ASSUME MessageAssumption ==
  /\ NoContext \notin Context /\ Context \cap Call = {}
  /\ Temperatures \subseteq Nat /\ NoTemperature \notin Nat
  /\ NoVerb \notin Verbs /\ "POST" \in Verbs

Merging   == {"invoke_output_binding", "get_secret", "get_bulk_secrets"}
Crypto    == {"encrypt", "decrypt"}
\* Those whose descriptions offer the caller to send metadata along.
Annotated == Merging \cup {"publish_event_with_metadata", "invoke_service"}
AllTools  == Annotated \cup Crypto
               \cup {"publish_event", "invoke_actor_method", "get_components",
                     "converse_with_llm"}

ASSUME ToolsAssumption == Tools \subseteq AllTools

\* Metadata: the keys that are set, each by the caller or by the propagator.
Metadata == UNION {[F -> {"caller", "propagator"}] :
                     F \in SUBSET (Field \cup {TraceField})}
Given    == UNION {[F -> {"caller"}] : F \in SUBSET (Field \cup {TraceField})}

Nothing == [f \in {} |-> "caller"]
Plain   == [tool |-> "none", metadata |-> Nothing, verb |-> NoVerb,
            temperature |-> NoTemperature, context |-> NoContext]

\* The arguments of a call; the payload is the call's own.
Arguments ==
  {a \in [tool : Tools, metadata : Given, verb : Verbs \cup {NoVerb},
          temperature : Temperatures \cup {NoTemperature},
          context : Context \cup {NoContext}] :
    /\ a.metadata # Nothing => a.tool \in Annotated
    /\ a.verb # NoVerb => a.tool = "invoke_service"
    /\ a.temperature # NoTemperature \/ a.context # NoContext =>
         a.tool = "converse_with_llm"}

VARIABLES
  pc,        \* "idle", "sent", "answered" or "done"
  args,      \* the arguments of each call
  request,   \* the request that a call made of them
  answer,    \* what the client library returned
  result,    \* whether IsError is set, and what the text says
  delivered, \* how often the request of a call reached its component
  sessions   \* who spoke in each conversation of the LLM, in order

vars == <<pc, args, request, answer, result, delivered, sessions>>

\* "broken": a stream that breaks off, an LLM without outputs or choices.
Answers  == {"error", "broken", "ok"}
NoAnswer == "none"
NoResult == [isError |-> FALSE, says |-> "nothing"]

Init ==
  /\ pc = [c \in Call |-> "idle"]
  /\ args = [c \in Call |-> Plain]
  /\ request = [c \in Call |-> Plain]
  /\ answer = [c \in Call |-> NoAnswer]
  /\ result = [c \in Call |-> NoResult]
  /\ delivered = [c \in Call |-> 0]
  /\ sessions = [x \in Context \cup Call |-> <<>>]

-----------------------------------------------------------------------------
(* The handlers.                                                           *)

\* Mistake: the map that the propagator fills starts without the caller's.
MergedAfresh(given, injected) == [f \in injected |-> "propagator"]

\* The caller's pairs are copied, then the propagator sets its own.
Merged(given, injected) ==
  [f \in DOMAIN given \cup injected |->
    IF f \in injected THEN "propagator" ELSE given[f]]

\* What each handler sends: the tool, and what else goes along.
Message(tool) == [Plain EXCEPT !.tool = tool]

PublishEvent(a, injected) ==
  [Message("publish_event") EXCEPT !.metadata = Merged(Nothing, injected)]

\* The caller's map as it is; the trace context is not injected.
PublishEventWithMetadata(a) ==
  [Message("publish_event_with_metadata") EXCEPT !.metadata = a.metadata]

InvokeOutputBinding(a, injected) ==
  [Message("invoke_output_binding") EXCEPT !.metadata = Merged(a.metadata, injected)]

GetSecret(a, injected) ==
  [Message("get_secret") EXCEPT !.metadata = Merged(a.metadata, injected)]

GetBulkSecret(a, injected) ==
  [Message("get_bulk_secrets") EXCEPT !.metadata = Merged(a.metadata, injected)]

Verb(a) == IF a.verb = NoVerb THEN "POST" ELSE a.verb

\* It merges the metadata too, but does not pass the map on.
InvokeService(a) == [Message("invoke_service") EXCEPT !.verb = Verb(a)]

InvokeActorMethod(a) == Message("invoke_actor_method")

GetComponents(a) == Message("get_components")

Encrypt(a) == Message("encrypt")
Decrypt(a) == Message("decrypt")

\* An omitted temperature is decoded as zero, and zero stands for 0.7.
Temperature(a) == IF a.temperature \in {NoTemperature, 0} THEN 7 ELSE a.temperature

\* Mistake: an omitted context ID is the default session's.
ContextIDDefault(c, a) ==
  IF a.context = NoContext THEN CHOOSE x \in Context : TRUE ELSE a.context

\* A new UUID, named after the call that draws it.  The fallback to
\* "default-session-id" is not modelled: crypto/rand does not fail in the Go
\* release of go.mod.
ContextID(c, a) == IF a.context = NoContext THEN c ELSE a.context

Converse(c, a) ==
  [Message("converse_with_llm") EXCEPT
     !.temperature = Temperature(a), !.context = ContextID(c, a)]

Sent(c, a, injected) ==
  CASE a.tool = "publish_event"               -> PublishEvent(a, injected)
    [] a.tool = "publish_event_with_metadata" -> PublishEventWithMetadata(a)
    [] a.tool = "invoke_output_binding"       -> InvokeOutputBinding(a, injected)
    [] a.tool = "get_secret"                  -> GetSecret(a, injected)
    [] a.tool = "get_bulk_secrets"            -> GetBulkSecret(a, injected)
    [] a.tool = "invoke_service"              -> InvokeService(a)
    [] a.tool = "invoke_actor_method"         -> InvokeActorMethod(a)
    [] a.tool = "get_components"              -> GetComponents(a)
    [] a.tool = "encrypt"                     -> Encrypt(a)
    [] a.tool = "decrypt"                     -> Decrypt(a)
    [] a.tool = "converse_with_llm"           -> Converse(c, a)

\* The propagator injects a trace context when the call is part of a trace.
Invoke(c, a) ==
  /\ pc[c] = "idle"
  /\ pc' = [pc EXCEPT ![c] = "sent"]
  /\ args' = [args EXCEPT ![c] = a]
  /\ \E injected \in {{}, {TraceField}} :
        request' = [request EXCEPT ![c] = Sent(c, a, injected)]
  /\ UNCHANGED <<answer, result, delivered, sessions>>

Success == [isError |-> FALSE, says |-> "success"]
Failure == [isError |-> TRUE, says |-> "failure"]

\* The handlers that read no more of an answer than whether it is an error.
PlainOutcome(what) == IF what = "error" THEN Failure ELSE Success

\* publish_event says that it failed, but does not set IsError.
PublishOutcome(what) ==
  IF what = "error" THEN [isError |-> FALSE, says |-> "failure"] ELSE Success

\* Mistake: what was read of the stream before it broke is taken for all of it.
StreamOutcomeUnread(what) == PlainOutcome(what)

\* encrypt and decrypt read the stream to its end.
StreamOutcome(what) == IF what \in {"error", "broken"} THEN Failure ELSE Success

\* converse_with_llm wants an output, and a choice in the last one.
ConverseOutcome(what) == IF what \in {"error", "broken"} THEN Failure ELSE Success

Outcome(tool, what) ==
  CASE tool = "publish_event"     -> PublishOutcome(what)
    [] tool \in Crypto            -> StreamOutcome(what)
    [] tool = "converse_with_llm" -> ConverseOutcome(what)
    [] OTHER                      -> PlainOutcome(what)

Return(c) ==
  /\ pc[c] = "answered"
  /\ pc' = [pc EXCEPT ![c] = "done"]
  /\ result' = [result EXCEPT ![c] = Outcome(args[c].tool, answer[c])]
  /\ UNCHANGED <<args, request, answer, delivered, sessions>>

-----------------------------------------------------------------------------
(* The sidecar and the components (external).                              *)

Replies(c, what) ==
  /\ pc[c] = "sent"
  /\ pc' = [pc EXCEPT ![c] = "answered"]
  /\ answer' = [answer EXCEPT ![c] = what]

\* The message arrives; its answer may not, or not whole.  An LLM goes on with
\* the conversation that the message names.
Deliver(c) ==
  /\ \E what \in Answers :
        /\ what = "broken" =>
             request[c].tool \in Crypto \cup {"converse_with_llm"}
        /\ Replies(c, what)
  /\ delivered' = [delivered EXCEPT ![c] = @ + 1]
  /\ \/ /\ request[c].tool = "converse_with_llm"
        /\ sessions' = [sessions EXCEPT ![request[c].context] = Append(@, c)]
     \/ request[c].tool # "converse_with_llm" /\ UNCHANGED sessions
  /\ UNCHANGED <<args, request, result>>

\* The sidecar refuses, or the message is lost.
Lose(c) ==
  /\ Replies(c, "error")
  /\ UNCHANGED <<args, request, result, delivered, sessions>>

Quiesce == (\A c \in Call : pc[c] = "done") /\ UNCHANGED vars

-----------------------------------------------------------------------------

Next ==
  \/ \E c \in Call, a \in Arguments : Invoke(c, a)
  \/ \E c \in Call : Deliver(c) \/ Lose(c) \/ Return(c)
  \/ Quiesce

Spec == Init /\ [][Next]_vars

-----------------------------------------------------------------------------
(* Properties.                                                             *)

\* Every variable has its type.
TypeOK ==
  /\ pc \in [Call -> {"idle", "sent", "answered", "done"}]
  /\ args \in [Call -> Arguments \cup {Plain}]
  /\ request \in [Call ->
       [tool : Tools \cup {"none"}, metadata : Metadata, verb : Verbs \cup {NoVerb},
        temperature : Temperatures \cup {NoTemperature, 7},
        context : Context \cup Call \cup {NoContext}]]
  /\ answer \in [Call -> Answers \cup {NoAnswer}]
  /\ result \in [Call -> [isError : BOOLEAN,
                          says : {"nothing", "success", "failure"}]]
  /\ delivered \in [Call -> Nat]
  /\ sessions \in [Context \cup Call -> Seq(Call)]

\* What is under way was made by the handler of its tool, of its arguments.
Requested ==
  \A c \in Call : pc[c] # "idle" =>
    /\ args[c] \in Arguments
    /\ \E injected \in {{}, {TraceField}} : request[c] = Sent(c, args[c], injected)

\* A call is delivered once at most, and what answers it fits its tool.
Answered ==
  \A c \in Call :
    /\ pc[c] \in {"idle", "sent"} => delivered[c] = 0
    /\ pc[c] \in {"answered", "done"} =>
         /\ answer[c] \in Answers
         /\ answer[c] # "error" => delivered[c] = 1
         /\ answer[c] = "broken" => args[c].tool \in Crypto \cup {"converse_with_llm"}
    /\ pc[c] = "done" => result[c] = Outcome(args[c].tool, answer[c])

\* Those who spoke in a conversation named it in their requests.
Spoken ==
  \A x \in Context \cup Call : \A n \in DOMAIN sessions[x] :
    /\ sessions[x][n] \in Call
    /\ pc[sessions[x][n]] \in {"answered", "done"}
    /\ request[sessions[x][n]].tool = "converse_with_llm"
    /\ request[sessions[x][n]].context = x

\* The conversation that a call has begun is the call's alone.
Alone ==
  \A c \in Call : /\ Len(sessions[c]) <= 1
                  /\ pc[c] \in {"idle", "sent"} => sessions[c] = <<>>

\* Inductive.
MInv == TypeOK /\ Requested /\ Answered /\ Spoken /\ Alone

\* The caller's metadata reaches the component, but for the keys that are the
\* propagator's (bindings/tools.go:40-46, "Merge user metadata with baggage").
MetadataKept ==
  \A c \in Call :
    args[c].tool \in Annotated \ {"invoke_service"} /\ delivered[c] > 0 =>
      \A f \in DOMAIN args[c].metadata :
        /\ f \in DOMAIN request[c].metadata
        /\ request[c].metadata[f] = "caller" \/ f = TraceField

\* invoke/tools.go:26, "Optional key-value pairs to send as HTTP headers."
HeadersSent ==
  \A c \in Call : args[c].tool = "invoke_service" /\ delivered[c] > 0 =>
    DOMAIN args[c].metadata \subseteq DOMAIN request[c].metadata

\* A tool says that it succeeded only of a message that was delivered once and
\* answered whole; whatever else happened, it says so in its text, and flags
\* it, unless it is publish_event (pubsub/tools_test.go:63).
SuccessIsTrue ==
  \A c \in Call : pc[c] = "done" =>
    /\ result[c].says = "success" => delivered[c] = 1 /\ answer[c] = "ok"
    /\ result[c].says # "success" =>
         /\ result[c].says = "failure"
         /\ result[c].isError \/ args[c].tool = "publish_event"

\* No conversation is joined by a call that did not name it: calls that omit
\* the context ID do not see each other's (conversation/tools.go:189, "If
\* omitted, a new session is started").
SessionsAreSeparate ==
  \A x \in Context \cup Call : \A n \in DOMAIN sessions[x] :
    LET c == sessions[x][n] IN
    args[c].context = x \/ (args[c].context = NoContext /\ Len(sessions[x]) = 1)
=============================================================================
