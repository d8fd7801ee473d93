----------------------------- MODULE StateTools -----------------------------
(***************************************************************************)
(* The state tools (pkg/state/tool.go): save_state, get_state,             *)
(* get_bulk_state, delete_state and execute_transaction.  Each call turns  *)
(* its arguments into one request of the sidecar and the answer into a     *)
(* result with two faces, the text and the structured value.  Calls run in *)
(* goroutines of their own and share the keys of one state store.          *)
(*                                                                         *)
(* The store is external.  It applies the operations of a request in their *)
(* order and at once; a bulk read takes its keys one by one, some of them  *)
(* in vain.  A request or its answer may be lost, and a request whose call *)
(* has failed may still be applied later.                                  *)
(***************************************************************************)
EXTENDS Naturals, Sequences

CONSTANTS
  Call,      \* calls of the tools
  Key,       \* keys of the store
  Text,      \* values that are not the empty string
  Blank,     \* the empty string
  Absent,    \* what the store holds for a key that has no entry
  MaxItems   \* bound: items of one transaction

\* The labels of Told and Found are no values of the store.
ASSUME StateAssumption ==
  /\ Blank \notin Text /\ Absent \notin Text \cup {Blank}
  /\ {"not_found", "failed", "unread"} \cap (Text \cup {Blank, Absent}) = {}
  /\ MaxItems \in Nat

Reads  == {"get_state", "get_bulk_state"}
Writes == {"save_state", "delete_state", "execute_transaction"}
Value  == Text \cup {Blank}
Stored == Value \cup {Absent}

\* A TransactionItem; the value of one that deletes does not matter.
Item == [key : Key, value : Value, isDelete : {FALSE}]
          \cup [key : Key, value : {Blank}, isDelete : {TRUE}]

\* The arguments of a tool: the keys it reads, or the items it writes.
Arguments ==
  [tool : {"get_state"}, keys : {{k} : k \in Key}, items : {<<>>}]
    \cup
  [tool : {"get_bulk_state"}, keys : SUBSET Key, items : {<<>>}]
    \cup
  [tool : {"save_state"}, keys : {{}},
   items : {<<i>> : i \in {j \in Item : ~j.isDelete}}]
    \cup
  [tool : {"delete_state"}, keys : {{}},
   items : {<<i>> : i \in {j \in Item : j.isDelete}}]
    \cup
  [tool : {"execute_transaction"}, keys : {{}},
   items : UNION {[1 .. n -> Item] : n \in 0 .. MaxItems}]

NoArgs == [tool |-> "none", keys |-> {}, items |-> <<>>]

\* What an answer may tell of a key: its value (the empty string for none), or
\* item.Error; get_state puts the empty value into words.
Told == Value \cup {"not_found", "failed"}
Found == Stored \cup {"unread", "failed"}

NoResult == [status |-> "none", text |-> <<>>, structured |-> <<>>]

VARIABLES
  store,    \* what the store holds for each key
  pc,       \* "idle", "sent", "answered" or "done"
  args,     \* the arguments of each call
  found,    \* what the store read for the call
  answer,   \* "none", "ok" or "error": what the client library returned
  result,   \* the result of the tool
  stray,    \* failed calls whose requests may still be applied
  held,     \* what the keys held while a read was under way
  wrote     \* what each call did to the store, in order

calls == <<args, found, answer, result>>
vars == <<store, pc, calls, stray, held, wrote>>

Init ==
  /\ store \in [Key -> Stored]
  /\ pc = [c \in Call |-> "idle"]
  /\ args = [c \in Call |-> NoArgs]
  /\ found = [c \in Call |-> [k \in Key |-> "unread"]]
  /\ answer = [c \in Call |-> "none"]
  /\ result = [c \in Call |-> NoResult]
  /\ stray = {}
  /\ held = [c \in Call |-> [k \in Key |-> {}]]
  /\ wrote = [c \in Call |-> <<>>]

-----------------------------------------------------------------------------
(* The handlers.                                                           *)

Invoke(c, a) ==
  /\ pc[c] = "idle"
  /\ pc' = [pc EXCEPT ![c] = "sent"]
  /\ args' = [args EXCEPT ![c] = a]
  /\ held' = [held EXCEPT ![c] =
                [k \in Key |-> IF k \in a.keys THEN {store[k]} ELSE {}]]
  /\ UNCHANGED <<store, found, answer, result, stray, wrote>>

\* Mistake: an item without a value deletes its key, as the description of
\* TransactionItem.Value may be read (tool.go:49).
OperationsOfBlanks(items) ==
  [n \in DOMAIN items |->
    [key |-> items[n].key,
     entry |-> IF items[n].value = Blank THEN Absent ELSE items[n].value]]

\* The request of a write: one operation per item, in their order.
Operations(items) ==
  [n \in DOMAIN items |->
    [key |-> items[n].key,
     entry |-> IF items[n].isDelete THEN Absent ELSE items[n].value]]

Operation == [key : Key, entry : Stored]

\* string(item.Value), or item.Error.
Tells(f) == IF f = Absent THEN Blank ELSE f

\* Mistake: an error of the client library is taken for a missing entry.
OutcomeUnchecked(a, what, f) ==
  IF what = "error" /\ a.tool = "get_state"
  THEN [status |-> "success", text |-> [k \in a.keys |-> "not_found"],
        structured |-> <<>>]
  ELSE [status |-> "success", text |-> <<>>,
        structured |-> [k \in a.keys |-> Tells(f[k])]]

\* Mistake: the structured value of get_state is a key and its value always.
OutcomeUniform(a, what, f) ==
  IF what = "error" THEN [NoResult EXCEPT !.status = "error"]
  ELSE [status |-> "success", text |-> [k \in a.keys |-> f[k]],
        structured |-> [k \in a.keys |-> f[k]]]

\* get_state: an empty value is put into words.
GetOutcome(a, f) ==
  IF \A k \in a.keys : Tells(f[k]) = Blank
  THEN [status |-> "success", text |-> [k \in a.keys |-> "not_found"],
        structured |-> <<>>]
  ELSE [status |-> "success", text |-> f, structured |-> f]

\* Mistake: item.Error is not looked at, and a key that failed is told as empty.
GetBulkOutcomeUnchecked(a, f) ==
  [status |-> "success", text |-> <<>>,
   structured |-> [k \in a.keys |-> IF f[k] = "failed" THEN Blank ELSE Tells(f[k])]]

\* get_bulk_state: the text counts the entries.
GetBulkOutcome(a, f) ==
  [status |-> "success", text |-> <<>>, structured |-> [k \in a.keys |-> Tells(f[k])]]

\* The writes: what they answer repeats the arguments.
WriteOutcome(a) == [NoResult EXCEPT !.status = "success"]

Outcome(a, what, f) ==
  IF what = "error" THEN [NoResult EXCEPT !.status = "error"]
  ELSE CASE a.tool = "get_state"      -> GetOutcome(a, f)
         [] a.tool = "get_bulk_state" -> GetBulkOutcome(a, f)
         [] a.tool \in Writes         -> WriteOutcome(a)

Return(c) ==
  /\ pc[c] = "answered"
  /\ pc' = [pc EXCEPT ![c] = "done"]
  /\ result' = [result EXCEPT ![c] =
                  Outcome(args[c], answer[c],
                          [k \in args[c].keys |-> found[c][k]])]
  /\ UNCHANGED <<store, args, found, answer, stray, held, wrote>>

-----------------------------------------------------------------------------
(* The sidecar and the store (external).                                   *)

Replies(c, what) ==
  /\ pc[c] = "sent"
  /\ pc' = [pc EXCEPT ![c] = "answered"]
  /\ answer' = [answer EXCEPT ![c] = what]

\* One key of a read; only a bulk read may miss a key and go on.
Read(c, k) ==
  /\ pc[c] = "sent"
  /\ k \in args[c].keys
  /\ found[c][k] = "unread"
  /\ \E f \in {store[k]} \cup (IF args[c].tool = "get_bulk_state"
                               THEN {"failed"} ELSE {}) :
        found' = [found EXCEPT ![c][k] = f]
  /\ UNCHANGED <<store, pc, args, answer, result, stray, held, wrote>>

AnswerRead(c) ==
  /\ args[c].tool \in Reads
  /\ \A k \in args[c].keys : found[c][k] # "unread"
  /\ Replies(c, "ok")
  /\ UNCHANGED <<store, args, found, result, stray, held, wrote>>

\* What the operations leave of a store: the last one on a key counts.
Applied(ops, s) ==
  [k \in Key |->
    LET on == {n \in DOMAIN ops : ops[n].key = k} IN
    IF on = {} THEN s[k]
    ELSE ops[CHOOSE n \in on : \A m \in on : m <= n].entry]

\* The request of a write takes effect; reads under way may see it.
Apply(c) ==
  /\ store' = Applied(Operations(args[c].items), store)
  /\ wrote' = [wrote EXCEPT ![c] = Append(@, Operations(args[c].items))]
  /\ held' = [d \in Call |->
                [k \in Key |-> IF held[d][k] # {} /\ pc[d] = "sent"
                               THEN held[d][k] \cup {store'[k]}
                               ELSE held[d][k]]]

Write(c) ==
  /\ args[c].tool \in Writes
  /\ \E what \in {"ok", "error"} : Replies(c, what)
  /\ Apply(c)
  /\ UNCHANGED <<args, found, result, stray>>

\* The sidecar refuses, the request is lost, or it is late.
Fail(c) ==
  /\ Replies(c, "error")
  /\ \/ UNCHANGED stray
     \/ args[c].tool \in Writes /\ stray' = stray \cup {c}
  /\ UNCHANGED <<store, args, found, result, held, wrote>>

WriteLate(c) ==
  /\ c \in stray
  /\ stray' = stray \ {c}
  /\ Apply(c)
  /\ UNCHANGED <<pc, calls>>

Quiesce == (\A c \in Call : pc[c] = "done") /\ UNCHANGED vars

-----------------------------------------------------------------------------

Next ==
  \/ \E c \in Call, a \in Arguments : Invoke(c, a)
  \/ \E c \in Call, k \in Key : Read(c, k)
  \/ \E c \in Call :
        AnswerRead(c) \/ Write(c) \/ Fail(c) \/ WriteLate(c) \/ Return(c)
  \/ Quiesce

Spec == Init /\ [][Next]_vars

-----------------------------------------------------------------------------
(* Properties.                                                             *)

\* What a tool may have told of a set of keys.
Telling(S) == UNION {[K -> Told] : K \in SUBSET S}

VarTypes ==
  /\ store \in [Key -> Stored]
  /\ pc \in [Call -> {"idle", "sent", "answered", "done"}]
  /\ args \in [Call -> Arguments \cup {NoArgs}]
  /\ found \in [Call -> [Key -> Found]]
  /\ answer \in [Call -> {"none", "ok", "error"}]
  /\ stray \subseteq Call
  /\ held \in [Call -> [Key -> SUBSET Stored]]
  /\ wrote \in [Call -> Seq(Seq(Operation))]

\* Every variable has its type: no result tells of a key in a form of the
\* store's own (an entry that is absent is told as one that is empty).
TypeOK ==
  /\ VarTypes
  /\ DOMAIN result = Call
  /\ \A c \in Call :
        /\ result[c].status \in {"none", "success", "error"}
        /\ result[c].text \in Telling(args[c].keys)
        /\ result[c].structured \in Telling(args[c].keys)

\* What an answer tells of a key is what the key held at some moment of the
\* call: the value, or, where it tells of none, no entry or an empty one.
\* An error is never told as a missing entry (tool.go:97-121, 139-160).
ToldWasHeld(c, k, told) ==
  CASE told = "failed"              -> args[c].tool = "get_bulk_state"
    [] told \in {"not_found", Blank} -> held[c][k] \cap {Absent, Blank} # {}
    [] OTHER                        -> told \in held[c][k]

ReadsWereTrue ==
  \A c \in Call : result[c].status = "success" /\ args[c].tool \in Reads =>
    /\ \A k \in DOMAIN result[c].text : ToldWasHeld(c, k, result[c].text[k])
    /\ \A k \in DOMAIN result[c].structured :
          ToldWasHeld(c, k, result[c].structured[k])
    /\ args[c].keys \subseteq DOMAIN result[c].text \cup DOMAIN result[c].structured

\* What the caller of a write asked a key to hold: what the last item on it
\* says, which deletes the key only if it says so (tool.go:50).
Asks(c, k, entry) ==
  \E n \in DOMAIN args[c].items :
    LET i == args[c].items[n] IN
    /\ i.key = k
    /\ \A m \in DOMAIN args[c].items : args[c].items[m].key = k => m <= n
    /\ entry = IF i.isDelete THEN Absent ELSE i.value

\* A write changes the store once at most, by all of its items and in their
\* order, whatever was lost: nobody asked for anything else to be written.
WrittenAsAsked ==
  \A c \in Call :
    /\ Len(wrote[c]) <= 1
    /\ \A n \in DOMAIN wrote[c] : \A s \in [Key -> Stored] : \A k \in Key :
         LET entry == Applied(wrote[c][n], s)[k] IN
         Asks(c, k, entry) \/ (entry = s[k] /\ \A e \in Stored : ~Asks(c, k, e))

\* A write that reports success was applied before it did so.
SuccessWasWritten ==
  \A c \in Call : result[c].status = "success" /\ args[c].tool \in Writes =>
    wrote[c] # <<>> /\ c \notin stray

\* What a result says of a key, by the structured value or in words.
Says(r, k) ==
  IF k \in DOMAIN r.structured THEN r.structured[k]
  ELSE IF r.text[k] = "not_found" THEN Blank ELSE r.text[k]

\* What a caller can tell of a call: how far it is and what it said of its keys.
Status(c) ==
  CASE pc[c] = "idle"                 -> "idle"
    [] pc[c] \in {"sent", "answered"} -> "open"
    [] pc[c] = "done"                 -> result[c].status

Heard(c) ==
  IF Status(c) = "success" THEN [k \in args[c].keys |-> Says(result[c], k)] ELSE <<>>

Store == INSTANCE StateStore WITH
  Request   <- Arguments,
  NoRequest <- NoArgs,
  Writing   <- Writes,
  BulkRead  <- "get_bulk_state",
  status    <- [c \in Call |-> Status(c)],
  saw       <- found,
  applied   <- {c \in Call : wrote[c] # <<>>},
  told      <- [c \in Call |-> Heard(c)]

\* The tools keep the promise of StateStore: whatever requests and answers are
\* lost or late, each write is one change of the store or none, and a success
\* tells of a change that has been made, or of what the keys held.
ImplementsStore == Store!Spec

-----------------------------------------------------------------------------
(* The inductive invariant.                                                *)

\* A call has arguments as soon as it is under way.
ArgsInv ==
  \A c \in Call : IF pc[c] = "idle" THEN args[c] = NoArgs ELSE args[c] \in Arguments

\* What was read of a key was in the store while the call was there, and what
\* is there now counts as long as the call may read it.
ReadOK(c, k) ==
  /\ found[c][k] # "unread" =>
       /\ k \in args[c].keys
       /\ found[c][k] = "failed" => args[c].tool = "get_bulk_state"
       /\ found[c][k] # "failed" => found[c][k] \in held[c][k]
  /\ pc[c] = "sent" /\ k \in args[c].keys => store[k] \in held[c][k]

ReadInv == \A c \in Call, k \in Key : ReadOK(c, k)

\* What an answer stands for, and how long a request may be late.
AnswerOK(c) ==
  /\ pc[c] \in {"idle", "sent"} <=> answer[c] = "none"
  /\ answer[c] = "ok" =>
       IF args[c].tool \in Reads
       THEN \A k \in args[c].keys : found[c][k] # "unread"
       ELSE wrote[c] # <<>>
  /\ c \in stray =>
       /\ answer[c] = "error" /\ args[c].tool \in Writes /\ wrote[c] = <<>>

AnswerInv == \A c \in Call : AnswerOK(c)

\* A call writes when it has been answered, at most once.
WroteOK(c) ==
  \/ wrote[c] = <<>>
  \/ answer[c] # "none" /\ wrote[c] = <<Operations(args[c].items)>>

WroteInv == \A c \in Call : WroteOK(c)

\* A result is made of the answer, which no longer changes.
ResultInv ==
  result = [c \in Call |->
             IF pc[c] = "done"
             THEN Outcome(args[c], answer[c], [k \in args[c].keys |-> found[c][k]])
             ELSE NoResult]

IInv == VarTypes /\ ArgsInv /\ ReadInv /\ AnswerInv /\ WroteInv /\ ResultInv
=============================================================================
