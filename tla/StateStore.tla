----------------------------- MODULE StateStore -----------------------------
(***************************************************************************)
(* What the state tools promise their callers, without requests, answers   *)
(* or stray messages: a call that writes changes the store at one moment,  *)
(* whole, once at most and, if it tells of success, before it does so; a   *)
(* call that reads tells of each key what the key held at one moment of    *)
(* the call.  An error promises nothing, not even that a write will not    *)
(* happen later.  Only a bulk read may say of a key that it failed.        *)
(*                                                                         *)
(* saw and applied are internal: nobody but the store sees them.           *)
(***************************************************************************)
EXTENDS Naturals

CONSTANTS
  Call,       \* calls
  Key,        \* keys
  Stored,     \* what a key may hold
  Request,    \* what may be asked: a tool, the keys it reads, the items it writes
  NoRequest,  \* what a call that has not begun has asked for
  Writing,    \* the tools that write
  BulkRead,   \* the tool that may fail on a single key
  Absent,     \* what a key without an entry holds
  Blank       \* what is told of it

VARIABLES
  store,    \* what each key holds
  args,     \* what each call asked for
  status,   \* "idle", "open", "success" or "error"
  saw,      \* what each call saw of each key
  applied,  \* the calls that have changed the store
  told      \* what each call was told of its keys

vars == <<store, args, status, saw, applied, told>>

NotSeen == "unread"
Failed  == "failed"

Init ==
  /\ store \in [Key -> Stored]
  /\ args = [c \in Call |-> NoRequest]
  /\ status = [c \in Call |-> "idle"]
  /\ saw = [c \in Call |-> [k \in Key |-> NotSeen]]
  /\ applied = {}
  /\ told = [c \in Call |-> <<>>]

Begin(c, a) ==
  /\ status[c] = "idle"
  /\ status' = [status EXCEPT ![c] = "open"]
  /\ args' = [args EXCEPT ![c] = a]
  /\ UNCHANGED <<store, saw, applied, told>>

\* The moment at which a call sees a key.
See(c, k) ==
  /\ status[c] = "open"
  /\ k \in args[c].keys
  /\ saw[c][k] = NotSeen
  /\ \/ saw' = [saw EXCEPT ![c][k] = store[k]]
     \/ args[c].tool = BulkRead /\ saw' = [saw EXCEPT ![c][k] = Failed]
  /\ UNCHANGED <<store, args, status, applied, told>>

\* Item n is the last one that asks for something of key k.
LastOn(items, k, n) ==
  /\ items[n].key = k
  /\ \A m \in DOMAIN items : items[m].key = k => m <= n

\* What an item asks its key to hold.
Entry(item) == IF item.isDelete THEN Absent ELSE item.value

\* The moment at which a call changes the store, by all of its items.
Change(c) ==
  /\ args[c].tool \in Writing
  /\ c \notin applied
  /\ status[c] \in {"open", "error"}
  /\ store' \in [Key -> Stored]
  /\ \A k \in Key :
       \/ \E n \in DOMAIN args[c].items :
             LastOn(args[c].items, k, n) /\ store'[k] = Entry(args[c].items[n])
       \/ /\ \A n \in DOMAIN args[c].items : args[c].items[n].key # k
          /\ store'[k] = store[k]
  /\ applied' = applied \cup {c}
  /\ UNCHANGED <<args, status, saw, told>>

\* What a caller is told of what it saw.
Shown(seen) == IF seen = Absent THEN Blank ELSE seen

Succeed(c) ==
  /\ status[c] = "open"
  /\ \A k \in args[c].keys : saw[c][k] # NotSeen
  /\ args[c].tool \in Writing => c \in applied
  /\ status' = [status EXCEPT ![c] = "success"]
  /\ told' = [told EXCEPT ![c] = [k \in args[c].keys |-> Shown(saw[c][k])]]
  /\ UNCHANGED <<store, args, saw, applied>>

Fail(c) ==
  /\ status[c] = "open"
  /\ status' = [status EXCEPT ![c] = "error"]
  /\ UNCHANGED <<store, args, saw, applied, told>>

Next ==
  \/ \E c \in Call, a \in Request : Begin(c, a)
  \/ \E c \in Call, k \in Key : See(c, k)
  \/ \E c \in Call : Change(c) \/ Succeed(c) \/ Fail(c)

Spec == Init /\ [][Next]_vars
=============================================================================
