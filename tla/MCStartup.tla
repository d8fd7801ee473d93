------------------------------ MODULE MCStartup ------------------------------
(***************************************************************************)
(* Small instances of Startup: the server's own app 1 and another app 2;   *)
(* mappings that are empty, name one or both apps, repeat an app or have   *)
(* a malformed entry.                                                      *)
(***************************************************************************)
EXTENDS Startup

Pair(app) == [form |-> "pair", app |-> app, addr |-> app]
Blank     == [form |-> "blank"]
Malformed == [form |-> "malformed"]

Env(enabled, mode, flags, complete) ==
  [enabled |-> enabled, mode |-> mode, flags |-> flags, complete |-> complete,
   header |-> "Authorization", skip |-> {}, domain |-> "ours", allowed |-> {}]

NoAuth == {Env(FALSE, "", {}, {})}

AllMappings ==
  {<<>>, <<Pair(2)>>, <<Pair(2), Blank, Pair(1)>>, <<Pair(2), Pair(2)>>,
   <<Pair(2), Malformed>>}

\* Every mode, with and without its settings, and every set of hybrid flags.
AllEnvs ==
  {Env(TRUE, mode, {"oidc"}, complete) :
     mode \in Method \cup {"", "disabled", "basic"}, complete \in {{}, Method}}
    \cup {Env(TRUE, "hybrid", flags, Method \ {"spiffe"}) : flags \in SUBSET Method}
    \cup {Env(TRUE, "hybrid", Method, Method)} \cup NoAuth

SomeComponents == {{"state", "middleware"}, Conditional}
=============================================================================
