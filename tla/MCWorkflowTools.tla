--------------------------- MODULE MCWorkflowTools ---------------------------
(***************************************************************************)
(* Small instances of WorkflowTools: the server's own app 1 and one other  *)
(* app 2, one instance ID that both apps may know, and event IDs on both   *)
(* sides of both ends of the 32-bit range, which is scaled to 0 .. 1.      *)
(***************************************************************************)
EXTENDS WorkflowTools, TLC

MCPools == {{}, {2}, {1, 2}}
MCAsked == {1, 2, 3, 4, NoApp}
MCEventIDs == {-1, 0, 1, 2}
Callers == Permutations(Call)
=============================================================================
