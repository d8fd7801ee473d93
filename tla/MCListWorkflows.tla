--------------------------- MODULE MCListWorkflows ---------------------------
(***************************************************************************)
(* Small instances of ListWorkflows: the server's own app 1 and one other  *)
(* app 2, two instance IDs each, and operators who configure no app, the   *)
(* other app, or both.                                                     *)
(***************************************************************************)
EXTENDS ListWorkflows

MCPools == {{}, {2}, {1, 2}}

\* At the start some instances are there, all running or all completed.
MCBeginnings == UNION {[App -> [Instance -> {"absent", s}]] : s \in Status}

Resolved == {TRUE}
Unresolved == {FALSE}
=============================================================================
