--------------------------- MODULE MCMessageTools ---------------------------
(***************************************************************************)
(* Small instances of MessageTools: every tool, or the one that a run is   *)
(* about, with one metadata key besides the propagator's and one named     *)
(* conversation.                                                           *)
(***************************************************************************)
EXTENDS MessageTools, TLC

Callers == Permutations(Call)
=============================================================================
