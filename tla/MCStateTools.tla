---------------------------- MODULE MCStateTools ----------------------------
(***************************************************************************)
(* Small instances of StateTools: two or three calls on two keys and one   *)
(* value besides the empty string.                                         *)
(***************************************************************************)
EXTENDS StateTools, TLC

Callers == Permutations(Call)
=============================================================================
