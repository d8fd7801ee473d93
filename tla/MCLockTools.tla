---------------------------- MODULE MCLockTools ----------------------------
(***************************************************************************)
(* Two agents at one lock, with leases of two ticks and a deadline of one. *)
(***************************************************************************)
EXTENDS LockTools
=============================================================================
