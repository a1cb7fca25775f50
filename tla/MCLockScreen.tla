----------------------------- MODULE MCLockScreen -----------------------------
(* LockScreen for TLC: the bounds are in the cfg. *)
EXTENDS LockScreen
=============================================================================
