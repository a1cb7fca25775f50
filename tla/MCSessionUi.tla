------------------------------ MODULE MCSessionUi ------------------------------
(* SessionUi for TLC: two sessions, processes of equal standing. *)
EXTENDS SessionUi
=============================================================================
