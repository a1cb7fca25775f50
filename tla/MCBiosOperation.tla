---------------------------- MODULE MCBiosOperation ----------------------------
(* BiosOperation for TLC: the modes that change whether there is a password.  *)
EXTENDS BiosOperation
MCSupported == {"Create", "Disable"}
=============================================================================
