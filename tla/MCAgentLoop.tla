------------------------------ MODULE MCAgentLoop ------------------------------
(* AgentLoop for TLC: a tick is a minute, and the long period five. *)
EXTENDS AgentLoop
=============================================================================
