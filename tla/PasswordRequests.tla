-------------------------- MODULE PasswordRequests --------------------------
(***************************************************************************)
(* What the BIOS panel promises, with no form, threads, files or elevated  *)
(* helper: the firmware's password changes only by a request somebody made *)
(* for it, by each request at most once, and only when the request names   *)
(* the password the firmware then holds.  So one is set only where there   *)
(* is none, and removed only by a request to remove it.                    *)
(***************************************************************************)
CONSTANTS Ops,          \* what may carry a request, one at a time
          Passwords,
          None,         \* the firmware has no password
          NoRequest     \* nothing is asked for

VARIABLES firmware,     \* the firmware's password
          pending       \* per operation: the request that may yet be applied

requestVars == <<firmware, pending>>

Requests ==
    [mode : {"Create"}, current : {None}, new : Passwords]
      \cup [mode : {"Change"}, current : Passwords, new : Passwords]
      \cup [mode : {"Disable"}, current : Passwords, new : {None}]

Init ==
    /\ firmware \in Passwords \cup {None}
    /\ pending = [o \in Ops |-> NoRequest]

Ask(o, request) ==
    /\ pending[o] = NoRequest
    /\ pending' = [pending EXCEPT ![o] = request]
    /\ UNCHANGED firmware

Apply(o) ==
    /\ pending[o] \in Requests
    /\ firmware = pending[o].current
    /\ firmware' = pending[o].new
    /\ pending' = [pending EXCEPT ![o] = NoRequest]

(* Declined, refused, killed, or forgotten.                                 *)
Withdraw ==
    /\ \E gone \in SUBSET Ops :
          pending' = [o \in Ops |-> IF o \in gone THEN NoRequest ELSE pending[o]]
    /\ UNCHANGED firmware

Next ==
    \/ \E o \in Ops : Apply(o) \/ \E request \in Requests : Ask(o, request)
    \/ Withdraw

Spec == Init /\ [][Next]_requestVars
=============================================================================
