----------------------------- MODULE MCEnrollment -----------------------------
(* Constants for model checking Enrollment. *)
EXTENDS Enrollment

CONSTANTS svc, cmd

MCProcesses == {svc, cmd}

(* The service, and any one command at a time beside it. *)
MCKinds == [p \in MCProcesses |->
               IF p = svc THEN {"service"} ELSE AllKinds \ {"service"}]
=============================================================================
