------------------------------ MODULE Enrollment ------------------------------
(***************************************************************************)
(* Serial-based enrollment: the service's loop, the short-lived agent      *)
(* commands beside it, and the config.json whose credentials they share.   *)
(*                                                                         *)
(*   command --read, write, no lock--> config.json                         *)
(*   service, sync --api.lock, enrollment.lock--> config.json              *)
(*   service, sync --check-enroll, enroll, check-in--> backend             *)
(*                                                                         *)
(* A credential (token and device UUID) is the number of its enrollment;   *)
(* an incomplete pair, which every reader treats as none, is NoCred.  The  *)
(* trusted keys of config.json are in RemoteSync, the check-in's effect    *)
(* too.  The backend is external: what src/ shows of it is that an         *)
(* administrator makes a serial PENDING and that one enroll call uses      *)
(* that up.                                                                *)
(***************************************************************************)
EXTENDS Naturals

CONSTANTS
    Processes,      \* the process slots
    Kinds,          \* per slot: the commands it may run
    Nobody,         \* a lock is free
    MaxResets,      \* bound: times an administrator makes the serial PENDING
    MaxLaunches,    \* bound: commands launched
    MaxFaults       \* bound: crashes, failed writes and failed calls

NoCred == 0

AllKinds == {"service", "sync", "refresh", "enroll", "init", "trust"}
AutoEnroll == {"service", "sync", "enroll"}   \* they check the enrollment

ASSUME EnrollmentAssumption ==
    /\ Kinds \in [Processes -> SUBSET AllKinds]
    /\ Nobody \notin Processes
    /\ MaxResets \in Nat /\ MaxLaunches \in Nat /\ MaxFaults \in Nat

VARIABLES
    config,      \* the credential in config.json
    confirmed,   \* enrollment-status.json: a positive answer under 60 s old
    server,      \* the backend's record of this serial
    apiLock,     \* owner of api.lock
    enrollLock,  \* owner of enrollment.lock
    proc,        \* per slot: command, position, credential in memory, client
    resets,      \* resets so far, for MaxResets
    launches,    \* launches so far, for MaxLaunches
    faults,      \* faults so far, for MaxFaults
    disowned,    \* history: credentials the server said are not enrolled
    causes       \* history: what befell which credential, as [what, cred] pairs

bounds == <<resets, launches, faults>>
vars   == <<config, confirmed, server, apiLock, enrollLock, proc, bounds,
            disowned, causes>>

Off == [pc |-> "off", kind |-> "init", cred |-> NoCred, api |-> FALSE]

Init ==
    /\ config = NoCred
    /\ confirmed = FALSE
    /\ server = [state |-> "absent", cred |-> NoCred]
    /\ apiLock = Nobody
    /\ enrollLock = Nobody
    /\ proc = [p \in Processes |-> Off]
    /\ resets = 0
    /\ launches = 0
    /\ faults = 0
    /\ disowned = {}
    /\ causes = {}

At(p, pc) == proc[p].pc = pc

Goto(p, pc) == proc' = [proc EXCEPT ![p] = [@ EXCEPT !.pc = pc]]

Fault == faults < MaxFaults /\ faults' = faults + 1

-----------------------------------------------------------------------------
(* The backend. *)

(* An administrator creates the device agent, or resets it: PENDING.        *)
AdminReset ==
    /\ resets < MaxResets
    /\ server.state # "pending"
    /\ resets' = resets + 1
    /\ server' = [state |-> "pending", cred |-> NoCred]
    /\ UNCHANGED <<config, confirmed, apiLock, enrollLock, proc, launches, faults,
                   disowned, causes>>

StatusExpires ==
    /\ confirmed
    /\ confirmed' = FALSE
    /\ UNCHANGED <<config, server, apiLock, enrollLock, proc, bounds, disowned, causes>>

-----------------------------------------------------------------------------
(* initialize: every command rewrites config.json from what it read, and    *)
(* takes no lock.                                                           *)

Launch(p, kind) ==
    /\ At(p, "off")
    /\ kind \in Kinds[p]
    /\ kind # "service" => launches < MaxLaunches
    /\ launches' = IF kind = "service" THEN launches ELSE launches + 1
    /\ proc' = [proc EXCEPT ![p] = [Off EXCEPT !.pc = "init", !.kind = kind]]
    /\ UNCHANGED <<config, confirmed, server, apiLock, enrollLock, resets, faults,
                   disowned, causes>>

InitRead(p) ==
    /\ At(p, "init")
    /\ proc' = [proc EXCEPT ![p] = [@ EXCEPT !.pc = "initialize", !.cred = config]]
    /\ UNCHANGED <<config, confirmed, server, apiLock, enrollLock, bounds,
                   disowned, causes>>

Rewrite(cred) ==
    /\ config' = cred
    /\ causes' = IF config = cred THEN causes
                 ELSE causes \cup ({"erased"} \X ({config} \ {NoCred}))
                             \cup ({"restored"} \X ({cred} \ {NoCred}))

(* The loop starts with a client if there is a credential.                  *)
InitWrite(p) ==
    /\ At(p, "initialize")
    /\ Rewrite(proc[p].cred)
    /\ proc' = [proc EXCEPT ![p] =
                  IF @.kind = "init" THEN Off
                  ELSE [@ EXCEPT !.pc = IF proc[p].kind = "trust" THEN "trusting"
                                                                  ELSE "ready",
                                 !.api = (proc[p].cred # NoCred)]]
    /\ UNCHANGED <<confirmed, server, apiLock, enrollLock, bounds, disowned>>

(* trust_command_key writes what initialize returned, with the key.         *)
TrustWrite(p) ==
    /\ At(p, "trusting")
    /\ Rewrite(proc[p].cred)
    /\ proc' = [proc EXCEPT ![p] = Off]
    /\ UNCHANGED <<confirmed, server, apiLock, enrollLock, bounds, disowned>>

-----------------------------------------------------------------------------
(* One pass of the loop, under api.lock.                                    *)

(* Mutant: the pass goes on with the configuration it has. *)
RereadNothing(q) == q

(* Credentials another process committed are adopted with a new client.     *)
Reread(q) ==
    IF q.cred = config \/ q.kind = "enroll" THEN q
    ELSE [q EXCEPT !.cred = config, !.api = (config # NoCred)]

(* The service looks at config.json every second, with or without the lock.  *)
RereadConfig(p) ==
    /\ At(p, "ready")
    /\ proc[p].kind = "service"
    /\ Reread(proc[p]) # proc[p]
    /\ proc' = [proc EXCEPT ![p] = Reread(@)]
    /\ UNCHANGED <<config, confirmed, server, apiLock, enrollLock, bounds,
                   disowned, causes>>

(* Mutant: a pass does not wait for the pass of another process. *)
BeginPassUnlocked(p, next) ==
    /\ At(p, "ready")
    /\ apiLock' = p
    /\ proc' = [proc EXCEPT ![p] = [Reread(@) EXCEPT !.pc = next]]
    /\ UNCHANGED <<config, confirmed, server, enrollLock, bounds, disowned, causes>>

BeginPass(p, next) ==
    /\ At(p, "ready")
    /\ apiLock = Nobody
    /\ apiLock' = p
    /\ proc' = [proc EXCEPT ![p] = [Reread(@) EXCEPT !.pc = next]]
    /\ UNCHANGED <<config, confirmed, server, enrollLock, bounds, disowned, causes>>

(* The service checks the enrollment every five minutes and checks in every *)
(* minute; a refresh only checks in.                                        *)
BeginEnrollment(p) == proc[p].kind \in AutoEnroll /\ BeginPass(p, "enrolling")

BeginCheckIn(p) == proc[p].kind \in {"service", "refresh"} /\ BeginPass(p, "checkin")

(* Mutant: a credential is confirmation enough. *)
RecentlyConfirmedForEver == config # NoCred

(* recently_confirmed *)
RecentlyConfirmed == config # NoCred /\ confirmed

(* check_or_enroll_config reads config.json again, and does not ask twice   *)
(* within 60 s unless the command line names the server.                    *)
LockEnrollment(p) ==
    /\ At(p, "enrolling")
    /\ enrollLock = Nobody
    /\ enrollLock' = p
    /\ proc' = [proc EXCEPT ![p] =
                  [@ EXCEPT !.cred = config,
                            !.pc = IF proc[p].kind # "enroll" /\ RecentlyConfirmed
                                   THEN "confirmed" ELSE "asking"]]
    /\ UNCHANGED <<config, confirmed, server, apiLock, bounds, disowned, causes>>

Unlocked(lock, p) == IF lock = p THEN Nobody ELSE lock

(* The pass goes on to the check-in with a client for the credential.       *)
EnrollmentDone(p) ==
    /\ enrollLock' = Unlocked(enrollLock, p)
    /\ IF proc[p].kind = "enroll"
       THEN /\ proc' = [proc EXCEPT ![p] = Off]
            /\ apiLock' = Unlocked(apiLock, p)
       ELSE /\ proc' = [proc EXCEPT ![p] = [@ EXCEPT !.pc = "checkin", !.api = TRUE]]
            /\ UNCHANGED apiLock

(* Mutant: the error path forgets api.lock. *)
EnrollmentFailedLocked(p, cred) ==
    /\ enrollLock' = Unlocked(enrollLock, p)
    /\ UNCHANGED apiLock
    /\ proc' = [proc EXCEPT ![p] =
                  IF @.kind = "service"
                  THEN [@ EXCEPT !.pc = "ready", !.cred = cred, !.api = FALSE]
                  ELSE Off]

(* Any error drops the client; the service stays, a command reports it.     *)
(* cred is what config holds in memory by then.                             *)
EnrollmentFailed(p, cred) ==
    /\ enrollLock' = Unlocked(enrollLock, p)
    /\ apiLock' = Unlocked(apiLock, p)
    /\ proc' = [proc EXCEPT ![p] =
                  IF @.kind = "service"
                  THEN [@ EXCEPT !.pc = "ready", !.cred = cred, !.api = FALSE]
                  ELSE Off]

Confirmed(p) ==
    /\ At(p, "confirmed")
    /\ EnrollmentDone(p)
    /\ UNCHANGED <<config, confirmed, server, bounds, disowned, causes>>

(* check-enroll says the serial is enrolled: fine with a credential, and an *)
(* administrator's business without one.                                    *)
AnswerEnrolled(p) ==
    /\ At(p, "asking")
    /\ server.state = "enrolled"
    /\ confirmed' = TRUE
    /\ IF proc[p].cred # NoCred THEN EnrollmentDone(p)
                                ELSE EnrollmentFailed(p, NoCred)
    /\ UNCHANGED <<config, server, bounds, disowned, causes>>

AnswerNotEnrolled(p) ==
    /\ At(p, "asking")
    /\ server.state # "enrolled"
    /\ confirmed' = FALSE
    /\ disowned' = disowned \cup {proc[p].cred}
    /\ Goto(p, "clearing")
    /\ UNCHANGED <<config, server, apiLock, enrollLock, bounds, causes>>

(* Mutant: no answer is taken for a negative one. *)
CheckEnrollFailsNegative(p) ==
    /\ At(p, "asking")
    /\ Fault
    /\ confirmed' = FALSE
    /\ Goto(p, "clearing")
    /\ UNCHANGED <<config, server, apiLock, enrollLock, resets, launches, disowned, causes>>

CheckEnrollFails(p) ==
    /\ At(p, "asking")
    /\ Fault
    /\ confirmed' = FALSE
    /\ EnrollmentFailed(p, proc[p].cred)
    /\ UNCHANGED <<config, server, resets, launches, disowned, causes>>

(* clear_enrollment_credentials *)
ClearCredentials(p) ==
    /\ At(p, "clearing")
    /\ config' = NoCred
    /\ proc' = [proc EXCEPT ![p] = [@ EXCEPT !.pc = "posting", !.cred = NoCred]]
    /\ UNCHANGED <<confirmed, server, apiLock, enrollLock, bounds, disowned, causes>>

(* config.json or its mirror ui-config.json cannot be written.              *)
ClearFails(p) ==
    /\ At(p, "clearing")
    /\ Fault
    /\ \/ config' = NoCred /\ UNCHANGED causes
       \/ UNCHANGED config /\ causes' = causes \cup {<<"clear", proc[p].cred>>}
    /\ EnrollmentFailed(p, NoCred)
    /\ UNCHANGED <<confirmed, server, resets, launches, disowned>>

(* The one-time enroll call uses the PENDING record up.                     *)
EnrollCall(p) ==
    /\ At(p, "posting")
    /\ server.state = "pending"
    /\ server' = [state |-> "enrolled", cred |-> resets]
    /\ proc' = [proc EXCEPT ![p] = [@ EXCEPT !.pc = "writing", !.cred = resets]]
    /\ UNCHANGED <<config, confirmed, apiLock, enrollLock, bounds, disowned, causes>>

EnrollRejected(p) ==
    /\ At(p, "posting")
    /\ server.state # "pending"
    /\ EnrollmentFailed(p, NoCred)
    /\ UNCHANGED <<config, confirmed, server, bounds, disowned, causes>>

(* The request or its answer is lost.                                       *)
EnrollCallFails(p) ==
    /\ At(p, "posting")
    /\ Fault
    /\ \/ UNCHANGED <<server, causes>>
       \/ /\ server.state = "pending"
          /\ server' = [state |-> "enrolled", cred |-> resets]
          /\ causes' = causes \cup {<<"answer", resets>>}
    /\ EnrollmentFailed(p, NoCred)
    /\ UNCHANGED <<config, confirmed, resets, launches, disowned>>

(* Mutant: the granted credential stays in memory. *)
WriteCredentialsLater(p) ==
    /\ At(p, "writing")
    /\ EnrollmentDone(p)
    /\ UNCHANGED <<config, confirmed, server, bounds, disowned, causes>>

WriteCredentials(p) ==
    /\ At(p, "writing")
    /\ config' = proc[p].cred
    /\ EnrollmentDone(p)
    /\ UNCHANGED <<confirmed, server, bounds, disowned, causes>>

(* config.json or ui-config.json cannot be written; memory has the new one. *)
WriteFails(p) ==
    /\ At(p, "writing")
    /\ Fault
    /\ \/ config' = proc[p].cred /\ UNCHANGED causes
       \/ UNCHANGED config /\ causes' = causes \cup {<<"answer", proc[p].cred>>}
    /\ EnrollmentFailed(p, proc[p].cred)
    /\ UNCHANGED <<confirmed, server, resets, launches, disowned>>

(* Whether a check-in is sent, and its outcome, change nothing here.        *)
Sends(p) == At(p, "checkin") /\ proc[p].api /\ proc[p].cred # NoCred

EndPass(p) ==
    /\ At(p, "checkin")
    /\ apiLock' = Unlocked(apiLock, p)
    /\ proc' = [proc EXCEPT ![p] = IF @.kind = "service"
                                   THEN [@ EXCEPT !.pc = "ready"] ELSE Off]
    /\ UNCHANGED <<config, confirmed, server, enrollLock, bounds, disowned, causes>>

(* The process dies anywhere; the system frees its locks.                   *)
Crash(p) ==
    /\ ~At(p, "off")
    /\ Fault
    /\ causes' = causes \cup (IF At(p, "writing") THEN {<<"answer", proc[p].cred>>}
                              ELSE IF At(p, "clearing") THEN {<<"clear", proc[p].cred>>}
                              ELSE {})
    /\ apiLock' = Unlocked(apiLock, p)
    /\ enrollLock' = Unlocked(enrollLock, p)
    /\ proc' = [proc EXCEPT ![p] = Off]
    /\ UNCHANGED <<config, confirmed, server, resets, launches, disowned>>

Step(p) ==
    \/ \E kind \in AllKinds : Launch(p, kind)
    \/ InitRead(p)
    \/ InitWrite(p)
    \/ TrustWrite(p)
    \/ RereadConfig(p)
    \/ BeginEnrollment(p)
    \/ BeginCheckIn(p)
    \/ LockEnrollment(p)
    \/ Confirmed(p)
    \/ AnswerEnrolled(p)
    \/ AnswerNotEnrolled(p)
    \/ CheckEnrollFails(p)
    \/ ClearCredentials(p)
    \/ ClearFails(p)
    \/ EnrollCall(p)
    \/ EnrollRejected(p)
    \/ EnrollCallFails(p)
    \/ WriteCredentials(p)
    \/ WriteFails(p)
    \/ EndPass(p)
    \/ Crash(p)

Next ==
    \/ AdminReset
    \/ StatusExpires
    \/ \E p \in Processes : Step(p)

Spec == Init /\ [][Next]_vars

-----------------------------------------------------------------------------
(* Type invariant. *)
Creds == 0 .. MaxResets

TypeOK ==
    /\ config \in Creds
    /\ confirmed \in BOOLEAN
    /\ server \in [state : {"absent", "pending", "enrolled"}, cred : Creds]
    /\ apiLock \in Processes \cup {Nobody}
    /\ enrollLock \in Processes \cup {Nobody}
    /\ proc \in [Processes ->
          [pc : {"off", "init", "initialize", "trusting", "ready", "enrolling",
                 "confirmed", "asking", "clearing", "posting", "writing", "checkin"},
           kind : AllKinds, cred : Creds, api : BOOLEAN]]
    /\ resets \in 0 .. MaxResets
    /\ launches \in 0 .. MaxLaunches
    /\ faults \in 0 .. MaxFaults
    /\ disowned \subseteq Creds
    /\ causes \subseteq {"answer", "clear", "erased", "restored"} \X Creds

-----------------------------------------------------------------------------
(* Safety. *)

(* Why a credential of the server may not be on disk: the one answer that   *)
(* carried it was lost, or a command wrote what it had read before over it. *)
Lost(c) == <<"answer", c>> \in causes \/ <<"erased", c>> \in causes

(* Why a credential may live on that the server disowned: clearing it       *)
(* failed, or a command put it back.                                        *)
Kept(c) == <<"clear", c>> \in causes \/ <<"restored", c>> \in causes

(* When no process is in its API pass, a device the server holds enrolled   *)
(* has the server's credential on disk, unless something befell that very   *)
(* credential: an accident with an earlier one never strands the device.    *)
StrandedIsExplained ==
    (apiLock = Nobody /\ server.state = "enrolled" /\ config # server.cred)
        => Lost(server.cred)

(* A credential the server disowned is never used for a check-in, unless    *)
(* clearing that very credential failed or a command put it back: every     *)
(* pass sees what the others found out.                                     *)
StaleCheckInIsExplained ==
    \A p \in Processes :
        (Sends(p) /\ proc[p].cred \in disowned) => Kept(proc[p].cred)

(* A credential leaves config.json only when the server has disowned it, by *)
(* a command that writes over it, or in the pass of a process behind whose  *)
(* back a command had put it there.                                         *)
OnlyDisownedIsErased ==
    [][(config # NoCred /\ config' # config) =>
          \/ config \in disowned
          \/ <<"erased", config>> \in causes'
          \/ <<"restored", config>> \in causes]_vars

(* The inductive invariant: what the three above rest on.                     *)
ApiSteps == {"enrolling", "confirmed", "asking", "clearing", "posting", "writing", "checkin"}

PassHoldsApiLock == \A p \in Processes : proc[p].pc \in ApiSteps => apiLock = p

(* The record that is PENDING has given out no credential yet.              *)
Issued == IF server.state = "pending" THEN resets - 1 ELSE resets

CredsAreIssued ==
    /\ server.state = "pending" => resets > 0
    /\ server.state = "enrolled" => server.cred # NoCred
    /\ config <= Issued
    /\ \A p \in Processes : proc[p].cred <= Issued
    /\ \A c \in disowned : c <= Issued

ClearedIsNotEnrolled ==
    \A p \in Processes : proc[p].pc \in {"clearing", "posting"} => server.state # "enrolled"

WrittenIsTheServers ==
    \A p \in Processes : proc[p].pc = "writing" =>
        /\ proc[p].cred \notin disowned
        /\ server.state = "enrolled" => server.cred = proc[p].cred

(* What a pass works with is on disk, unless a command wrote over it.       *)
Overwritten(c) ==
    /\ c # NoCred => <<"erased", c>> \in causes
    /\ config # NoCred => <<"restored", config>> \in causes

PassIsCurrent ==
    \A p \in Processes : proc[p].pc \in {"confirmed", "asking", "clearing", "checkin"} =>
        proc[p].cred = config \/ Overwritten(proc[p].cred)

(* Nothing that the server disowned is taken up again, or cleared unasked.  *)
DisownedIsKept ==
    \A p \in Processes :
        /\ (/\ proc[p].pc \in {"confirmed", "asking", "checkin"}
            /\ proc[p].cred \in disowned \ {NoCred}) => Kept(proc[p].cred)
        /\ proc[p].pc = "clearing" => proc[p].cred \in disowned

(* Until the new credential is written there is none, or one put back.      *)
ClearedStaysClear ==
    \A p \in Processes : proc[p].pc \in {"posting", "writing"} =>
        config = NoCred \/ <<"restored", config>> \in causes

EnrolledIsWritten ==
    (server.state = "enrolled" /\ config # server.cred) =>
        \/ Lost(server.cred)
        \/ \E p \in Processes : proc[p].pc = "writing"

DisownedIsCleared ==
    config \in disowned \ {NoCred} =>
        \/ Kept(config)
        \/ \E p \in Processes : proc[p].pc = "clearing" /\ proc[p].cred = config

EnrollmentInv ==
    /\ TypeOK
    /\ PassHoldsApiLock /\ CredsAreIssued /\ ClearedIsNotEnrolled
    /\ WrittenIsTheServers /\ PassIsCurrent /\ DisownedIsKept /\ ClearedStaysClear
    /\ EnrolledIsWritten /\ DisownedIsCleared

(* "Updated initialization preserves complete current enrollment": while    *)
(* the server's record stands, its credential stays in config.json.         *)
EnrollmentIsPreserved ==
    [][(config # NoCred /\ server.state = "enrolled" /\ config = server.cred)
          => config' = config]_config

(* "Never keep sending check-ins with a token once it says this serial is   *)
(* not enrolled".                                                           *)
NoCheckInOnceDisowned ==
    \A p \in Processes : Sends(p) => proc[p].cred \notin disowned

-----------------------------------------------------------------------------
(* Liveness.  The service is started and restarted by the service control   *)
(* manager, a process that runs goes on (every call has a timeout of 30 s), *)
(* the service's enrollment timer runs out within five minutes, and time    *)
(* passes.  Nobody has to launch a command or to reset anything.            *)
Progress(p) ==
    \/ InitRead(p) \/ InitWrite(p) \/ TrustWrite(p) \/ LockEnrollment(p)
    \/ Confirmed(p) \/ AnswerEnrolled(p) \/ AnswerNotEnrolled(p)
    \/ ClearCredentials(p) \/ EnrollCall(p) \/ EnrollRejected(p)
    \/ WriteCredentials(p) \/ EndPass(p)

Fairness ==
    /\ WF_vars(StatusExpires)
    /\ \A p \in Processes :
          /\ WF_vars(Launch(p, "service"))
          /\ WF_vars(Progress(p))
          /\ SF_vars(BeginEnrollment(p))

FairSpec == Spec /\ Fairness

(* A serial the administrator made PENDING ends up enrolled with the        *)
(* credential of that very enrollment on disk, or the administrator resets  *)
(* it once more, or something befalls that credential: an old credential, a *)
(* failed call, a crash, a pass of another process and accidents with       *)
(* earlier credentials do not keep it from that.                            *)
EnrollmentConverges ==
    \A n \in 1 .. MaxResets :
        (server.state = "pending" /\ resets = n)
            ~> \/ server = [state |-> "enrolled", cred |-> n] /\ config = n
               \/ resets # n
               \/ Lost(n)

(* No process keeps the others from the API for ever.                       *)
ApiLockIsFreed == \A p \in Processes : (apiLock = p) ~> (apiLock # p)
=============================================================================
