------------------------------- MODULE AgentLoop -------------------------------
(***************************************************************************)
(* The main loop of the Windows service: its timers, the flags the service *)
(* control handler sets, and its way out.                                  *)
(*                                                                         *)
(* A pass is: flags, health, api.lock and config.json, enrollment check,   *)
(* check-in, one second of sleep; ticks fall between passes.  How a check  *)
(* goes about it is in Enrollment: here it is one step, with every outcome *)
(* it has for the client, the credential and the server.  Check-ins are in *)
(* RemoteSync, the lock-screen timer is in SessionUi.                      *)
(***************************************************************************)
EXTENDS Integers

CONSTANTS
    CheckInPeriod,  \* 60 s, in ticks
    LongPeriod,     \* 300 s, in ticks: enrollment checks and health
    Tokens,         \* agent tokens
    NoToken,
    MaxRuns,        \* bound: one-shot runs of another process
    MaxFaults       \* bound: local failures and crashes

ASSUME AgentLoopAssumption ==
    /\ CheckInPeriod \in Nat \ {0} /\ LongPeriod \in Nat \ {0}
    /\ CheckInPeriod <= LongPeriod
    /\ NoToken \notin Tokens
    /\ MaxRuns \in Nat /\ MaxFaults \in Nat

VARIABLES
    svc,        \* the service: its step, client, token in memory, resumed
    due,        \* ticks until next_health, next_enrollment, next_check_in
    stop,       \* STOP_REQUESTED
    resume,     \* RESUME_REQUESTED
    disk,       \* the token in config.json
    server,     \* what the server says of this device, if it can be reached
    fresh,      \* ticks left of a positive enrollment-status.json
    tmp,        \* health.json.tmp exists
    run,        \* a one-shot run of another process: its step
    runs,       \* runs so far, for MaxRuns
    faults,     \* faults so far, for MaxFaults
    silent,     \* history: ticks served without a check-in
    failed,     \* history: checks of the service that failed since a check-in
    owed        \* history: ticks since a resume no pass has taken, plus one

flags == <<stop, resume>>
world == <<server, fresh, run, runs>>
hist  == <<silent, failed, owed>>
vars  == <<svc, due, flags, disk, tmp, world, faults, hist>>

Timers  == {"health", "enrollment", "checkin"}
AllDue  == [t \in Timers |-> 0]
Token   == Tokens \cup {NoToken}
Server  == {"enrolled", "pending", "absent", "down"}

(* The server knows the device and this computer has a credential for it.   *)
Served == server = "enrolled" /\ disk # NoToken

Init ==
    /\ svc = [pc |-> "stopped", api |-> FALSE, token |-> NoToken, resumed |-> FALSE]
    /\ due = AllDue
    /\ stop = FALSE /\ resume = FALSE
    /\ disk = NoToken
    /\ server \in Server
    /\ fresh = 0
    /\ tmp = FALSE
    /\ run = "none"
    /\ runs = 0
    /\ faults = 0
    /\ silent = 0 /\ failed = 0 /\ owed = 0

Fault == faults < MaxFaults /\ faults' = faults + 1

Up == svc.pc \notin {"stopped", "failed"}

-----------------------------------------------------------------------------
(* service_main and its handler. *)

(* run: everything is due at once.                                          *)
Start ==
    /\ ~Up
    /\ svc' = [pc |-> "top", api |-> disk # NoToken, token |-> disk, resumed |-> FALSE]
    /\ due' = AllDue
    /\ stop' = FALSE /\ resume' = FALSE
    /\ silent' = 0 /\ failed' = 0 /\ owed' = 0
    /\ UNCHANGED <<disk, tmp, world, faults>>

(* Exit code 1, or a crash: the service control manager starts it again.    *)
Fails ==
    /\ svc' = [svc EXCEPT !.pc = "failed"]
    /\ due' = AllDue
    /\ silent' = 0 /\ owed' = 0
    /\ UNCHANGED <<flags, disk, world, failed>>

Crash ==
    /\ Up
    /\ Fault
    /\ Fails
    /\ UNCHANGED tmp

ControlStop ==
    /\ Up
    /\ stop' = TRUE
    /\ UNCHANGED <<svc, due, resume, disk, tmp, world, faults, hist>>

PowerEvent ==
    /\ Up
    /\ resume' = TRUE
    /\ owed' = IF owed = 0 THEN 1 ELSE owed
    /\ UNCHANGED <<svc, due, stop, disk, tmp, world, faults, silent, failed>>

-----------------------------------------------------------------------------
(* A pass of run. *)

Step(from, to) == svc.pc = from /\ svc' = [svc EXCEPT !.pc = to]

StopObeyed ==
    /\ stop
    /\ Step("top", "stopped")
    /\ UNCHANGED <<due, flags, disk, tmp, world, faults, hist>>

(* Mutant: the flag is cleared again at the end of the pass. *)
ResumeCleared == resume' = FALSE

(* A resume during the pass is for the next one. *)
ResumeLeft == UNCHANGED resume

(* swap; if write_health_snapshot is due, its fs::write.                    *)
Begin ==
    /\ svc.pc = "top"
    /\ ~stop
    /\ LET health == due["health"] = 0 \/ resume IN
          /\ svc' = [svc EXCEPT !.pc = IF health THEN "rename" ELSE "pass",
                                !.resumed = resume]
          /\ tmp' = (tmp \/ health)
    /\ resume' = FALSE
    /\ owed' = IF resume THEN 0 ELSE owed
    /\ UNCHANGED <<due, stop, disk, world, faults, silent, failed>>

(* fs::rename *)
HealthWritten ==
    /\ Step("rename", "pass")
    /\ tmp
    /\ tmp' = FALSE
    /\ due' = [due EXCEPT !["health"] = LongPeriod]
    /\ UNCHANGED <<flags, disk, world, faults, hist>>

(* Another process has renamed the file meanwhile, or the disk failed: the  *)
(* error leaves run.                                                        *)
HealthFails ==
    /\ svc.pc = "rename"
    /\ \/ ~tmp /\ UNCHANGED faults
       \/ Fault
    /\ Fails
    /\ UNCHANGED tmp

Due(timer) == due[timer] = 0 \/ svc.resumed

(* Mutant: the new token is taken, and no client is built for it. *)
ReloadTokenOnly ==
    /\ svc.pc = "pass"
    /\ svc' = [svc EXCEPT !.pc = IF Due("enrollment") THEN "enroll" ELSE "checkin",
                          !.token = disk]
    /\ UNCHANGED <<due, flags, disk, tmp, world, faults, hist>>

(* api.lock, and config.json read again: a new token brings a new client.   *)
Reload ==
    /\ svc.pc = "pass"
    /\ svc' = [svc EXCEPT !.pc = IF Due("enrollment") THEN "enroll" ELSE "checkin",
                          !.token = disk,
                          !.api = IF disk = svc.token THEN svc.api ELSE disk # NoToken]
    /\ UNCHANGED <<due, flags, disk, tmp, world, faults, hist>>

(* config.json cannot be read: the error leaves run.                        *)
ReloadFails ==
    /\ svc.pc = "pass"
    /\ Fault
    /\ Fails
    /\ UNCHANGED tmp

EnrollmentNext == due' = [due EXCEPT !["enrollment"] = LongPeriod]

(* What check_or_enroll_config decides by: the credential on disk and, for  *)
(* 60 s, the last positive answer.                                          *)
Confirmed == fresh > 0 /\ disk # NoToken

(* Confirmed already, confirmed now, or enrolled: a PENDING serial gets a   *)
(* token that is not used yet.                                              *)
CheckSucceeds(used) ==
    /\ \/ /\ Confirmed
          /\ UNCHANGED <<disk, server, fresh>>
       \/ /\ ~Confirmed /\ Served
          /\ fresh' = CheckInPeriod
          /\ UNCHANGED <<disk, server>>
       \/ /\ ~Confirmed /\ server = "pending"
          /\ disk' \in Tokens \ used
          /\ server' = "enrolled" /\ fresh' = 0
    /\ UNCHANGED faults

(* The Err branches, with the token in memory before and after: no answer;  *)
(* enrolled without a local credential; not enrolled, and the enrollment    *)
(* call refused or lost; and, with a fault, no lock, configuration, serial  *)
(* or client; credentials that cannot be cleared; an enrollment whose       *)
(* answer is lost, or that cannot be written or mirrored.                   *)
CheckFails(old, token) ==
    \/ /\ ~Confirmed /\ ~Served
       /\ disk' = IF server \in {"absent", "pending"} THEN NoToken ELSE disk
       /\ token = disk'
       /\ fresh' = IF server = "enrolled" THEN CheckInPeriod ELSE 0
       /\ UNCHANGED <<server, faults>>
    \/ /\ Fault
       /\ token \in {old, disk}
       /\ UNCHANGED <<disk, server, fresh>>
    \/ /\ ~Confirmed /\ server \in {"absent", "pending"}
       /\ Fault
       /\ disk' \in {disk, NoToken} /\ token = NoToken
       /\ fresh' = 0
       /\ UNCHANGED server
    \/ /\ ~Confirmed /\ server = "pending"
       /\ Fault
       /\ token \notin {disk} \ {NoToken} /\ disk' \in {token, NoToken}
       /\ server' = "enrolled" /\ fresh' = 0

(* Silence is excused while the device is not served. *)
SilenceFollows == silent' = IF Served' THEN silent ELSE 0

(* Mutant: the client that was dropped is not built again. *)
EnrollmentDoneNoClient ==
    /\ svc.pc = "enroll"
    /\ CheckSucceeds({disk})
    /\ svc' = [svc EXCEPT !.pc = "checkin", !.token = disk']
    /\ EnrollmentNext
    /\ UNCHANGED <<flags, tmp, run, runs, failed, owed>>
    /\ SilenceFollows

EnrollmentDone ==
    /\ svc.pc = "enroll"
    /\ CheckSucceeds({disk})
    /\ svc' = [svc EXCEPT !.pc = "checkin", !.token = disk', !.api = TRUE]
    /\ EnrollmentNext
    /\ UNCHANGED <<flags, tmp, run, runs, failed, owed>>
    /\ SilenceFollows

(* No client, whatever the reason, until the next check.                    *)
EnrollmentFailed ==
    /\ svc.pc = "enroll"
    /\ \E token \in Token :
          /\ CheckFails(svc.token, token)
          /\ svc' = [svc EXCEPT !.pc = "checkin", !.token = token, !.api = FALSE]
    /\ EnrollmentNext
    /\ failed' = IF Served THEN failed + 1 ELSE 1
    /\ UNCHANGED <<flags, tmp, run, runs, owed>>
    /\ SilenceFollows

(* Whatever the outcome of synchronize_remote_state.                        *)
CheckIn ==
    /\ Due("checkin") /\ svc.api
    /\ Step("checkin", "sleep")
    /\ due' = [due EXCEPT !["checkin"] = CheckInPeriod]
    /\ silent' = 0 /\ failed' = 0
    /\ ResumeLeft
    /\ UNCHANGED <<stop, disk, tmp, world, faults, owed>>

(* Mutant: the timer runs on although nothing was sent. *)
NoCheckInButTimed ==
    /\ ~(Due("checkin") /\ svc.api)
    /\ Step("checkin", "sleep")
    /\ due' = IF Due("checkin") THEN [due EXCEPT !["checkin"] = CheckInPeriod] ELSE due
    /\ UNCHANGED <<flags, disk, tmp, world, faults, hist>>

(* Not due, or no client: it stays due.                                     *)
NoCheckIn ==
    /\ ~(Due("checkin") /\ svc.api)
    /\ Step("checkin", "sleep")
    /\ ResumeLeft
    /\ UNCHANGED <<due, stop, disk, tmp, world, faults, hist>>

Elapsed(n) == IF n = 0 THEN 0 ELSE n - 1

(* Bound of the histories: one tick further than any property asks about.   *)
Counted(n) == IF n > CheckInPeriod + (MaxFaults + 1) * LongPeriod THEN n ELSE n + 1

(* A second passes, and with it a tick or not.                              *)
Wake ==
    /\ Step("sleep", "top")
    /\ UNCHANGED <<due, flags, disk, tmp, world, faults, hist>>

Tick ==
    /\ Step("sleep", "top")
    /\ due' = [t \in Timers |-> Elapsed(due[t])]
    /\ fresh' = Elapsed(fresh)
    /\ silent' = IF Served THEN Counted(silent) ELSE 0
    /\ owed' = IF owed = 0 THEN 0 ELSE Counted(owed)
    /\ UNCHANGED <<flags, disk, tmp, server, run, runs, faults, failed>>

-----------------------------------------------------------------------------
(* The network, the server, and one-shot runs of another process.           *)

ServerChanges ==
    /\ server' \in Server \ {server}
    /\ UNCHANGED <<svc, due, flags, disk, tmp, fresh, run, runs, faults, failed, owed>>
    /\ SilenceFollows

RunWritesHealth ==
    /\ run = "none"
    /\ runs < MaxRuns
    /\ runs' = runs + 1
    /\ run' = "rename"
    /\ tmp' = TRUE
    /\ UNCHANGED <<svc, due, flags, disk, server, fresh, faults, hist>>

RunRenamesHealth ==
    /\ run = "rename"
    /\ run' = IF tmp THEN "api" ELSE "none"
    /\ tmp' = FALSE
    /\ UNCHANGED <<svc, due, flags, disk, server, fresh, runs, faults, hist>>

(* Under api.lock, which the service holds from config.json to the check-in. *)
RunEnrolls ==
    /\ run = "api"
    /\ svc.pc \notin {"enroll", "checkin"}
    /\ run' = "none"
    /\ CheckSucceeds({disk, svc.token}) \/ \E token \in Token : CheckFails(disk, token)
    /\ UNCHANGED <<svc, due, flags, tmp, runs, failed, owed>>
    /\ SilenceFollows

(* initialize, in any command: config.json is read, and written back as it  *)
(* was, outside the locks.                                                  *)
RunRewrites ==
    /\ runs < MaxRuns
    /\ runs' = runs + 1
    /\ disk' \in Token
    /\ UNCHANGED <<svc, due, flags, tmp, server, fresh, run, faults, failed, owed>>
    /\ SilenceFollows

Pass ==
    \/ StopObeyed \/ Begin \/ HealthWritten \/ HealthFails
    \/ Reload \/ EnrollmentDone \/ EnrollmentFailed \/ CheckIn \/ NoCheckIn \/ Wake

Next ==
    \/ Start \/ Crash \/ ControlStop \/ PowerEvent
    \/ Pass \/ ReloadFails \/ Tick
    \/ ServerChanges
    \/ RunWritesHealth \/ RunRenamesHealth \/ RunEnrolls \/ RunRewrites

(* The loop runs, time passes, a failed service is started again.           *)
Fairness ==
    /\ WF_vars(Pass) /\ SF_vars(Tick)
    /\ WF_vars(svc.pc = "failed" /\ Start)

Spec == Init /\ [][Next]_vars /\ Fairness

-----------------------------------------------------------------------------
(* Type invariant.                                                          *)
TypeOK ==
    /\ svc \in [pc : {"stopped", "failed", "top", "rename", "pass", "enroll",
                      "checkin", "sleep"},
                api : BOOLEAN, token : Token, resumed : BOOLEAN]
    /\ due \in [Timers -> 0 .. LongPeriod]
    /\ due["checkin"] <= CheckInPeriod
    /\ stop \in BOOLEAN /\ resume \in BOOLEAN
    /\ disk \in Token
    /\ server \in Server
    /\ fresh \in 0 .. CheckInPeriod
    /\ tmp \in BOOLEAN
    /\ run \in {"none", "rename", "api"}
    /\ runs \in 0 .. MaxRuns
    /\ faults \in 0 .. MaxFaults
    /\ silent \in Nat /\ failed \in Nat /\ owed \in Nat

(* While the server knows the device and a credential is on disk, a service *)
(* with a client sends a check-in within the check-in period; each check    *)
(* that failed costs at most one enrollment period, and nothing else - a    *)
(* token another process replaced, cleared or wrote back, a server that     *)
(* came back, a restart, a resume - adds to it.                             *)
CheckInIsTimely ==
    svc.pc = "sleep" =>
        silent <= IF svc.api THEN CheckInPeriod - due["checkin"]
                             ELSE CheckInPeriod + failed * LongPeriod

(* A resume the handler noted is taken by the next pass, also when it came  *)
(* in the middle of one; and that pass checks the enrollment and, with a    *)
(* client, checks in.                                                       *)
ResumeIsHonoured ==
    /\ owed <= 2
    /\ svc.pc = "sleep" /\ svc.resumed =>
          /\ due["enrollment"] = LongPeriod
          /\ svc.api => due["checkin"] = CheckInPeriod

(* The inductive invariant: what CheckInIsTimely and ResumeIsHonoured rest  *)
(* on.                                                                      *)

(* What the failed checks have used up of their periods.                    *)
Spent == IF failed = 0 THEN 0 ELSE failed * LongPeriod - due["enrollment"]

(* The silence is counted from a check-in, then from the failed checks, and *)
(* ends with the check-in of the pass that has a client again.              *)
SilenceIsTimed ==
    IF due["checkin"] > 0
    THEN silent <= CheckInPeriod - due["checkin"]
    ELSE (svc.pc = "checkin" /\ svc.api) \/ silent <= CheckInPeriod + Spent

UnservedIsExcused == ~Served => silent = 0

(* A client is lost to a failed check or with the token, and then the       *)
(* device was not served when the token was last looked at.                 *)
ClientIsKept ==
    Up /\ failed = 0 =>
        /\ svc.api \/ svc.token = NoToken
        /\ svc.pc \in {"enroll", "checkin", "sleep"} /\ svc.token = NoToken => silent = 0

(* With the device served a check fails for a local reason only.            *)
FailureIsLocal == failed <= faults + 1

(* What a pass has behind it.                                               *)
PassIsDone ==
    /\ svc.pc \in {"checkin", "sleep"} => due["enrollment"] > 0
    /\ svc.pc = "sleep" /\ svc.api => due["checkin"] > 0

ResumeIsKept ==
    /\ owed <= 2
    /\ owed > 0 => resume
    /\ owed = 2 => svc.pc \in {"top", "stopped"}

ResumedIsServed ==
    svc.resumed =>
        /\ svc.pc \in {"checkin", "sleep"} => due["enrollment"] = LongPeriod
        /\ svc.pc = "sleep" /\ svc.api => due["checkin"] = CheckInPeriod

AgentLoopInv ==
    /\ TypeOK
    /\ SilenceIsTimed /\ UnservedIsExcused /\ ClientIsKept /\ FailureIsLocal
    /\ PassIsDone /\ ResumeIsKept /\ ResumedIsServed

-----------------------------------------------------------------------------
(* Once the device stays served, a service nobody stops checks in again and *)
(* again, whatever failed before; local failures do come to an end          *)
(* (MaxFaults).                                                             *)
CheckInsGoOn ==
    <>[]Served =>
        []<>(svc.pc = "stopped" \/ (svc.pc = "sleep" /\ due["checkin"] = CheckInPeriod))
=============================================================================
