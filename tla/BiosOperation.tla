----------------------------- MODULE BiosOperation -----------------------------
(***************************************************************************)
(* The BIOS password panel of the desktop UI and the elevated helper it    *)
(* starts: the form, the one operation at a time, the file that hands the  *)
(* passwords over, and what the user is told.                              *)
(*                                                                         *)
(*   form --worker thread--> secret file --UAC--> helper --> firmware      *)
(*                     <---- exit code of the helper                       *)
(*                                                                         *)
(* The adapter installation, the health refresh and the restart into UEFI  *)
(* share the result channel and have no secret: they are one mode, Other.  *)
(* Progress texts are left out; the secret file stands for its content.    *)
(***************************************************************************)
EXTENDS Naturals

CONSTANTS
    Passwords,
    None,           \* no password: an empty field, or a firmware without one
    Supported,      \* modes the provider and its adapter allow
    MaxOps,         \* bound: operations
    MaxFaults       \* bound: crashes and failed system calls

Modes    == {"Create", "Change", "Disable"}
Password == Passwords \cup {None}

ASSUME BiosOperationAssumption ==
    /\ None \notin Passwords
    /\ Supported \subseteq Modes
    /\ MaxOps \in Nat /\ MaxFaults \in Nat

VARIABLES
    app,        \* DeviceApp: alive, locked, its tab, the operation of result_rx
    form,       \* BIOS fields: mode, current and (twice the same) new password
    op,         \* the operations: worker thread, helper, secret file, result
    firmware,   \* the password the firmware holds
    faults      \* faults so far, for MaxFaults

vars == <<app, form, op, firmware, faults>>

Ops   == 1 .. MaxOps
NoOp  == 0
Empty == [mode |-> "Create", current |-> None, new |-> None]

(* worker: run_elevated_script and what surrounds it; helper: UAC prompt and *)
(* script; code: exit code of the outer process that waits for the helper.   *)
(* History: failure, why the helper failed; lost, whether the worker or the  *)
(* outer process failed of itself; kept, who failed to delete the secret.    *)
Unused == [mode |-> "Other", current |-> None, new |-> None, worker |-> "unused",
           helper |-> "none", secret |-> FALSE, applied |-> FALSE, code |-> "none",
           failure |-> "none", result |-> "none", lost |-> FALSE, kept |-> {}]

Init ==
    /\ app = [alive |-> TRUE, locked |-> FALSE, tab |-> "bios", current |-> NoOp]
    /\ form = Empty
    /\ op = [o \in Ops |-> Unused]
    /\ firmware \in Password
    /\ faults = 0

(* Nothing is left of an operation without processes and files.             *)
Settled(r) ==
    IF r.worker \in {"shown", "dead"} /\ r.helper \in {"none", "gone"} /\ ~r.secret
    THEN [Unused EXCEPT !.worker = "shown"] ELSE r

Fault == faults < MaxFaults /\ faults' = faults + 1

(* The panels are drawn, and the result is polled, only while unlocked.     *)
Drawn == app.alive /\ ~app.locked

-----------------------------------------------------------------------------
(* The application around the panel. *)

ChangeLock ==
    /\ app.alive
    /\ app' = [app EXCEPT !.locked = ~@]
    /\ UNCHANGED <<form, op, firmware, faults>>

(* Worker threads and unread results die with the process; helpers do not.  *)
Ends ==
    /\ app' = [app EXCEPT !.alive = FALSE, !.locked = FALSE, !.current = NoOp]
    /\ form' = Empty
    /\ op' = [o \in Ops |-> IF op[o].worker \in {"protect", "ready", "wait", "sent"}
                            THEN Settled([op[o] EXCEPT !.worker = "dead"]) ELSE op[o]]
    /\ UNCHANGED firmware

Close == Drawn /\ Ends /\ UNCHANGED faults

Crash == app.alive /\ Fault /\ Ends

Start ==
    /\ ~app.alive
    /\ app' = [app EXCEPT !.alive = TRUE]
    /\ UNCHANGED <<form, op, firmware, faults>>

(* Mutant: the fields are cleared only on the way into the tab. *)
SelectTabKeeping ==
    /\ Drawn
    /\ \E tab \in {"bios", "other"} \ {app.tab} :
        /\ app' = [app EXCEPT !.tab = tab]
        /\ form' = IF tab = "bios" THEN [Empty EXCEPT !.mode = form.mode] ELSE form
    /\ UNCHANGED <<op, firmware, faults>>

(* Leaving the BIOS tab clears the fields: clear_passwords.                 *)
SelectTab ==
    /\ Drawn
    /\ \E tab \in {"bios", "other"} \ {app.tab} : app' = [app EXCEPT !.tab = tab]
    /\ form' = [Empty EXCEPT !.mode = form.mode]
    /\ UNCHANGED <<op, firmware, faults>>

-----------------------------------------------------------------------------
(* The form. *)

(* Mutant: the fields of the old mode are kept. *)
SelectedKeeping(mode) == [form EXCEPT !.mode = mode]

(* render_bios_action_selector *)
Selected(mode) == [Empty EXCEPT !.mode = mode]

(* The fields of the mode, render_bios_password_fields.                     *)
Typed ==
    {f \in [mode : {form.mode}, current : Password, new : Password] :
        /\ f.mode = "Create" => f.current = form.current
        /\ f.mode = "Disable" => f.new = form.new}

Fill ==
    /\ Drawn /\ app.tab = "bios"
    /\ \/ \E mode \in Modes \ {form.mode} : form' = Selected(mode)
       \/ form' \in Typed
    /\ UNCHANGED <<app, op, firmware, faults>>

FieldsValid ==
    CASE form.mode = "Create"  -> form.new # None
      [] form.mode = "Change"  -> form.current # None /\ form.new # None
      [] form.mode = "Disable" -> form.current # None

(* Mutant: the buttons of the other panels forget the channel. *)
AvailableAlways == Drawn /\ app.tab = "bios"

(* No operation is running, as far as this process knows.                   *)
Available == Drawn /\ app.current = NoOp

Begin(o, fresh) ==
    /\ op[o].worker = "unused" /\ \A p \in 1 .. o - 1 : op[p].worker # "unused"
    /\ op' = [op EXCEPT ![o] = fresh]
    /\ app' = [app EXCEPT !.current = o]
    /\ UNCHANGED <<firmware, faults>>

(* The fields are taken, and only then is anything tried.                   *)
ApplyBiosPassword(o) ==
    /\ Available /\ app.tab = "bios"
    /\ form.mode \in Supported /\ FieldsValid
    /\ Begin(o, [Unused EXCEPT !.worker = "protect", !.mode = form.mode,
                               !.current = form.current, !.new = form.new])
    /\ form' = [Empty EXCEPT !.mode = form.mode]

(* The operations without a secret, one per button.                         *)
BeginOther(o) ==
    /\ Available
    /\ Begin(o, [Unused EXCEPT !.worker = "ready"])

InstallBiosAdapter(o) ==
    /\ app.tab = "bios"
    /\ BeginOther(o)
    /\ UNCHANGED form

(* Clears the fields as well.                                               *)
RestartIntoFirmware(o) ==
    /\ app.tab = "bios"
    /\ BeginOther(o)
    /\ form' = [Empty EXCEPT !.mode = form.mode]

RefreshHealth(o) ==
    /\ app.tab = "other"
    /\ BeginOther(o)
    /\ UNCHANGED form

OtherOperation(o) ==
    InstallBiosAdapter(o) \/ RestartIntoFirmware(o) \/ RefreshHealth(o)

-----------------------------------------------------------------------------
(* The worker thread. *)

Change(o, new) ==
    /\ op' = [op EXCEPT ![o] = Settled(new)]
    /\ UNCHANGED <<app, form, firmware>>

(* The secret file is deleted, or cannot be: nobody looks at the outcome.   *)
Removed(r) == [r EXCEPT !.secret = FALSE, !.kept = {}]

Kept(r, who) == IF r.secret THEN [r EXCEPT !.kept = @ \cup {who}] ELSE r

Removes(o, r, who) ==
    \/ Change(o, Removed(r)) /\ UNCHANGED faults
    \/ r.secret /\ Fault /\ Change(o, Kept(r, who))

RemovesOnFault(o, r, who) ==
    /\ Fault
    /\ Change(o, Removed(r)) \/ Change(o, Kept(r, who))

Sent(r, result) == [r EXCEPT !.worker = "sent", !.result = result]

Lost(r) == [Sent(r, "failure") EXCEPT !.lost = TRUE]

(* protect_secret, fs::write.                                               *)
Stage(o) ==
    /\ op[o].worker = "protect"
    /\ Change(o, [op[o] EXCEPT !.worker = "ready", !.secret = TRUE])
    /\ UNCHANGED faults

(* Either fails, the second with part of the file written or not.           *)
StageFails(o) ==
    /\ op[o].worker = "protect"
    /\ \E written \in BOOLEAN :
          RemovesOnFault(o, Lost([op[o] EXCEPT !.secret = written]), "worker")

(* run_elevated_script: the outer process, and its prompt.                  *)
Spawn(o) ==
    /\ op[o].worker = "ready"
    /\ Change(o, [op[o] EXCEPT !.worker = "wait", !.helper = "prompt"])
    /\ UNCHANGED faults

SpawnFails(o) ==
    /\ op[o].worker = "ready"
    /\ RemovesOnFault(o, Lost(op[o]), "worker")

(* Mutant: any exit is a success. *)
ExitAlwaysSucceeds(o) ==
    /\ op[o].worker = "wait"
    /\ op[o].code # "none"
    /\ Removes(o, Sent(op[o], "success"), "worker")

(* Mutant: the secret is left to the helper. *)
ExitKeepsSecret(o) ==
    /\ op[o].worker = "wait"
    /\ op[o].code # "none"
    /\ Change(o, Sent(op[o], op[o].code))
    /\ UNCHANGED faults

(* Mutant: only a successful exit is noticed. *)
ExitOnSuccess(o) ==
    /\ op[o].worker = "wait"
    /\ op[o].code = "success"
    /\ Removes(o, Sent(op[o], op[o].code), "worker")

(* try_wait: the outer process has ended, with the exit code of the helper. *)
Exit(o) ==
    /\ op[o].worker = "wait"
    /\ op[o].code # "none"
    /\ Removes(o, Sent(op[o], op[o].code), "worker")

(* try_wait fails: the helper is left alone.                                *)
ExitUnknown(o) ==
    /\ op[o].worker = "wait"
    /\ RemovesOnFault(o, Lost(op[o]), "worker")

(* update: the result is shown and the next operation may begin.            *)
Poll ==
    /\ Drawn
    /\ app.current # NoOp
    /\ op[app.current].worker = "sent"
    /\ op' = [op EXCEPT ![app.current] = Settled([@ EXCEPT !.worker = "shown"])]
    /\ app' = [app EXCEPT !.current = NoOp]
    /\ UNCHANGED <<form, firmware, faults>>

-----------------------------------------------------------------------------
(* UAC and the helper, Manage-BiosPassword.ps1: the prompt, the script in    *)
(* its own account or another, the firmware, the report. *)

Alive == {"prompt", "own", "other", "firmware", "report"}

(* With the process go the copies of the passwords in it, and its exit code *)
(* becomes that of the outer process, if that still waits.                  *)
HelperGone(r, why) ==
    [r EXCEPT !.helper = "gone", !.failure = why, !.current = None, !.new = None,
              !.code = IF @ # "none" THEN @ ELSE IF why = "none" THEN "success" ELSE "failure"]

(* finally *)
Finally(o, why) == Removes(o, HelperGone(op[o], why), "helper")

(* Declined, or nobody answered the prompt.                                 *)
Decline(o) ==
    /\ op[o].helper = "prompt"
    /\ Change(o, HelperGone(op[o], "declined"))
    /\ UNCHANGED faults

(* With the user's own administrator account, or another one's.             *)
Approve(o) ==
    /\ op[o].helper = "prompt"
    /\ \E account \in {"own", "other"} : Change(o, [op[o] EXCEPT !.helper = account])
    /\ UNCHANGED faults

(* The secret file must be under the temporary directory of the account the *)
(* helper runs in: that of another administrator is not the user's.         *)
OutsideTemp(o) ==
    /\ op[o].helper = "other" /\ op[o].mode # "Other"
    /\ Change(o, HelperGone(op[o], "account"))
    /\ UNCHANGED faults

(* The handoff must fit the mode.                                           *)
Fits(r) ==
    CASE r.mode = "Create"  -> r.current = None /\ r.new # None
      [] r.mode = "Change"  -> r.current # None /\ r.new # None
      [] r.mode = "Disable" -> r.current # None /\ r.new = None

Decrypt(o) ==
    /\ op[o].helper = "own" /\ op[o].mode # "Other"
    /\ IF ~op[o].secret THEN Finally(o, "missing")
       ELSE IF ~Fits(op[o]) THEN Finally(o, "handoff")
       ELSE Change(o, [op[o] EXCEPT !.helper = "firmware"]) /\ UNCHANGED faults

(* The firmware checks the password it holds, and may refuse for reasons of *)
(* its own.                                                                 *)
FirmwareAccepts(o) ==
    /\ op[o].helper = "firmware"
    /\ op[o].current = firmware
    /\ firmware' = op[o].new
    /\ op' = [op EXCEPT ![o].helper = "report", ![o].applied = TRUE]
    /\ UNCHANGED <<app, form, faults>>

FirmwareRejects(o) ==
    /\ op[o].helper = "firmware"
    /\ Finally(o, "rejected")

Report(o) ==
    /\ op[o].helper = "report"
    /\ Finally(o, "none")

(* The last progress cannot be written: "Firmware rejected the action".     *)
ReportFails(o) ==
    /\ op[o].helper = "report"
    /\ RemovesOnFault(o, HelperGone(op[o], "report"), "helper")

(* The agent, the adapter script or shutdown.exe runs, well or not.         *)
OtherEnds(o) ==
    /\ op[o].helper \in {"own", "other"} /\ op[o].mode = "Other"
    /\ \E why \in {"none", "rejected"} : Change(o, HelperGone(op[o], why))
    /\ UNCHANGED faults

(* The elevated helper, or the prompt, is killed.                           *)
Killed(o) ==
    /\ op[o].helper \in Alive
    /\ Fault
    /\ Change(o, HelperGone(op[o], "killed"))

(* The outer process is: the helper goes on, and nobody waits for it.       *)
OuterKilled(o) ==
    /\ op[o].helper \in Alive /\ op[o].worker = "wait" /\ op[o].code = "none"
    /\ Fault
    /\ Change(o, [op[o] EXCEPT !.code = "failure", !.lost = TRUE])

Worker(o) ==
    Stage(o) \/ StageFails(o) \/ Spawn(o) \/ SpawnFails(o) \/ Exit(o) \/ ExitUnknown(o)

Helper(o) ==
    \/ Decline(o) \/ Approve(o) \/ OutsideTemp(o) \/ Decrypt(o)
    \/ FirmwareAccepts(o) \/ FirmwareRejects(o) \/ Report(o) \/ ReportFails(o)
    \/ OtherEnds(o) \/ Killed(o) \/ OuterKilled(o)

Next ==
    \/ ChangeLock \/ Close \/ Crash \/ Start \/ SelectTab \/ Fill \/ Poll
    \/ \E o \in Ops : ApplyBiosPassword(o) \/ OtherOperation(o) \/ Worker(o) \/ Helper(o)

(* Threads run, frames are drawn while unlocked, a UAC prompt ends by       *)
(* itself and so do the OEM tools.                                          *)
Fairness == SF_vars(Poll) /\ \A o \in Ops : WF_vars(Worker(o)) /\ WF_vars(Helper(o))

Spec == Init /\ [][Next]_vars /\ Fairness

-----------------------------------------------------------------------------
Reasons == {"none", "missing", "declined", "account", "handoff", "rejected", "report", "killed"}

(* No field of another mode holds a password, and none outside the tab.     *)
FormFits ==
    /\ form.mode = "Create" \/ app.tab # "bios" => form.current = None
    /\ form.mode = "Disable" \/ app.tab # "bios" => form.new = None

(* Type invariant.                                                          *)
TypeOK ==
    /\ FormFits
    /\ app \in [alive : BOOLEAN, locked : BOOLEAN, tab : {"bios", "other"},
                current : Ops \cup {NoOp}]
    /\ form \in [mode : Modes, current : Password, new : Password]
    /\ op \in [Ops -> [mode : Modes \cup {"Other"}, current : Password, new : Password,
                       worker : {"unused", "protect", "ready", "wait", "sent", "shown", "dead"},
                       helper : Alive \cup {"none", "gone"}, secret : BOOLEAN, applied : BOOLEAN,
                       code : {"none", "success", "failure"}, failure : Reasons,
                       result : {"none", "success", "failure"}, lost : BOOLEAN,
                       kept : SUBSET {"worker", "helper"}]]
    /\ firmware \in Password
    /\ faults \in 0 .. MaxFaults

Working(o) == op[o].worker \in {"protect", "ready", "wait"}
Elevated(o) == op[o].helper \in Alive

(* One operation at a time, across all buttons: two helpers run together    *)
(* only when the UI that started the first ended, or its worker lost sight  *)
(* of it.                                                                   *)
OneAtATime ==
    \A o, p \in Ops :
        (o < p /\ Elevated(o) /\ (Working(p) \/ Elevated(p))) =>
            op[o].worker = "dead" \/ op[o].lost

(* A reported success is in the firmware.  A reported failure is none only  *)
(* when a fault came between the firmware's acceptance and the report.      *)
ResultIsHonest ==
    \A o \in Ops : op[o].mode # "Other" =>
        /\ op[o].result = "success" => op[o].applied
        /\ (op[o].result = "failure" /\ op[o].applied) =>
               op[o].lost \/ op[o].failure \in {"report", "killed"}

(* Once nobody works on an operation its secret file is gone, unless each of *)
(* the two that delete it was kept from it: the UI ended before its worker   *)
(* came to it, or the deletion failed; and the helper never came to its      *)
(* cleanup, or its deletion failed.                                          *)
SecretIsExplained ==
    \A o \in Ops :
        (op[o].secret /\ ~Working(o) /\ ~Elevated(o)) =>
            /\ op[o].worker = "dead" \/ "worker" \in op[o].kept
            /\ \/ op[o].helper = "none"
               \/ op[o].failure \in {"declined", "account", "killed"}
               \/ "helper" \in op[o].kept

(* However the form was filled, the helper never refuses the handoff for    *)
(* its mode: no password of another mode is left in it.                     *)
HandoffFits == \A o \in Ops : op[o].failure # "handoff"

(* The inductive invariant: what the four above rest on.                    *)

(* What is handed over fits its mode until the helper has ended.            *)
StagedFits ==
    \A o \in Ops :
        /\ op[o].mode # "Other" /\ op[o].helper # "gone" => Fits(op[o])
        /\ op[o].worker = "protect" => op[o].mode # "Other"
        /\ op[o].worker \in {"unused", "protect", "ready"} => op[o].helper = "none"
        /\ op[o].worker = "unused" => op[o].mode = "Other"

(* The helper's exit code, and what it says.                                *)
CodeIsHonest ==
    \A o \in Ops :
        /\ op[o].helper = "gone" => op[o].code # "none"
        /\ op[o].code # "none" =>
               op[o].helper = "gone" \/ (op[o].lost /\ op[o].code = "failure")
        /\ op[o].mode # "Other" /\ op[o].code = "success" => op[o].applied
        /\ op[o].code = "failure" /\ op[o].applied =>
               op[o].lost \/ op[o].failure \in {"report", "killed"}

AppliedIsReported ==
    \A o \in Ops :
        /\ op[o].applied => op[o].helper \in {"report", "gone"}
        /\ op[o].helper = "report" => op[o].applied
        /\ op[o].helper \in {"firmware", "report"} => op[o].mode # "Other"

ResultIsCode ==
    \A o \in Ops : op[o].result # "none" =>
        \/ op[o].lost /\ op[o].result = "failure"
        \/ op[o].result = op[o].code

SecretIsHeld ==
    \A o \in Ops : op[o].secret =>
        /\ op[o].mode # "Other"
        /\ op[o].worker \in {"ready", "wait", "dead"} \/ "worker" \in op[o].kept
        /\ op[o].helper = "gone" =>
               op[o].failure \in {"declined", "account", "killed"} \/ "helper" \in op[o].kept

(* A helper is waited for, but by a worker that died or lost sight of it.   *)
HelperIsWatched ==
    \A o \in Ops : Elevated(o) => op[o].worker \in {"wait", "dead"} \/ op[o].lost

CurrentIsUnread ==
    \A o \in Ops : op[o].worker \in {"protect", "ready", "wait", "sent"} => app.current = o

(* An operation begins when every earlier one is over for this process.     *)
OneByOne ==
    \A o, p \in Ops : (o < p /\ op[p].worker # "unused") => op[o].worker \in {"shown", "dead"}

BiosInv ==
    /\ TypeOK
    /\ StagedFits /\ CodeIsHonest /\ AppliedIsReported /\ ResultIsCode
    /\ SecretIsHeld /\ HelperIsWatched /\ CurrentIsUnread /\ OneByOne
    /\ HandoffFits

-----------------------------------------------------------------------------
(* Refinement.  An operation asks for what it carries until its helper is   *)
(* gone or the firmware has accepted it.                                    *)
NoRequest == [mode |-> "Other", current |-> None, new |-> None]

Asked(r) ==
    IF r.mode = "Other" \/ r.helper = "gone" \/ r.applied THEN NoRequest
    ELSE [mode |-> r.mode, current |-> r.current, new |-> r.new]

Panel == INSTANCE PasswordRequests WITH pending <- [o \in Ops |-> Asked(op[o])]

(* Whatever dies, is declined, overlaps or is reported wrongly, the         *)
(* firmware's password changes only as a valid form asked, once per form,   *)
(* and with the current password that was typed.                            *)
ImplementsPasswordRequests == Panel!Init /\ [][Panel!Next]_(Panel!requestVars)

-----------------------------------------------------------------------------
(* "Machine scope permits an administrator account entered at UAC to        *)
(* decrypt the handoff": an approved operation fails only when the firmware *)
(* refuses or something breaks.                                             *)
ApprovedIsTried ==
    \A o \in Ops :
        (faults = 0 /\ op[o].result = "failure") => op[o].failure \in {"declined", "rejected"}

-----------------------------------------------------------------------------
(* An operation ends, and its result is shown, however often the screen is  *)
(* locked meanwhile, if it is not left locked for ever.                     *)
OperationEnds ==
    \A o \in Ops :
        []<>(~app.locked) => ((app.current = o) ~> (app.current # o \/ ~app.alive))
=============================================================================
