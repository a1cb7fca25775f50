------------------------------- MODULE SessionUi -------------------------------
(***************************************************************************)
(* Which desktop UIs run, and whether a locked device shows one: the       *)
(* single-instance mutex of each Windows session, and the service that     *)
(* starts the UI in the console session while the device is locked.        *)
(*                                                                         *)
(* A process is a slot.  The named mutex of a session exists while a       *)
(* handle to it is open, with the access list of the process that made it. *)
(* What the screen of one UI does is in LockScreen; here it is open,       *)
(* restricted, or released by a recovery token until the next check-in.    *)
(***************************************************************************)
EXTENDS Naturals

CONSTANTS
    Slots,          \* processes at a time
    Sessions,
    Nobody,         \* no session at the console
    MaxLaunches,    \* bound: starts by a user, a logon task or the installer
    MaxFaults       \* bound: crashes, failed system calls, service stops

ASSUME SessionUiAssumption ==
    /\ MaxLaunches \in Nat /\ MaxFaults \in Nat
    /\ Nobody \notin Sessions

VARIABLES
    proc,       \* the process in each slot
    acl,        \* the mutex of each session: "none", or the token of its creator
    user,       \* the sessions somebody is signed in to
    console,    \* the session at the console
    locked,     \* device_locked: the lock state in remote-state.json
    keeper,     \* ensure_lock_screen of the service: its step and session
    launches,   \* launches so far, for MaxLaunches
    faults      \* faults so far, for MaxFaults

vars == <<proc, acl, user, console, locked, keeper, launches, faults>>

Free     == [pc |-> "free", session |-> Nobody, elevated |-> FALSE,
             holds |-> FALSE,
             failed |-> FALSE]      \* history: its CreateMutexW failed of itself
Idle     == [pc |-> "idle", session |-> Nobody]
Failed   == [pc |-> "failed", session |-> Nobody]       \* ended without a stop
Stopped  == [pc |-> "stopped", session |-> Nobody]      \* by an administrator

Drawing  == {"open", "restricted", "released"}
Past     == Drawing \cup {"loading", "broken"}      \* already_running said no

Running(s)  == {p \in Slots : proc[p].pc # "free" /\ proc[p].session = s}
Showing(s)  == {p \in Running(s) : proc[p].pc \in Drawing}
FreeSlots   == {p \in Slots : proc[p].pc = "free"}

Init ==
    /\ proc = [p \in Slots |-> Free]
    /\ acl = [s \in Sessions |-> "none"]
    /\ user = {}
    /\ console \in Sessions \cup {Nobody}
    /\ locked = FALSE
    /\ keeper = Idle
    /\ launches = 0
    /\ faults = 0

Fault == faults < MaxFaults /\ faults' = faults + 1

-----------------------------------------------------------------------------
(* Processes begin and end. *)

(* Any free slot will do. *)
Begin(s, elevated) ==
    /\ FreeSlots # {}
    /\ proc' = [proc EXCEPT ![CHOOSE p \in FreeSlots : TRUE] =
                    [pc |-> "starting", session |-> s, elevated |-> elevated,
                     holds |-> FALSE, failed |-> FALSE]]

(* The mutex goes with its last handle.                                     *)
End(ps) ==
    /\ proc' = [p \in Slots |-> IF p \in ps THEN Free ELSE proc[p]]
    /\ acl' = [s \in Sessions |->
                  IF \E p \in Running(s) \ ps : proc[p].holds THEN acl[s] ELSE "none"]

Move(p, to) == proc' = [proc EXCEPT ![p].pc = to]

(* The logon tasks, the Winlogon shell, the user, or install.ps1 (elevated). *)
Launch ==
    /\ launches < MaxLaunches
    /\ launches' = launches + 1
    /\ \E s \in user, elevated \in BOOLEAN : Begin(s, elevated)
    /\ UNCHANGED <<acl, user, console, locked, keeper, faults>>

-----------------------------------------------------------------------------
(* already_running *)

(* CreateMutexW made the mutex.                                             *)
First(p) ==
    LET s == proc[p].session IN
    /\ proc[p].pc = "starting"
    /\ acl[s] = "none"
    /\ proc' = [proc EXCEPT ![p].pc = "loading", ![p].holds = TRUE]
    /\ acl' = [acl EXCEPT ![s] = IF proc[p].elevated THEN "elevated" ELSE "standard"]
    /\ UNCHANGED <<user, console, locked, keeper, launches, faults>>

Denied(p) ==
    LET s == proc[p].session IN acl[s] = "elevated" /\ ~proc[p].elevated

(* Mutant: the error of CreateMutexW is overwritten before it is read. *)
SecondUnseen(p) ==
    /\ proc[p].pc = "starting"
    /\ acl[proc[p].session] # "none"
    /\ ~Denied(p)
    /\ proc' = [proc EXCEPT ![p].pc = "loading", ![p].holds = TRUE]
    /\ UNCHANGED <<acl, user, console, locked, keeper, launches, faults>>

(* ERROR_ALREADY_EXISTS: until it is closed, the handle keeps the mutex.    *)
Second(p) ==
    /\ proc[p].pc = "starting"
    /\ acl[proc[p].session] # "none"
    /\ ~Denied(p)
    /\ proc' = [proc EXCEPT ![p].pc = "redundant", ![p].holds = TRUE]
    /\ UNCHANGED <<acl, user, console, locked, keeper, launches, faults>>

(* Mutant: every error of CreateMutexW fails open. *)
RefusedShows(p) ==
    /\ proc[p].pc = "starting"
    /\ Denied(p)
    /\ Move(p, "loading")
    /\ UNCHANGED <<acl, user, console, locked, keeper, launches, faults>>

(* ERROR_ACCESS_DENIED *)
Refused(p) ==
    /\ proc[p].pc = "starting"
    /\ Denied(p)
    /\ End({p})
    /\ UNCHANGED <<user, console, locked, keeper, launches, faults>>

(* CreateMutexW failed otherwise: rather two screens than none.             *)
FailsOpen(p) ==
    /\ proc[p].pc = "starting"
    /\ Fault
    /\ proc' = [proc EXCEPT ![p].pc = "loading", ![p].failed = TRUE]
    /\ UNCHANGED <<acl, user, console, locked, keeper, launches>>

(* CloseHandle, return from main. *)
Leaves(p) ==
    /\ proc[p].pc = "redundant"
    /\ End({p})
    /\ UNCHANGED <<user, console, locked, keeper, launches, faults>>

AlreadyRunning(p) ==
    First(p) \/ Second(p) \/ Refused(p) \/ FailsOpen(p) \/ Leaves(p)

-----------------------------------------------------------------------------
(* main, ui::run *)

Loads(p) ==
    /\ proc[p].pc = "loading"
    /\ Move(p, IF locked THEN "restricted" ELSE "open")
    /\ UNCHANGED <<acl, user, console, locked, keeper, launches, faults>>

(* run_native fails: a message box waits for the user, in this process.     *)
Breaks(p) ==
    /\ proc[p].pc = "loading"
    /\ Fault
    /\ Move(p, "broken")
    /\ UNCHANGED <<acl, user, console, locked, keeper, launches>>

(* sync_remote_lock_state *)
Follows(p) ==
    /\ proc[p].pc \in {"open", "restricted"}
    /\ Move(p, IF locked THEN "restricted" ELSE "open")
    /\ UNCHANGED <<acl, user, console, locked, keeper, launches, faults>>

(* unlock_released *)
Releases(p) ==
    /\ proc[p].pc = "restricted"
    /\ Move(p, "released")
    /\ UNCHANGED <<acl, user, console, locked, keeper, launches, faults>>

(* A restricted UI vetoes the close request.                                *)
Closes(p) ==
    /\ proc[p].pc \in {"open", "released", "broken"}
    /\ End({p})
    /\ UNCHANGED <<user, console, locked, keeper, launches, faults>>

Crashes(p) ==
    /\ proc[p].pc # "free"
    /\ Fault
    /\ End({p})
    /\ UNCHANGED <<user, console, locked, keeper, launches>>

-----------------------------------------------------------------------------
(* The sessions, and the check-ins of the service. *)

SignIn(s) ==
    /\ user' = user \cup {s}
    /\ UNCHANGED <<proc, acl, console, locked, keeper, launches, faults>>

SignOut(s) ==
    /\ s \in user
    /\ user' = user \ {s}
    /\ End(Running(s))
    /\ UNCHANGED <<console, locked, keeper, launches, faults>>

Switch ==
    /\ console' \in Sessions \cup {Nobody}
    /\ UNCHANGED <<proc, acl, user, locked, keeper, launches, faults>>

(* A new check-in: no release names it.                                     *)
CheckIn ==
    /\ keeper \notin {Failed, Stopped}
    /\ locked' \in BOOLEAN
    /\ proc' = [p \in Slots |-> IF proc[p].pc = "released"
                                THEN [proc[p] EXCEPT !.pc = "open"] ELSE proc[p]]
    /\ UNCHANGED <<acl, user, console, keeper, launches, faults>>

-----------------------------------------------------------------------------
(* The service, every 15 s: ensure_lock_screen, ensure_ui_running.          *)

(* Mutant: any UI will do, whatever its session. *)
LooksAnywhere ==
    /\ keeper = Idle
    /\ locked /\ console # Nobody
    /\ FreeSlots = Slots
    /\ keeper' = [pc |-> "launch", session |-> console]
    /\ UNCHANGED <<proc, acl, user, console, locked, launches, faults>>

(* No process of that name in the console session.                          *)
Looks ==
    /\ keeper = Idle
    /\ locked /\ console # Nobody
    /\ Running(console) = {}
    /\ keeper' = [pc |-> "launch", session |-> console]
    /\ UNCHANGED <<proc, acl, user, console, locked, launches, faults>>

(* Nobody is signed in, or CreateProcessAsUserW failed: next time.          *)
GivesUp ==
    /\ keeper.pc = "launch"
    /\ keeper' = Idle
    /\ \/ keeper.session \notin user /\ UNCHANGED faults
       \/ Fault
    /\ UNCHANGED <<proc, acl, user, console, locked, launches>>

(* The user's own, filtered token.                                          *)
Starts ==
    /\ keeper.pc = "launch"
    /\ keeper.session \in user
    /\ keeper' = Idle
    /\ Begin(keeper.session, FALSE)
    /\ UNCHANGED <<acl, user, console, locked, launches, faults>>

(* It crashes, or somebody stops it.                                        *)
Stops ==
    /\ keeper \notin {Failed, Stopped}
    /\ Fault
    /\ keeper' \in {Failed, Stopped}
    /\ UNCHANGED <<proc, acl, user, console, locked, launches>>

(* The service control manager starts a service that failed.                *)
Restarts ==
    /\ keeper = Failed
    /\ keeper' = Idle
    /\ UNCHANGED <<proc, acl, user, console, locked, launches, faults>>

(* A service that was stopped waits for an administrator or the next boot.  *)
StartsAgain ==
    /\ keeper = Stopped
    /\ keeper' = Idle
    /\ UNCHANGED <<proc, acl, user, console, locked, launches, faults>>

Ui(p) ==
    \/ AlreadyRunning(p) \/ Loads(p) \/ Breaks(p) \/ Follows(p)
    \/ Releases(p) \/ Closes(p) \/ Crashes(p)

Keeper == Looks \/ GivesUp \/ Starts \/ Stops \/ Restarts \/ StartsAgain

Next ==
    \/ Launch \/ Switch \/ CheckIn \/ Keeper
    \/ \E p \in Slots : Ui(p)
    \/ \E s \in Sessions : SignIn(s) \/ SignOut(s)

(* Processes run; the service looks every 15 s, and is restarted where it    *)
(* failed.                                                                  *)
Fairness ==
    /\ \A p \in Slots : /\ WF_vars(AlreadyRunning(p))
                        /\ WF_vars(Loads(p))
                        /\ WF_vars(Follows(p))
    /\ WF_vars(Looks) /\ WF_vars(GivesUp \/ Starts) /\ WF_vars(Restarts)

Spec == Init /\ [][Next]_vars /\ Fairness

-----------------------------------------------------------------------------
Positions == {"free", "starting", "redundant"} \cup Past

(* Type invariant. *)
TypeOK ==
    /\ proc \in [Slots -> [pc : Positions, session : Sessions \cup {Nobody},
                           elevated : BOOLEAN, holds : BOOLEAN, failed : BOOLEAN]]
    /\ acl \in [Sessions -> {"none", "standard", "elevated"}]
    /\ user \subseteq Sessions
    /\ console \in Sessions \cup {Nobody}
    /\ locked \in BOOLEAN
    /\ keeper \in {Idle, Failed, Stopped} \cup [pc : {"launch"}, session : Sessions]
    /\ launches \in 0 .. MaxLaunches
    /\ faults \in 0 .. MaxFaults

(* However many launches race at a logon, whoever starts them and whichever *)
(* of them die, a session shows one screen at most.  Of two, one is of a    *)
(* process whose own CreateMutexW failed, and not because access was        *)
(* denied: one refused an elevated process' mutex leaves.                   *)
OneScreenPerSession ==
    \A s \in Sessions : \A p, q \in Showing(s) :
        p # q => proc[p].failed \/ proc[q].failed

(* The inductive invariant: what OneScreenPerSession rests on.              *)
ProcessHasSession == \A p \in Slots : proc[p].pc # "free" => proc[p].session \in Sessions

NewHoldsNothing ==
    \A p \in Slots :
        proc[p].pc \in {"free", "starting"} => ~proc[p].holds /\ ~proc[p].failed

HeldExists == \A p \in Slots : proc[p].holds => acl[proc[p].session] # "none"

(* already_running said no to one process of those that hold the mutex.     *)
HolderIsAlone ==
    \A p, q \in Slots :
        /\ proc[p].holds /\ proc[p].pc \in Past
        /\ proc[q].holds /\ proc[q].pc \in Past
        /\ proc[p].session = proc[q].session
        => p = q

(* Whoever got past it holds the mutex, or could not make one.              *)
PastHolds == \A p \in Slots : proc[p].pc \in Past => (proc[p].holds <=> ~proc[p].failed)

SessionUiInv ==
    /\ TypeOK
    /\ ProcessHasSession /\ NewHoldsNothing /\ HeldExists
    /\ HolderIsAlone /\ PastHolds

-----------------------------------------------------------------------------
(* A device that stays locked ends up with a screen in the session at the   *)
(* console, while somebody is signed in there: restricted, or released by a *)
(* token.  The exceptions are a UI that could not start, whose message box  *)
(* keeps the mutex and the process name until somebody dismisses it, and a  *)
(* service an administrator stopped.                                        *)
LockReachesConsole ==
    \A s \in Sessions :
        (locked /\ console = s /\ s \in user) ~>
            \/ ~locked \/ console # s \/ s \notin user \/ keeper = Stopped
            \/ \E p \in Running(s) : proc[p].pc \in {"restricted", "released", "broken"}
=============================================================================
