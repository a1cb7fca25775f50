------------------------------ MODULE LockScreen ------------------------------
(***************************************************************************)
(* The desktop UI of one signed-in user: when its screen locks and opens,  *)
(* and what it leaves in the user's registry.                              *)
(*                                                                         *)
(*   service --check-in--> remote-state.json --every 2 s--> UI             *)
(*   service --receipt of a recovery token--> UI                           *)
(*   UI --one thread per change--> DisableTaskMgr of the user              *)
(*                                                                         *)
(* A frame is poll, sync, draw; the service writes between them.  A        *)
(* check-in is its number, which stands for checked_at.  The life of a     *)
(* token is in Recovery: here a submitted one is accepted or not.  The     *)
(* fields bluescreen, manual_lock and keyboard_disabled of DeviceApp are   *)
(* left out: nothing in src/ but its tests ever sets them.                 *)
(***************************************************************************)
EXTENDS Naturals, Sequences

CONSTANTS
    MaxCheckIns,    \* bound: check-ins that reach remote-state.json
    MaxStarts,      \* bound: starts of the UI
    MaxSubmits,     \* bound: recovery tokens submitted
    MaxFaults       \* bound: crashes, unreadable files, failed registry writes

ASSUME LockScreenAssumption ==
    /\ MaxCheckIns \in Nat /\ MaxStarts \in Nat
    /\ MaxSubmits \in Nat /\ MaxFaults \in Nat

VARIABLES
    disk,       \* remote-state.json: number of the check-in, LOCKED or not
    ui,         \* DeviceApp and its position in the frame
    hook,       \* the keyboard hook of the process
    writers,    \* registry threads not yet done, oldest first: the value each writes
    policy,     \* DisableTaskMgr of the user
    starts,     \* starts so far, for MaxStarts
    submits,    \* submissions so far, for MaxSubmits
    faults,     \* faults so far, for MaxFaults
    seen,       \* history: what the UI last read from remote-state.json
    released,   \* history: check-ins released by a token, in this process
    freed,      \* history: those of them whose release read the file
    causes      \* history: what befell the last change of policy asked for

bounds == <<starts, submits, faults>>
histories == <<released, freed, causes>>
vars   == <<disk, ui, hook, writers, policy, bounds, seen, histories>>

NoCheckIn == 0

(* remote-state.json is missing or cannot be read. *)
Unreadable == [at |-> NoCheckIn, locked |-> FALSE]

Off == [pc |-> "off", enforced |-> FALSE, remote |-> FALSE, override |-> NoCheckIn,
        started |-> FALSE, pending |-> FALSE, keys |-> FALSE]

Init ==
    /\ disk = Unreadable
    /\ ui = Off
    /\ hook = "absent"
    /\ writers = <<>>
    /\ policy = FALSE
    /\ starts = 0
    /\ submits = 0
    /\ faults = 0
    /\ seen = Unreadable
    /\ released = {}
    /\ freed = {}
    /\ causes = {}

Fault == faults < MaxFaults /\ faults' = faults + 1

(* blue_screen_active *)
Locked(u) == u.enforced \/ u.remote

(* read_remote_state *)
Reads(state) ==
    \/ state = disk /\ UNCHANGED faults
    \/ state = Unreadable /\ disk # Unreadable /\ Fault

-----------------------------------------------------------------------------
(* The service: every check-in replaces the file. *)

CheckIn ==
    /\ disk.at < MaxCheckIns
    /\ \E locked \in BOOLEAN : disk' = [at |-> disk.at + 1, locked |-> locked]
    /\ UNCHANGED <<ui, hook, writers, policy, bounds, seen, histories>>

-----------------------------------------------------------------------------
(* The process. *)

(* run, DeviceApp::load: the hook thread starts; whether the user is an     *)
(* administrator and the UI the shell is found out anew each time.          *)
Start ==
    /\ ui.pc = "off"
    /\ starts < MaxStarts
    /\ starts' = starts + 1
    /\ \E enforced \in BOOLEAN, state \in {disk, Unreadable} :
          /\ Reads(state)
          /\ ui' = [Off EXCEPT !.pc = "created", !.enforced = enforced,
                               !.remote = state.locked]
          /\ seen' = state
    /\ released' = {}
    /\ freed' = {}
    /\ UNCHANGED <<disk, hook, writers, policy, submits, causes>>

(* install: on its own thread, and given up at the first failure.           *)
HookInstalls ==
    /\ ui.pc # "off"
    /\ hook = "absent"
    /\ \/ hook' = "installed" /\ UNCHANGED faults
       \/ hook' = "failed" /\ Fault
    /\ UNCHANGED <<disk, ui, writers, policy, starts, submits, seen, histories>>

(* hook_proc *)
Swallows == hook = "installed" /\ ui.keys

(* Closing is vetoed while the screen is locked.                            *)
Close ==
    /\ ui.pc = "idle"
    /\ ~ui.started
    /\ ui' = Off
    /\ hook' = "absent"
    /\ UNCHANGED <<disk, writers, policy, bounds, seen, histories>>

Crash ==
    /\ ui.pc # "off"
    /\ Fault
    /\ ui' = Off
    /\ hook' = "absent"
    /\ causes' = IF ui.started THEN causes \cup {"crash"} ELSE causes
    /\ UNCHANGED <<disk, writers, policy, starts, submits, seen, released, freed>>

-----------------------------------------------------------------------------
(* set_task_manager_disabled: a thread of its own for every change.         *)

(* Mutant: the policy is set on lock and left alone on unlock. *)
SpawnOnLockOnly(disabled) ==
    /\ writers' = IF disabled THEN Append(writers, disabled) ELSE writers
    /\ causes' = {}

Spawn(disabled) ==
    /\ writers' = Append(writers, disabled)
    /\ causes' = {}

SpawnNothing == UNCHANGED <<writers, causes>>

WriterAt(i) == SubSeq(writers, 1, i - 1) \o SubSeq(writers, i + 1, Len(writers))

(* Thread i writes what was asked for last.                                 *)
Youngest(i) == i = Len(writers)

(* reg.exe ends in any order.                                               *)
WriterDone(i) ==
    /\ policy' = writers[i]
    /\ writers' = WriterAt(i)
    /\ causes' = IF Youngest(i) /\ i > 1 THEN causes \cup {"reordered"} ELSE causes
    /\ UNCHANGED <<disk, ui, hook, bounds, seen, released, freed>>

WriterFails(i) ==
    /\ Fault
    /\ writers' = WriterAt(i)
    /\ causes' = IF Youngest(i) THEN causes \cup {"failed"} ELSE causes
    /\ UNCHANGED <<disk, ui, hook, policy, starts, submits, seen, released, freed>>

(* A thread that has not started reg.exe dies with the process.             *)
WriterDies(i) ==
    /\ ui.pc = "off"
    /\ writers' = WriterAt(i)
    /\ causes' = IF Youngest(i) THEN causes \cup {"died"} ELSE causes
    /\ UNCHANGED <<disk, ui, hook, policy, bounds, seen, released, freed>>

-----------------------------------------------------------------------------
(* A frame of update: poll_recovery_unlock.                                 *)

Frame(from, to) == ui.pc \in from /\ ui' = [ui EXCEPT !.pc = to]

PollNothing ==
    /\ Frame({"created", "idle"}, "sync")
    /\ UNCHANGED <<disk, hook, writers, policy, bounds, seen, histories>>

(* The token is refused, or nobody answered for 30 s.                       *)
PollRefused ==
    /\ ui.pc = "idle"
    /\ ui.pending
    /\ ui' = [ui EXCEPT !.pc = "sync", !.pending = FALSE]
    /\ UNCHANGED <<disk, hook, writers, policy, bounds, seen, histories>>

(* Mutant: the lock is not over for the next frame. *)
EndBlueScreenStillStarted(u) == [u EXCEPT !.enforced = FALSE]

(* end_blue_screen *)
EndBlueScreen(u) == [u EXCEPT !.enforced = FALSE, !.started = FALSE]

(* Mutant: the remote lock is left to the next refresh. *)
ReleaseKeepsRemote(u, state) == [EndBlueScreen(u) EXCEPT !.override = state.at]

(* unlock_released: the override names the check-in on disk.                *)
Release(u, state) ==
    [EndBlueScreen(u) EXCEPT !.override = state.at, !.remote = FALSE]

PollAccepted ==
    /\ ui.pc = "idle"
    /\ ui.pending
    /\ \E state \in {disk, Unreadable} :
          /\ Reads(state)
          /\ ui' = [Release(ui, state) EXCEPT !.pc = "sync", !.pending = FALSE]
          /\ released' = released \cup {seen.at, state.at}
          /\ freed' = freed \cup ({state.at} \ {NoCheckIn})
    /\ Spawn(FALSE)
    /\ UNCHANGED <<disk, hook, policy, starts, submits, seen>>

-----------------------------------------------------------------------------
(* sync_remote_lock_state                                                   *)

(* The last refresh was less than 2 s ago.                                  *)
SyncEarly ==
    /\ Frame({"sync"}, "draw")
    /\ UNCHANGED <<disk, hook, writers, policy, bounds, seen, histories>>

(* Nothing is known, and nothing changes.                                   *)
SyncUnreadable ==
    /\ Frame({"sync"}, "draw")
    /\ Reads(Unreadable)
    /\ UNCHANGED <<disk, hook, writers, policy, starts, submits, seen, histories>>

(* Mutant: once released, always released. *)
OverriddenForEver(u, state) == u.override # NoCheckIn

(* Mutant: the override is forgotten. *)
OverriddenNever(u, state) == FALSE

(* A token released this very check-in.                                     *)
Overridden(u, state) == state.locked /\ u.override = state.at

(* The screen follows the file, and an unlock ends every kind of lock.      *)
SyncRead ==
    /\ ui.pc = "sync"
    /\ disk # Unreadable
    /\ seen' = disk
    /\ LET opens   == ~Overridden(ui, disk) /\ ui.remote /\ ~disk.locked
           kept    == [ui EXCEPT !.pc = "draw", !.remote = FALSE]
           follows == [ui EXCEPT !.pc = "draw", !.override = NoCheckIn,
                                 !.remote = disk.locked]
       IN  /\ ui' = IF Overridden(ui, disk) THEN kept
                    ELSE IF opens THEN EndBlueScreen(follows) ELSE follows
           /\ IF opens THEN Spawn(FALSE) ELSE SpawnNothing
    /\ UNCHANGED <<disk, hook, policy, bounds, released, freed>>

-----------------------------------------------------------------------------
(* blue_screen_active, set_locked, tick_locked                              *)

(* Mutant: the keyboard stays blocked once it was. *)
DrawOpenBlocked ==
    /\ ui.pc = "draw"
    /\ ~Locked(ui)
    /\ ui' = [ui EXCEPT !.pc = "idle"]
    /\ UNCHANGED <<disk, hook, writers, policy, bounds, seen, histories>>

DrawOpen ==
    /\ ui.pc = "draw"
    /\ ~Locked(ui)
    /\ ui' = [ui EXCEPT !.pc = "idle", !.keys = FALSE]
    /\ UNCHANGED <<disk, hook, writers, policy, bounds, seen, histories>>

(* render_blue_screen, try_recovery_unlock: one submission at a time.       *)
Submits(submit) ==
    /\ submit => ~ui.pending /\ submits < MaxSubmits
    /\ submits' = IF submit THEN submits + 1 ELSE submits

(* The first locked frame takes the screen and Task Manager.                *)
DrawLocked ==
    /\ ui.pc = "draw"
    /\ Locked(ui)
    /\ IF ui.started THEN SpawnNothing ELSE Spawn(TRUE)
    /\ \E submit \in BOOLEAN :
          /\ Submits(submit)
          /\ ui' = [ui EXCEPT !.pc = "idle", !.keys = TRUE, !.started = TRUE,
                              !.pending = ui.pending \/ submit]
    /\ UNCHANGED <<disk, hook, policy, starts, faults, seen, released, freed>>

Poll == PollNothing \/ PollRefused \/ PollAccepted
Sync == SyncEarly \/ SyncUnreadable \/ SyncRead
Draw == DrawOpen \/ DrawLocked

Writer == \E i \in DOMAIN writers : WriterDone(i) \/ WriterFails(i) \/ WriterDies(i)

Next ==
    \/ CheckIn \/ Start \/ HookInstalls \/ Close \/ Crash
    \/ Poll \/ Sync \/ Draw \/ Writer

(* A running UI draws: it asks for a repaint after 100 ms or 2 s, and every *)
(* 2 s one of its frames refreshes.                                         *)
Fairness ==
    /\ WF_vars(Poll) /\ WF_vars(Sync) /\ WF_vars(Draw)
    /\ SF_vars(SyncRead)

Spec == Init /\ [][Next]_vars /\ Fairness

-----------------------------------------------------------------------------
CheckIns == NoCheckIn .. MaxCheckIns

(* Type invariant. *)
TypeOK ==
    /\ disk \in [at : CheckIns, locked : BOOLEAN]
    /\ ui \in [pc : {"off", "created", "idle", "sync", "draw"}, enforced : BOOLEAN,
               remote : BOOLEAN, override : CheckIns, started : BOOLEAN,
               pending : BOOLEAN, keys : BOOLEAN]
    /\ hook \in {"absent", "installed", "failed"}
    /\ writers \in Seq(BOOLEAN)
    /\ policy \in BOOLEAN
    /\ starts \in 0 .. MaxStarts
    /\ submits \in 0 .. MaxSubmits
    /\ faults \in 0 .. MaxFaults
    /\ seen \in [at : CheckIns, locked : BOOLEAN]
    /\ released \subseteq CheckIns
    /\ freed \subseteq CheckIns
    /\ causes \subseteq {"crash", "reordered", "failed", "died"}

-----------------------------------------------------------------------------
(* Safety. *)

Drawn == ui.pc = "idle"

(* Whatever opened the screen (administrator, token, both at once), each    *)
(* drawn frame has the window, the Task Manager request and the keyboard of *)
(* a locked screen, or those of an open one: no path out of the lock skips  *)
(* end_blue_screen.                                                         *)
WindowFollowsLock ==
    Drawn => /\ ui.started = Locked(ui)
             /\ hook = "installed" => (Swallows <=> Locked(ui))

(* A LOCK the UI has read keeps the screen locked, unless a token released  *)
(* this or the then latest check-in: a release does not outlive the next    *)
(* check-in ("restricted again after a local emergency release").           *)
LockIsObeyed ==
    (Drawn /\ seen.locked /\ ~Locked(ui)) => seen.at \in released

(* A check-in whose lock a token released does not lock this process again, *)
(* whatever was read or written since, if the release could read the file.  *)
ReleaseHolds ==
    [][(ui.pc # "off" /\ ~ui.remote /\ ui'.remote) => seen'.at \notin freed]_vars

(* With no registry thread left Task Manager is disabled exactly while the  *)
(* screen is locked, unless the thread of the last change overtook an older *)
(* one, failed, or died with the process, or the UI crashed while locked    *)
(* and nothing was asked for since: what befell an older change is undone   *)
(* by the next.                                                             *)
TaskManagerIsExplained ==
    (Drawn /\ writers = <<>> /\ policy # ui.started) => causes # {}

(* The inductive invariant: what the four above and ReleaseHolds rest on.   *)
Running == ui.pc # "off"

OffIsFresh == ~Running => ui = Off /\ hook = "absent"

FileIsNumbered == disk.at = NoCheckIn => disk = Unreadable

OverrideIsReleased ==
    ui.override # NoCheckIn => ui.override \in released \cap freed /\ ~ui.remote

StartedIsLocked == ui.started => Locked(ui)

KeysFollowLock == Drawn => ui.keys = Locked(ui)

ReadIsObeyed == (Running /\ seen.locked /\ ~ui.remote) => seen.at \in released

FreedIsPast == \A n \in freed : n <= disk.at

(* A second release cannot fall on a check-in the first one freed.          *)
LockedIsNotFreed == (ui.pending \/ Locked(ui)) => disk.at \notin freed

FreedIsOverridden ==
    (Running /\ disk.locked /\ disk.at \in freed) => ui.override = disk.at

Wanted == IF writers = <<>> THEN policy ELSE writers[Len(writers)]

WantedFollows == causes = {} => Wanted = ui.started

LockScreenInv ==
    /\ TypeOK /\ OffIsFresh /\ FileIsNumbered
    /\ OverrideIsReleased /\ StartedIsLocked /\ KeysFollowLock /\ ReadIsObeyed
    /\ FreedIsPast /\ LockedIsNotFreed /\ FreedIsOverridden
    /\ WantedFollows /\ WindowFollowsLock

-----------------------------------------------------------------------------
(* Refinement.  One override that is forgotten again does what the whole    *)
(* set of lifted check-ins would.                                           *)
Policy == INSTANCE LockPolicy WITH
    published <- disk, running <- Running, remote <- ui.remote,
    taken <- seen, lifted <- freed

(* Frames, unreadable files, refused tokens, registry threads and the       *)
(* override are invisible in the abstract policy: a token lifts the latest  *)
(* check-in only, and every other one is obeyed.                            *)
ImplementsLockPolicy == Policy!Init /\ [][Policy!Next]_(Policy!policyVars)

-----------------------------------------------------------------------------
(* Of enforced mode, "release is via an owner-signed unlock token, an       *)
(* administrator signing into their own never-restricted account, or        *)
(* administrator-controlled external recovery media": in a process that     *)
(* goes on, the answer to a submitted token is the only way out.            *)
EnforcedUntilToken ==
    [][(Running /\ Running' /\ ui.enforced /\ ~ui'.enforced) =>
           ui.pending /\ ~ui'.pending]_vars

-----------------------------------------------------------------------------
(* Liveness. *)

(* While the UI runs, what the last check-in said reaches the screen, or    *)
(* another check-in replaces it, or a token released it.                    *)
ScreenFollowsDisk ==
    \A n \in 1 .. MaxCheckIns :
        (disk.at = n /\ ui.pc # "off") ~>
            \/ disk.at # n \/ ui.pc = "off"
            \/ ui.remote = disk.locked
            \/ disk.locked /\ n \in released
=============================================================================
