------------------------------ MODULE RemoteSync ------------------------------
(***************************************************************************)
(* Admin check-in and signed commands: synchronize_remote_state, run by    *)
(* the service and by the desktop UI's one-shot sync, both rewriting       *)
(* remote-state.json under command.lock.                                   *)
(*                                                                         *)
(*   backend --check-in--> process --> remote-state.json                   *)
(*   backend --patch, download--> process --> remote-state.json            *)
(*   process --ack--> backend                                              *)
(*                                                                         *)
(* The backend is external: it may answer anything from Commands, Patches  *)
(* and LockStates, at any time, or not at all.  A missing remote-state.json *)
(* is the document with state "none" and the default ledger.               *)
(***************************************************************************)
EXTENDS Naturals, FiniteSets

CONSTANTS
    Processes,     \* the agent processes that synchronize
    Nobody,        \* command.lock is free
    Keys,          \* [id, material]: command-signing keys an administrator trusts
    NoCommand,     \* no pending command; the nonce-less message of a new ledger
    Commands,      \* pending commands the backend may report
    Patches,       \* patch files the backend may return
    NoPatch,       \* no patch fetched yet
    Skew,          \* how far the server's clock may run ahead of the local one
    MaxTime,       \* bound: ticks of the local clock
    MaxTrusts,     \* bound: trust-command-key runs
    MaxFaults      \* bound: crashes and failed writes

LockStates == {"UNLOCKED", "WARNING", "LOCKED", "PERMANENTLY_RELEASED"}
Actions    == {"LOCK", "UNLOCK", "WARN", "RELEASE", "UNINSTALL"}

(* A patch names the key it claims (signing_key_id with the key material    *)
(* that really signed) and the command its signature was computed over;     *)
(* NoCommand stands for a signature that does not match the patch's fields. *)
(* `sound` says that the download has the announced size and digest.        *)
ASSUME RemoteAssumption ==
    /\ Keys \subseteq [id : Nat \ {0}, material : STRING]
    /\ NoCommand \notin Commands /\ NoPatch \notin Patches
    /\ Nobody \notin Processes
    /\ Commands \subseteq [id : Nat, action : Actions, nonce : STRING, expires : Nat]
    /\ Patches \subseteq [id : Nat, command : Nat, version : Nat,
                          action : Actions, expires : Nat,
                          key : [id : Nat, material : STRING],
                          over : Commands \cup {NoCommand}, sound : BOOLEAN]
    /\ Skew \in Nat /\ MaxTime \in Nat /\ MaxTrusts \in Nat /\ MaxFaults \in Nat

VARIABLES
    clock,      \* the local clock
    store,      \* remote-state.json: applied lock state and replay ledger
    lock,       \* owner of command.lock
    trusted,    \* config.json: trusted_command_signing_keys
    held,       \* what config.json has held, and a process may still write back
    proc,       \* per process: its copy of the keys, and its synchronization
    trusts,     \* trust-command-key runs, for MaxTrusts
    faults,     \* crashes and failed writes, for MaxFaults
    applied     \* history: the signed messages whose state was committed

vars == <<clock, store, lock, trusted, held, proc, trusts, faults, applied>>

-----------------------------------------------------------------------------
(* CommandSecurityState.  last_patch_uuid and last_command_uuid are fields  *)
(* of the message whose digest is kept, and nonces stand for their digests. *)
NoMessage  == [command |-> NoCommand, patch |-> 0, version |-> 0,
               expires |-> 0, nonce |-> ""]
Message(command, patch) ==
    [command |-> command, patch |-> patch.id, version |-> patch.version,
     expires |-> patch.expires, nonce |-> command.nonce]
Messages   == {Message(c, p) : c \in Commands, p \in Patches}

NoLedger   == [version |-> 0, message |-> NoMessage, nonces |-> {}]
Ledgers    == [version : Nat, message : Messages \cup {NoMessage},
               nonces : SUBSET STRING]
Documents  == [state : LockStates \cup {"none"}, security : Ledgers]

Idle(keys) ==
    [pc |-> "idle", keys |-> keys, lockState |-> "none", command |-> NoCommand,
     time |-> 0, security |-> NoLedger, patch |-> NoPatch]

Later(t, u) == IF t > u THEN t ELSE u

(* verify_patch_binding: needs no key. *)
Bound(command, patch, now) ==
    /\ command.expires > now /\ patch.expires > now
    /\ command.nonce # ""
    /\ patch.command = command.id /\ patch.action = command.action
    /\ patch.version # 0

ExactRetry(m, security) ==
    /\ m = security.message
    /\ m.nonce \in security.nonces
    /\ m.version = security.version

(* Mutant: a nonce may come back under a higher version. *)
FreshIgnoringNonce(m, security) ==
    m.version > security.version \/ ExactRetry(m, security)

(* Mutant: an equal version passes. *)
FreshOrEqual(m, security) ==
    \/ m.version >= security.version /\ m.nonce \notin security.nonces
    \/ ExactRetry(m, security)

(* The replay checks of verify_command_patch. *)
Fresh(m, security) ==
    \/ m.version > security.version /\ m.nonce \notin security.nonces
    \/ ExactRetry(m, security)

Signed(command, patch, keys) == patch.key \in keys /\ patch.over = command

(* Mutant: the ledger does not remember which message it applied. *)
SpentWithoutMessage(security, m) ==
    [security EXCEPT !.version = m.version, !.nonces = @ \cup {m.nonce}]

(* applied_security_state *)
Spent(security, m) ==
    [version |-> m.version, message |-> m, nonces |-> security.nonces \cup {m.nonce}]

(* Mutant: the action itself is stored. *)
TargetIsAction(action) == action

(* command_target_state; UNINSTALL has no target and is refused. *)
Target(action) ==
    CASE action = "LOCK"    -> "LOCKED"
      [] action = "UNLOCK"  -> "UNLOCKED"
      [] action = "WARN"    -> "WARNING"
      [] action = "RELEASE" -> "PERMANENTLY_RELEASED"
      [] OTHER              -> "none"

-----------------------------------------------------------------------------
Init ==
    /\ clock = 1
    /\ store = [state |-> "none", security |-> NoLedger]
    /\ lock = Nobody
    /\ trusted = {}
    /\ held = {{}}
    /\ proc = [p \in Processes |-> Idle({})]
    /\ trusts = 0
    /\ faults = 0
    /\ applied = {}

Tick ==
    /\ clock < MaxTime
    /\ clock' = clock + 1
    /\ UNCHANGED <<store, lock, trusted, held, proc, trusts, faults, applied>>

(* trust-command-key: in what it read of config.json, without a lock, the   *)
(* id's former key is replaced.                                             *)
TrustCommandKey(k) ==
    /\ trusts < MaxTrusts
    /\ trusts' = trusts + 1
    /\ \E keys \in held : trusted' = {j \in keys : j.id # k.id} \cup {k}
    /\ held' = held \cup {trusted'}
    /\ UNCHANGED <<clock, store, lock, proc, faults, applied>>

(* initialize, enrollment: the file is written as it was read, by a process *)
(* that takes no lock or not one that trust-command-key would wait for.     *)
RewriteConfig ==
    /\ trusted' \in held \ {trusted}
    /\ UNCHANGED <<clock, store, lock, held, proc, trusts, faults, applied>>

(* The process reads config.json again: it starts, finds other credentials, *)
(* or passes check_or_enroll_config.                                        *)
ReloadKeys(p) ==
    /\ proc[p].pc = "idle"
    /\ proc[p].keys # trusted
    /\ proc' = [proc EXCEPT ![p] = [@ EXCEPT !.keys = trusted]]
    /\ UNCHANGED <<clock, store, lock, trusted, held, trusts, faults, applied>>

EnterSync(p) ==
    /\ proc[p].pc = "idle"
    /\ lock' = p
    /\ proc' = [proc EXCEPT ![p] = [@ EXCEPT !.pc = "asking"]]
    /\ UNCHANGED <<clock, store, trusted, held, trusts, faults, applied>>

(* Mutant: synchronizations overlap. *)
StartSyncUnlocked(p) == EnterSync(p)

StartSync(p) == lock = Nobody /\ EnterSync(p)

(* The answer of the check-in: the admin panel's state and perhaps a        *)
(* pending command, stamped by the server's clock.                          *)
CheckIn(p) ==
    /\ proc[p].pc = "asking"
    /\ \E state \in LockStates, command \in Commands \cup {NoCommand},
          time \in {clock, clock + Skew} :
          proc' = [proc EXCEPT ![p] = [@ EXCEPT !.pc = "answered", !.lockState = state,
                                                !.command = command, !.time = time]]
    /\ UNCHANGED <<clock, store, lock, trusted, held, trusts, faults, applied>>

LoadSecurity(p) ==
    /\ proc[p].pc = "answered"
    /\ proc' = [proc EXCEPT ![p] = [@ EXCEPT !.pc = "loaded", !.security = store.security]]
    /\ UNCHANGED <<clock, store, lock, trusted, held, trusts, faults, applied>>

Release(p) ==
    /\ lock' = IF lock = p THEN Nobody ELSE lock
    /\ proc' = [proc EXCEPT ![p] = Idle(proc[p].keys)]

CheckInDocument(q) == [state |-> q.lockState, security |-> q.security]

(* The check-in's lock state is applied at once, beside the same ledger.    *)
PersistCheckIn(p) ==
    /\ proc[p].pc = "loaded"
    /\ store' = CheckInDocument(proc[p])
    /\ IF proc[p].command = NoCommand
       THEN Release(p)
       ELSE /\ proc' = [proc EXCEPT ![p] = [@ EXCEPT !.pc = "persisted"]]
            /\ UNCHANGED lock
    /\ UNCHANGED <<clock, trusted, held, trusts, faults, applied>>

(* The check-in fails, the ledger cannot be read, the first write fails,    *)
(* the patch cannot be fetched, or none is pending any more (204).          *)
GiveUp(p) ==
    /\ proc[p].pc \in {"asking", "answered", "loaded", "persisted"}
    /\ Release(p)
    /\ UNCHANGED <<clock, store, trusted, held, trusts, faults, applied>>

FetchPatch(p) ==
    /\ proc[p].pc = "persisted"
    /\ \E patch \in Patches :
          proc' = [proc EXCEPT ![p] = [@ EXCEPT !.pc = "fetched", !.patch = patch]]
    /\ UNCHANGED <<clock, store, lock, trusted, held, trusts, faults, applied>>

MessageOf(q) == Message(q.command, q.patch)

(* Without a trusted key the patch only has to match the pending command.   *)
Verified(q, now) ==
    /\ Bound(q.command, q.patch, now)
    /\ q.keys # {} => /\ Fresh(MessageOf(q), q.security)
                      /\ Signed(q.command, q.patch, q.keys)

Verify(p) ==
    /\ proc[p].pc = "fetched"
    /\ LET now == Later(proc[p].time, clock)
       IN  proc' = [proc EXCEPT ![p] =
                      [@ EXCEPT !.pc = IF Verified(proc[p], now) THEN "verified" ELSE "refused"]]
    /\ UNCHANGED <<clock, store, lock, trusted, held, trusts, faults, applied>>

(* The patch is downloaded, and the expiry looked at once more.             *)
Download(p) ==
    /\ proc[p].pc = "verified"
    /\ proc[p].patch.sound
    /\ proc[p].command.expires > clock /\ proc[p].patch.expires > clock
    /\ proc' = [proc EXCEPT ![p] = [@ EXCEPT !.pc = "downloaded"]]
    /\ UNCHANGED <<clock, store, lock, trusted, held, trusts, faults, applied>>

(* No download, a wrong one, or one that took too long.                     *)
DownloadFails(p) ==
    /\ proc[p].pc = "verified"
    /\ proc' = [proc EXCEPT ![p] = [@ EXCEPT !.pc = "refused"]]
    /\ UNCHANGED <<clock, store, lock, trusted, held, trusts, faults, applied>>

NextLedger(q) == IF q.keys = {} THEN q.security ELSE Spent(q.security, MessageOf(q))

Commit(p) ==
    /\ proc[p].pc = "downloaded"
    /\ proc[p].command.action # "UNINSTALL"
    /\ store' = [state    |-> Target(proc[p].command.action),
                 security |-> NextLedger(proc[p])]
    /\ applied' = IF proc[p].keys = {} THEN applied
                  ELSE applied \cup {MessageOf(proc[p])}
    /\ proc' = [proc EXCEPT ![p] = [@ EXCEPT !.pc = "applied"]]
    /\ UNCHANGED <<clock, lock, trusted, held, trusts, faults>>

(* command_target_state fails before anything is written.                   *)
RefuseUninstall(p) ==
    /\ proc[p].pc = "downloaded"
    /\ proc[p].command.action = "UNINSTALL"
    /\ proc' = [proc EXCEPT ![p] = [@ EXCEPT !.pc = "refused"]]
    /\ UNCHANGED <<clock, store, lock, trusted, held, trusts, faults, applied>>

(* Mutant: a failed write has already replaced the lock state. *)
CommitFailsTorn(p) ==
    /\ proc[p].pc = "downloaded"
    /\ faults < MaxFaults
    /\ faults' = faults + 1
    /\ store' = [store EXCEPT !.state = Target(proc[p].command.action)]
    /\ proc' = [proc EXCEPT ![p] = [@ EXCEPT !.pc = "refused"]]
    /\ UNCHANGED <<clock, lock, trusted, held, trusts, applied>>

(* Mutant: a failed write is reported as a success. *)
CommitFailsIgnored(p) ==
    /\ proc[p].pc = "downloaded"
    /\ faults < MaxFaults
    /\ faults' = faults + 1
    /\ proc' = [proc EXCEPT ![p] = [@ EXCEPT !.pc = "applied"]]
    /\ UNCHANGED <<clock, store, lock, trusted, held, trusts, applied>>

CommitFails(p) ==
    /\ proc[p].pc = "downloaded"
    /\ faults < MaxFaults
    /\ faults' = faults + 1
    /\ proc' = [proc EXCEPT ![p] = [@ EXCEPT !.pc = "refused"]]
    /\ UNCHANGED <<clock, store, lock, trusted, held, trusts, applied>>

(* The outcome is reported; whether the report arrives changes nothing here. *)
Acknowledge(p) ==
    /\ proc[p].pc \in {"applied", "refused"}
    /\ Release(p)
    /\ UNCHANGED <<clock, store, trusted, held, trusts, faults, applied>>

(* The process dies anywhere; the system frees its lock, and its successor  *)
(* reads config.json.                                                       *)
Crash(p) ==
    /\ proc[p].pc # "idle"
    /\ faults < MaxFaults
    /\ faults' = faults + 1
    /\ lock' = IF lock = p THEN Nobody ELSE lock
    /\ proc' = [proc EXCEPT ![p] = Idle(trusted)]
    /\ UNCHANGED <<clock, store, trusted, held, trusts, applied>>

Step(p) ==
    \/ ReloadKeys(p)
    \/ StartSync(p)
    \/ CheckIn(p)
    \/ LoadSecurity(p)
    \/ PersistCheckIn(p)
    \/ GiveUp(p)
    \/ FetchPatch(p)
    \/ Verify(p)
    \/ Download(p)
    \/ DownloadFails(p)
    \/ Commit(p)
    \/ RefuseUninstall(p)
    \/ CommitFails(p)
    \/ Acknowledge(p)
    \/ Crash(p)

Next ==
    \/ Tick
    \/ RewriteConfig
    \/ \E k \in Keys : TrustCommandKey(k)
    \/ \E p \in Processes : Step(p)

Spec == Init /\ [][Next]_vars

-----------------------------------------------------------------------------
(* Type invariant. *)
ProcType ==
    [pc : {"idle", "asking", "answered", "loaded", "persisted", "fetched",
           "verified", "downloaded", "applied", "refused"},
     keys : SUBSET Keys, lockState : LockStates \cup {"none"},
     command : Commands \cup {NoCommand}, time : Nat, security : Ledgers,
     patch : Patches \cup {NoPatch}]

TypeOK ==
    /\ clock \in Nat
    /\ store \in Documents
    /\ lock \in Processes \cup {Nobody}
    /\ trusted \in held /\ held \subseteq SUBSET Keys
    /\ proc \in [Processes -> ProcType]
    /\ trusts \in Nat
    /\ faults \in Nat
    /\ applied \subseteq Messages

-----------------------------------------------------------------------------
(* Safety. *)

(* No two signed messages that ever took effect share a version or a nonce, *)
(* whichever process applied them, and across unsigned check-ins, crashes   *)
(* and failed writes ("a nonce can never be reused by a later               *)
(* higher-version command").                                                *)
SignedOnce ==
    \A a, b \in applied : (a.version = b.version \/ a.nonce = b.nonce) => a = b

(* Until a success is acknowledged the disk holds exactly what it reports:  *)
(* the command's target and, for a signed one, the ledger that spent it.    *)
AppliedIsOnDisk ==
    \A p \in Processes : proc[p].pc = "applied" =>
        store = [state    |-> Target(proc[p].command.action),
                 security |-> NextLedger(proc[p])]

(* A command acknowledged as failed, at whatever step, left the lock state  *)
(* of the check-in and the ledger it was judged by.                         *)
RefusedLeftNoTrace ==
    \A p \in Processes : proc[p].pc = "refused" =>
        store = CheckInDocument(proc[p])

(* When the acknowledgement of the newest command was lost, or its process  *)
(* died before sending it, the backend's exact retry is not taken for a     *)
(* replay.                                                                  *)
Newest(m) == m \in applied /\ \A a \in applied : a.version <= m.version

RetryIsHonoured ==
    \A p \in Processes :
        (proc[p].pc = "fetched" /\ Newest(MessageOf(proc[p])))
            => Fresh(MessageOf(proc[p]), proc[p].security)

(* The inductive invariant behind them. *)
Holding(p) == proc[p].pc # "idle"

LockOwner == \A p \in Processes : Holding(p) <=> lock = p

(* A synchronization's copy of the ledger is the one on disk, and past the  *)
(* check-in the document is the one it wrote.                               *)
CopyIsCurrent ==
    \A p \in Processes :
        /\ proc[p].pc = "loaded" => proc[p].security = store.security
        /\ proc[p].pc \in {"persisted", "fetched", "verified", "downloaded"}
              => store = CheckInDocument(proc[p])

(* What passed the replay checks is still new when it is committed.         *)
JudgedIsFresh ==
    \A p \in Processes :
        /\ proc[p].pc \notin {"idle", "asking", "answered", "loaded"}
              => proc[p].command # NoCommand
        /\ proc[p].pc \in {"fetched", "verified", "downloaded"}
              => proc[p].patch # NoPatch
        /\ (proc[p].pc \in {"verified", "downloaded"} /\ proc[p].keys # {})
              => Fresh(MessageOf(proc[p]), proc[p].security)

(* The ledger on disk accounts for every message applied.                   *)
LedgerIsComplete ==
    LET ledger == store.security
    IN  /\ ledger.message \in applied \cup {NoMessage}
        /\ applied # {} => ledger.message \in applied
        /\ ledger.version = ledger.message.version
        /\ ledger.nonces = {m.nonce : m \in applied}
        /\ \A m \in applied : m.version <= ledger.version

RemoteInv ==
    /\ TypeOK /\ LockOwner /\ CopyIsCurrent /\ JudgedIsFresh
    /\ LedgerIsComplete /\ SignedOnce
    /\ AppliedIsOnDisk /\ RefusedLeftNoTrace

(* The abstract ledger this implements. *)
Ledger == INSTANCE CommandLedger
    WITH highest <- store.security.version, spent <- store.security.nonces

ImplementsCommandLedger == Ledger!Init /\ [][Ledger!Next]_(Ledger!ledgerVars)
=============================================================================
