------------------------------ MODULE Recovery ------------------------------
(***************************************************************************)
(* Offline recovery: the lock-screen sessions, the user-writable request   *)
(* mailbox, the service's recovery worker, the administrator's             *)
(* `trust-recovery-key`, and the recovery-state.json document they share.  *)
(*                                                                         *)
(*   session --write--> recovery-request.json --read--> worker             *)
(*   worker, administrator --recovery.lock--> recovery-state.json          *)
(*   recovery-state.json --poll--> session                                 *)
(*                                                                         *)
(* A missing state file is the document with key NoKey.  A missing,        *)
(* oversized or half-written mailbox is the request with id 0.  A token    *)
(* that does not decode is one signed by NoKey.  One tick stands for the   *)
(* time unit of the three constants that measure time.                     *)
(***************************************************************************)
EXTENDS Naturals, FiniteSets

CONSTANTS
    Sessions,        \* the interactive sessions that may show the lock screen
    Keys,            \* public keys an administrator may try to provision
    WeakKeys,        \* the ones validate_public_key refuses (weak or lab)
    NoKey,           \* no key: state file missing, or a token nobody signed
    Devices,         \* device identities tokens are minted for
    ThisDevice,      \* the identity the worker was started with
    Tokens,          \* the tokens a user may type, prefix included
    ReceiptLife,     \* lifetime of a receipt          (30 s in the code)
    UiTimeout,       \* how long a session waits       (30 s in the code)
    FailureLimit,    \* refusals before the back-off   (5 in the code); bounds
                     \* the malformed inputs in a row too
    BackoffUnit,     \* first back-off                 (5 s in the code)
    MaxTime,         \* bound: ticks of the clock
    MaxRequests,     \* bound: requests submitted
    MaxProvisions,   \* bound: key provisionings
    MaxFaults        \* bound: crashes and failed writes

ASSUME RecoveryAssumption ==
    /\ WeakKeys \subseteq Keys
    /\ NoKey \notin Keys
    /\ ThisDevice \in Devices
    /\ Tokens \subseteq [signer : Keys \cup {NoKey}, device : Devices,
                         counter : Nat, expires : Nat]
    /\ ReceiptLife \in Nat /\ UiTimeout \in Nat
    /\ FailureLimit \in Nat /\ BackoffUnit \in Nat
    /\ MaxTime \in Nat /\ MaxRequests \in Nat
    /\ MaxProvisions \in Nat /\ MaxFaults \in Nat

VARIABLES
    clock,       \* the wall clock, from 1
    mailbox,     \* recovery-request.json
    store,       \* recovery-state.json
    lock,        \* owner of recovery.lock
    worker,      \* the recovery worker thread of the service
    admin,       \* a `trust-recovery-key` command line
    ui,          \* per session: DeviceApp's recovery fields
    nextId,      \* the next fresh request id (Uuid::new_v4)
    provisions,  \* provisionings started, for MaxProvisions
    faults,      \* crashes and failed writes, for MaxFaults
    granted,     \* history: [id, counter] of every request accepted durably
    released,    \* history: request ids a session was released for
    wiped        \* history: request ids whose receipt a provisioning erased

disk    == <<mailbox, store>>
bounds  == <<nextId, provisions, faults>>
history == <<granted, released, wiped>>
vars    == <<clock, disk, lock, worker, admin, ui, bounds, history>>

-----------------------------------------------------------------------------
Token     == [signer : Keys \cup {NoKey}, device : Devices,
              counter : Nat, expires : Nat]
NoToken   == [signer |-> NoKey, device |-> ThisDevice,
              counter |-> 0, expires |-> 0]
Request   == [id : Nat, token : Token]
NoRequest == [id |-> 0, token |-> NoToken]

Receipt   == [id : Nat, accepted : BOOLEAN, expires : Nat]
NoReceipt == [id |-> 0, accepted |-> FALSE, expires |-> 0]
Document  == [key : Keys \cup {NoKey}, counter : Nat, receipt : Receipt]
NoState   == [key |-> NoKey, counter |-> 0, receipt |-> NoReceipt]

WorkerIdle == [pc |-> "idle", request |-> NoRequest, now |-> 0, state |-> NoState]
WorkerDown == [WorkerIdle EXCEPT !.pc = "down"]
AdminIdle  == [pc |-> "idle", key |-> NoKey, counter |-> 0]
UiFresh    == [pc |-> "idle", request |-> NoRequest, started |-> 0,
               fails |-> 0, until |-> 0, locked |-> TRUE]

Strong(key) == key \in Keys \ WeakKeys

(* verify_unlock: the signature is checked before any field is read, and    *)
(* the counter must exceed the last one accepted.                           *)
Genuine(token, key, device, now) ==
    /\ token.signer = key
    /\ token.device = device
    /\ token.expires > now

(* Mutant: the last accepted counter passes again. *)
VerifiedOffByOne(token, key, device, now, lastCounter) ==
    Genuine(token, key, device, now) /\ token.counter >= lastCounter

(* Mutant: there is no replay check. *)
VerifiedAnyCounter(token, key, device, now, lastCounter) ==
    Genuine(token, key, device, now)

Verified(token, key, device, now, lastCounter) ==
    Genuine(token, key, device, now) /\ token.counter > lastCounter

-----------------------------------------------------------------------------
Init ==
    /\ clock = 1
    /\ mailbox = NoRequest
    /\ store \in {NoState} \cup {[NoState EXCEPT !.key = k] : k \in Keys \ WeakKeys}
    /\ lock = "free"
    /\ worker = WorkerIdle
    /\ admin = AdminIdle
    /\ ui = [s \in Sessions |-> UiFresh]
    /\ nextId = 1
    /\ provisions = 0
    /\ faults = 0
    /\ granted = {}
    /\ released = {}
    /\ wiped = {}

(* Bound: the clock stops short of leaving a session no time to time out.   *)
Tick ==
    /\ clock < MaxTime
    /\ \A s \in Sessions : ui[s].pc = "writing" => clock + UiTimeout + 1 < MaxTime
    /\ clock' = clock + 1
    /\ UNCHANGED <<disk, lock, worker, admin, ui, bounds, history>>

-----------------------------------------------------------------------------
(* A lock-screen session.                                                   *)

(* recovery_refused doubles the wait from the FailureLimit-th refusal on.   *)
Doubling == <<1, 2, 4, 8, 16, 32>>

RefusedCount(u) == u.fails + 1

RefusedUntil(u) ==
    LET n == RefusedCount(u)
    IN  IF n < FailureLimit THEN u.until
        ELSE clock + BackoffUnit
                     * Doubling[1 + (IF n - FailureLimit < 5 THEN n - FailureLimit ELSE 5)]

Refuse(u) == [u EXCEPT !.pc = "idle", !.request = NoRequest, !.started = 0,
                       !.fails = RefusedCount(u), !.until = RefusedUntil(u)]

(* try_recovery_unlock returns early while a request is pending and while   *)
(* the back-off runs; `until` 0 is None.                                    *)
MayTry(s) ==
    /\ ui[s].locked
    /\ ui[s].pc = "idle"
    /\ ui[s].until = 0 \/ ui[s].until < clock

(* The input has no token prefix or is too long: refused without a request. *)
RefuseInput(s) ==
    /\ MayTry(s)
    /\ ui[s].fails < FailureLimit              \* bound
    /\ ui' = [ui EXCEPT ![s] = Refuse(@)]
    /\ UNCHANGED <<clock, disk, lock, worker, admin, bounds, history>>

(* Opening the mailbox truncates it before anything is written.             *)
OpenMailbox(s, token) ==
    /\ MayTry(s)
    /\ nextId <= MaxRequests
    /\ clock + UiTimeout < MaxTime             \* the wait fits the horizon
    /\ mailbox' = NoRequest
    /\ nextId' = nextId + 1
    /\ ui' = [ui EXCEPT ![s] = [@ EXCEPT !.pc = "writing",
                                         !.request = [id |-> nextId, token |-> token]]]
    /\ UNCHANGED <<clock, store, lock, worker, admin, provisions, faults,
                   history>>

(* The bytes land at the start of the file.  Over or beside another         *)
(* session's bytes they may leave something unreadable instead.             *)
WriteMailbox(s) ==
    /\ ui[s].pc = "writing"
    /\ \/ mailbox' = ui[s].request
       \/ /\ \/ mailbox.id # 0
             \/ \E other \in Sessions \ {s} : ui[other].pc = "writing"
          /\ mailbox' = NoRequest
    /\ ui' = [ui EXCEPT ![s] = [@ EXCEPT !.pc = "waiting", !.started = clock]]
    /\ UNCHANGED <<clock, store, lock, worker, admin, bounds, history>>

(* A failed write or flush makes the session give its request up, whatever  *)
(* of it is in the mailbox by then.                                         *)
WriteMailboxFails(s) ==
    /\ ui[s].pc = "writing"
    /\ faults < MaxFaults
    /\ faults' = faults + 1
    /\ mailbox' \in {mailbox, NoRequest, ui[s].request}
    /\ ui' = [ui EXCEPT ![s] = [@ EXCEPT !.pc = "idle", !.request = NoRequest]]
    /\ UNCHANGED <<clock, store, lock, worker, admin, nextId, provisions,
                   history>>

(* Mutant: any fresh receipt answers. *)
AnsweredByAnyone(s) ==
    /\ ui[s].pc = "waiting"
    /\ store.receipt.expires > clock

(* poll_recovery_unlock: the receipt is this session's and still fresh.     *)
Answered(s) ==
    /\ store.receipt.id = ui[s].request.id
    /\ store.receipt.expires > clock

PollAccepted(s) ==
    /\ ui[s].pc = "waiting"
    /\ Answered(s)
    /\ store.receipt.accepted
    /\ ui' = [ui EXCEPT ![s] = [UiFresh EXCEPT !.locked = FALSE]]
    /\ released' = released \cup {ui[s].request.id}
    /\ UNCHANGED <<clock, disk, lock, worker, admin, bounds, granted, wiped>>

PollRefused(s) ==
    /\ ui[s].pc = "waiting"
    /\ Answered(s)
    /\ ~store.receipt.accepted
    /\ ui' = [ui EXCEPT ![s] = Refuse(@)]
    /\ UNCHANGED <<clock, disk, lock, worker, admin, bounds, history>>

GiveUp(s) ==
    /\ ui[s].pc = "waiting"
    /\ clock > ui[s].started + UiTimeout
    /\ ui' = [ui EXCEPT ![s] = [@ EXCEPT !.pc = "idle", !.request = NoRequest,
                                         !.started = 0]]
    /\ UNCHANGED <<clock, disk, lock, worker, admin, bounds, history>>

(* Mutant: a receipt for somebody else suppresses the timeout. *)
PollTimeoutWithoutReceipt(s) == store.receipt.id = 0 /\ GiveUp(s)

PollTimeout(s) == ~Answered(s) /\ GiveUp(s)

(* The device is restricted again: sync_remote_lock_state (see LockScreen). *)
Relock(s) ==
    /\ ~ui[s].locked
    /\ ui' = [ui EXCEPT ![s] = [@ EXCEPT !.locked = TRUE]]
    /\ UNCHANGED <<clock, disk, lock, worker, admin, bounds, history>>

(* The UI process dies and is launched again; it forgets its request.       *)
UiRestart(s) ==
    /\ ui[s] # UiFresh
    /\ faults < MaxFaults
    /\ faults' = faults + 1
    /\ ui' = [ui EXCEPT ![s] = UiFresh]
    /\ UNCHANGED <<clock, disk, lock, worker, admin, nextId, provisions,
                   history>>

-----------------------------------------------------------------------------
(* The service's recovery worker: recovery_service::process, once a second. *)

(* The caller reads `now` before the mailbox is opened, maybe ticks before, *)
(* and the lock is requested only for a readable request.                   *)
WorkerRead ==
    /\ worker.pc = "idle"
    /\ mailbox.id # 0
    /\ \E now \in 1 .. clock :
          worker' = [worker EXCEPT !.pc = "locking", !.request = mailbox, !.now = now]
    /\ UNCHANGED <<clock, disk, lock, admin, ui, bounds, history>>

WorkerLock ==
    /\ worker.pc = "locking"
    /\ lock = "free"
    /\ lock' = "worker"
    /\ worker' = [worker EXCEPT !.pc = "locked"]
    /\ UNCHANGED <<clock, disk, admin, ui, bounds, history>>

(* No state file, or a key the service does not trust.                      *)
CannotDecide == store.key = NoKey \/ ~Strong(store.key)

(* Mutant: an answered request is judged again. *)
NothingToDecideEveryTime == CannotDecide

(* Mutant: a receipt for any request stands for this one. *)
NothingToDecideAfterFirst == CannotDecide \/ store.receipt.id # 0

NothingToDecide == CannotDecide \/ store.receipt.id = worker.request.id

WorkerSkip ==
    /\ worker.pc = "locked"
    /\ NothingToDecide
    /\ lock' = "free"
    /\ worker' = WorkerIdle
    /\ UNCHANGED <<clock, disk, admin, ui, bounds, history>>

WorkerLoad ==
    /\ worker.pc = "locked"
    /\ ~NothingToDecide
    /\ worker' = [worker EXCEPT !.pc = "loaded", !.state = store]
    /\ UNCHANGED <<clock, disk, lock, admin, ui, bounds, history>>

Accepts(w) == Verified(w.request.token, w.state.key, ThisDevice, w.now, w.state.counter)

Judged(w, counter, expires) ==
    [key |-> w.state.key, counter |-> counter,
     receipt |-> [id |-> w.request.id, accepted |-> Accepts(w), expires |-> expires]]

(* Mutant: the receipt is written without the counter. *)
DecisionKeepsCounter(w) == Judged(w, w.state.counter, w.now + ReceiptLife)

Decision(w) ==
    Judged(w, IF Accepts(w) THEN w.request.token.counter ELSE w.state.counter,
           w.now + ReceiptLife)

(* Counter and receipt are replaced together, by one rename.                *)
WorkerCommit ==
    /\ worker.pc = "loaded"
    /\ store' = Decision(worker)
    /\ granted' = IF Accepts(worker)
                  THEN granted \cup {[id      |-> worker.request.id,
                                      counter |-> worker.request.token.counter]}
                  ELSE granted
    /\ lock' = "free"
    /\ worker' = WorkerIdle
    /\ UNCHANGED <<clock, mailbox, admin, ui, bounds, released, wiped>>

(* write_json fails before the rename: the previous document stays.         *)
WorkerCommitFails ==
    /\ worker.pc = "loaded"
    /\ faults < MaxFaults
    /\ faults' = faults + 1
    /\ lock' = "free"
    /\ worker' = WorkerIdle
    /\ UNCHANGED <<clock, disk, admin, ui, nextId, provisions, history>>

(* The service dies anywhere; the system frees its file lock.               *)
ServiceCrash ==
    /\ worker.pc # "down"
    /\ faults < MaxFaults
    /\ faults' = faults + 1
    /\ lock' = IF worker.pc \in {"locked", "loaded"} THEN "free" ELSE lock
    /\ worker' = WorkerDown
    /\ UNCHANGED <<clock, disk, admin, ui, nextId, provisions, history>>

ServiceStart ==
    /\ worker.pc = "down"
    /\ worker' = WorkerIdle
    /\ UNCHANGED <<clock, disk, lock, admin, ui, bounds, history>>

-----------------------------------------------------------------------------
(* recovery_service::provision, run by an administrator's command line.     *)

ProvisionStart(k) ==
    /\ admin.pc = "idle"
    /\ Strong(k)
    /\ provisions < MaxProvisions
    /\ provisions' = provisions + 1
    /\ admin' = [admin EXCEPT !.pc = "locking", !.key = k]
    /\ UNCHANGED <<clock, disk, lock, worker, ui, nextId, faults, history>>

TakeLock ==
    /\ admin.pc = "locking"
    /\ lock' = "admin"
    /\ admin' = [admin EXCEPT !.pc = "locked"]
    /\ UNCHANGED <<clock, disk, worker, ui, bounds, history>>

(* Mutant: the state is read without waiting for the lock. *)
ProvisionLockUnheld == TakeLock

ProvisionLock == lock = "free" /\ TakeLock

(* A missing document counts as counter 0.                                  *)
ProvisionLoad ==
    /\ admin.pc = "locked"
    /\ admin' = [admin EXCEPT !.pc = "loaded", !.counter = store.counter]
    /\ UNCHANGED <<clock, disk, lock, worker, ui, bounds, history>>

(* The new key keeps the counter and drops the receipt.                     *)
ProvisionCommit ==
    /\ admin.pc = "loaded"
    /\ store' = [key |-> admin.key, counter |-> admin.counter, receipt |-> NoReceipt]
    /\ wiped' = IF store.receipt.id = 0 THEN wiped ELSE wiped \cup {store.receipt.id}
    /\ lock' = "free"
    /\ admin' = AdminIdle
    /\ UNCHANGED <<clock, mailbox, worker, ui, bounds, granted, released>>

(* The command fails or is killed while it holds the lock.                  *)
ProvisionAborts ==
    /\ admin.pc \in {"locked", "loaded"}
    /\ faults < MaxFaults
    /\ faults' = faults + 1
    /\ lock' = "free"
    /\ admin' = AdminIdle
    /\ UNCHANGED <<clock, disk, worker, ui, nextId, provisions, history>>

-----------------------------------------------------------------------------
Session(s) ==
    \/ RefuseInput(s)
    \/ \E token \in Tokens : OpenMailbox(s, token)
    \/ WriteMailbox(s)
    \/ WriteMailboxFails(s)
    \/ PollAccepted(s)
    \/ PollRefused(s)
    \/ PollTimeout(s)
    \/ Relock(s)
    \/ UiRestart(s)

Worker ==
    \/ WorkerRead
    \/ WorkerLock
    \/ WorkerSkip
    \/ WorkerLoad
    \/ WorkerCommit
    \/ WorkerCommitFails
    \/ ServiceCrash
    \/ ServiceStart

Administrator ==
    \/ \E k \in Keys : ProvisionStart(k)
    \/ ProvisionLock
    \/ ProvisionLoad
    \/ ProvisionCommit
    \/ ProvisionAborts

Next ==
    \/ Tick
    \/ \E s \in Sessions : Session(s)
    \/ Worker
    \/ Administrator

Spec == Init /\ [][Next]_vars

-----------------------------------------------------------------------------
(* Type invariant. *)

WorkerType == [pc : {"down", "idle", "locking", "locked", "loaded"},
               request : Request, now : Nat, state : Document]
AdminType  == [pc : {"idle", "locking", "locked", "loaded"},
               key : Keys \cup {NoKey}, counter : Nat]
UiType     == [pc : {"idle", "writing", "waiting"}, request : Request,
               started : Nat, fails : Nat, until : Nat, locked : BOOLEAN]

TypeOK ==
    /\ clock \in Nat
    /\ mailbox \in Request
    /\ store \in Document
    /\ lock \in {"free", "worker", "admin"}
    /\ worker \in WorkerType
    /\ admin \in AdminType
    /\ ui \in [Sessions -> UiType]
    /\ nextId \in Nat \ {0}
    /\ provisions \in Nat
    /\ faults \in Nat
    /\ granted \subseteq [id : Nat, counter : Nat]
    /\ released \subseteq Nat
    /\ wiped \subseteq Nat

-----------------------------------------------------------------------------
(* Safety. *)

(* The consumed counter never falls: not when a key rotation and a token    *)
(* race for the state file, not when either dies between its read and its   *)
(* write ("Provision/rotate the public key without resetting the consumed   *)
(* counter").                                                               *)
CounterNeverFalls == [][store'.counter >= store.counter]_store

(* A counter value opens the device once in its whole life, across service  *)
(* restarts, sessions that submit the same token twice, and key rotations.  *)
OneGrantPerCounter ==
    \A g, h \in granted : g.counter = h.counter => g = h

(* A token that was accepted is already spent on disk, so that no crash can *)
(* make it good again ("commits the counter and receipt together").         *)
GrantIsDurable == \A g \in granted : g.counter <= store.counter

(* A session leaves the lock screen through recovery only for a request of  *)
(* its own that the service durably accepted, and for each request once.    *)
ReleaseIsEarned ==
    [][\A s \in Sessions :
          (ui[s].locked /\ ~ui'[s].locked) =>
             /\ ui[s].request.id \notin released
             /\ \E g \in granted : g.id = ui[s].request.id]_vars

(* A session is told "refused" for a request the service had accepted only  *)
(* when a key provisioning erased the receipt in between; the worker, which *)
(* still finds the request in the mailbox, then judges it a second time.    *)
RefusalIsHonest ==
    ((~store.receipt.accepted) /\ (\E g \in granted : g.id = store.receipt.id))
        => store.receipt.id \in wiped

(* A document read under recovery.lock is still the document when it is     *)
(* replaced, whoever else runs: what makes read, verify and write one step. *)
NoStaleCopy ==
    /\ worker.pc = "loaded" => (worker.state = store /\ ~NothingToDecide)
    /\ admin.pc = "loaded" => admin.counter = store.counter

(* The inductive invariant behind the properties above. *)
Active(w) == w.pc \in {"locking", "locked", "loaded"}

GrantedIds == {g.id : g \in granted}

LockOwner ==
    /\ (worker.pc \in {"locked", "loaded"}) <=> (lock = "worker")
    /\ (admin.pc \in {"locked", "loaded"}) <=> (lock = "admin")

Issued(request) == request.id \in 1 .. (nextId - 1) /\ request.token \in Tokens

(* Every id in use was drawn, and no two submissions share one. *)
IdsAreIssued ==
    /\ nextId <= MaxRequests + 1
    /\ mailbox.id # 0 => Issued(mailbox)
    /\ Active(worker) => Issued(worker.request)
    /\ \A g \in granted : g.id \in 1 .. (nextId - 1)
    /\ \A id \in released : id < nextId
    /\ \A s \in Sessions : ui[s].pc # "idle" =>
          Issued(ui[s].request) /\ ui[s].request.id \notin released
    /\ \A s, t \in Sessions :
          (s # t /\ ui[s].pc # "idle" /\ ui[t].pc # "idle")
              => ui[s].request.id # ui[t].request.id

(* What a session is still writing nobody has read. *)
WritingIsUnread ==
    \A s \in Sessions : ui[s].pc = "writing" =>
        /\ ui[s].request.id \notin GrantedIds
        /\ ui[s].request.id # mailbox.id
        /\ Active(worker) => ui[s].request.id # worker.request.id

(* A granted request that can still be read carries its receipt or lost it  *)
(* to a provisioning; one the worker has not read yet is not granted.       *)
GrantedIsAnswered ==
    /\ \A id \in GrantedIds :
          (id = mailbox.id \/ (Active(worker) /\ id = worker.request.id)) =>
              \/ store.receipt.id = id /\ store.receipt.accepted
              \/ id \in wiped
    /\ (Active(worker) /\ mailbox.id # worker.request.id)
          => mailbox.id \notin GrantedIds

ReceiptIsBacked == store.receipt.accepted => store.receipt.id \in GrantedIds

RecoveryInv ==
    /\ TypeOK /\ LockOwner /\ NoStaleCopy
    /\ IdsAreIssued /\ WritingIsUnread
    /\ GrantedIsAnswered /\ ReceiptIsBacked
    /\ OneGrantPerCounter /\ GrantIsDurable /\ RefusalIsHonest

(* The ledger this implements. *)
Ledger == INSTANCE UnlockLedger
    WITH RequestIds <- 1 .. MaxRequests,
         Counters   <- {token.counter : token \in Tokens},
         highest    <- store.counter

ImplementsLedger == Ledger!Init /\ [][Ledger!Next]_(Ledger!ledgerVars)

-----------------------------------------------------------------------------
(* Liveness.  The worker's loop runs while the service is up, the service   *)
(* control manager restarts it, a command line that holds the lock goes on, *)
(* and the clock advances; sessions redraw ten times a second.  Nobody has  *)
(* to submit anything or to provision a key.                                *)
Fairness ==
    /\ WF_vars(Tick)
    /\ WF_vars(WorkerRead) /\ WF_vars(WorkerLock)
    /\ WF_vars(WorkerSkip) /\ WF_vars(WorkerLoad)
    /\ WF_vars(WorkerCommit) /\ WF_vars(ServiceStart)
    /\ WF_vars(ProvisionLoad) /\ WF_vars(ProvisionCommit)
    /\ \A s \in Sessions :
          /\ WF_vars(WriteMailbox(s))
          /\ WF_vars(PollAccepted(s)) /\ WF_vars(PollRefused(s))
          /\ WF_vars(PollTimeout(s))

FairSpec == Spec /\ Fairness

(* A readable request does not rest unanswered in the mailbox of a device   *)
(* with a key: it is answered, or another submission replaces it.           *)
RequestIsJudged ==
    \A id \in 1 .. MaxRequests :
        (mailbox.id = id /\ store.key # NoKey)
            ~> (store.receipt.id = id \/ mailbox.id # id)

(* No session waits for ever: the answer or the timeout frees it to try     *)
(* again, however the service fares.                                        *)
SessionIsFreed ==
    \A s \in Sessions : (ui[s].pc = "waiting") ~> (ui[s].pc = "idle")

=============================================================================
