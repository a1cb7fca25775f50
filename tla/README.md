# Verification of the EMI device agent

TLA+ models of the Windows device agent (`apps/windows-agent`, `crates/emi-core`,
`packaging/windows`), TLC runs that check them on small instances, and TLAPS
proofs of what matters most for every instance. Paths below are relative to the
repository; `WA` stands for `apps/windows-agent/src`, `EC` for
`crates/emi-core/src`, `PK` for `packaging/windows`.

## The system and its parts

The agent is several processes that share files in `%PROGRAMDATA%\EmiDeviceAgent`:
the SYSTEM service, short-lived elevated commands (`init`, `enroll`, `run --once`,
`trust-command-key`, `trust-recovery-key`), and one desktop UI per signed-in user.
They interact through JSON files replaced by rename (`WA/state_store.rs:30`),
through exclusive file locks that the system frees when a process dies (`:14`),
and with an HTTPS backend that the repository does not contain.

| Component | State | Operations | What makes it correct |
|---|---|---|---|
| Offline recovery (`WA/recovery_service.rs`, `WA/ui/lock.rs:109-200`, `EC/recovery.rs`) | `recovery-request.json` (user-writable mailbox), `recovery-state.json` (key, counter, receipt), `recovery.lock`, per UI: pending request, refusals, back-off | provision, process, submit, poll | one unlock per counter, durable grants, no stolen or invented release, every request answered |
| Remote synchronization (`WA/agent/remote_sync.rs`, `WA/command_security.rs`) | `remote-state.json` (lock state and replay ledger), `command.lock`, the keys in memory | check-in, fetch, verify, download, commit, acknowledge | versions and nonces spent once, truthful acknowledgements, retries accepted |
| Enrollment and configuration (`WA/agent/enrollment.rs`, `WA/agent/config.rs`) | `config.json` (token, UUID, trusted keys), `enrollment-status.json`, `api.lock`, `enrollment.lock` | initialize, check-enroll, enroll, clear, trust key | an enrolled device has its credential; a disowned one is not used |
| Main loop and service control (`WA/agent/runner.rs`, `WA/agent/service.rs`) | timers, stop and resume flags, HTTP client, recovery worker thread | enrollment, check-in, health, stop, power event, restart | check-ins keep their period, no resume is lost, the loop goes on |
| Lock screen (`WA/ui/app.rs`, `WA/ui/lock.rs`, `WA/ui/system.rs`, `WA/keyboard_guard.rs`) | remote and enforced lock, override, window, keyboard hook, Task Manager policy | poll, refresh, draw, release, close | a LOCK holds until a release and a release until the next check-in; window, keyboard and policy follow |
| UI launcher (`WA/agent/session_ui.rs`, `WA/single_instance.rs`, `WA/bin/emi-device-ui.rs`) | processes, one named mutex per session | look for the UI, start it with the user's token, create the mutex | one UI per session, eventually one at the console while locked |
| BIOS operations (`WA/ui/panels.rs`, `PK/Manage-BiosPassword.ps1`) | the form, one result channel, a secret file, the firmware's password | stage, elevate, apply, report | one operation at a time, truthful results, secrets removed |
| Blue-screen demo (`WA/bluescreen.rs`) | server thread, `done` | serve, start, drop | started by tests and an example only |
| Payment restriction (`PK/Set-`, `Remove-PaymentRestriction.ps1`) | registry, services, state file | apply layers, remove | removal undoes what was applied |
| Installer (`PK/install.ps1`), Intune scripts | none of their own | sequential | - |
| EMI plan (`EC/lib.rs`) | a plan value | schedule, amounts | agrees with its definition |
| Health and activity log (`WA/agent/health.rs`, `storage.rs`) | diagnostics files | write | best effort |

Hard behaviours: processes interleave on shared files, some under a lock and
some not; every process can die between two steps; writes fail; network calls
are lost, late or answered with anything; wall clock and timers race with
receipts and command expiry. `PROJECT.json` lists every hazard at its line.

## Modules

| Module | What it models |
|---|---|
| `UnlockLedger` | abstract: counters are spent once, in order; a release follows its grant, once |
| `Recovery` | sessions, mailbox, worker, key provisioning, `recovery-state.json`; implements `UnlockLedger` |
| `CommandLedger` | abstract: versions rise, nonces are spent once, by one message |
| `RemoteSync` | check-in and signed commands in several processes, arbitrary backend; implements `CommandLedger` |
| `Enrollment` | the loop's enrollment and check-in passes and every command that rewrites `config.json` |
| `AgentLoop` | the service's timers, flags, client, ways out and restarts |
| `LockPolicy` | abstract: the latest check-in is obeyed unless a token lifted it; what ends a lock |
| `LockScreen` | the frames of one desktop UI, and what it leaves in the registry; implements `LockPolicy` |
| `SessionUi` | all desktop UIs of a device, their mutexes, and the service's launcher |
| `PasswordRequests` | abstract: the firmware's password changes only by a request, once, from the password it names |
| `BiosOperation` | the BIOS panel, its worker threads, the elevated helper and the firmware; implements `PasswordRequests` |
| `<component>Proofs` | theorems about `Recovery`, `RemoteSync`, `Enrollment`, `AgentLoop`, `LockScreen`, `SessionUi`, `BiosOperation` |
| `MC<component>` | constants for TLC |

How they fit together. A recovery token's life is in `Recovery`; `LockScreen`
submits one and sees it accepted or not. A check-in's effect on
`remote-state.json` is in `RemoteSync`; `LockScreen` and `SessionUi` see check-ins
that lock or open. What an enrollment check does to credentials is in
`Enrollment`; `AgentLoop` sees it succeed, fail or find the device disowned, and
says when it happens. Each cut keeps every outcome the other side can produce,
in any order.

### Recovery

`store` is `recovery-state.json`, `mailbox` is `recovery-request.json`, `lock` is
`recovery.lock`. A session opens (truncates) the mailbox and writes it in two
steps (`OpenMailbox`, `WriteMailbox`), so two sessions can mix their bytes; what
cannot be parsed is a missing request. The worker takes the time first, then reads
the mailbox (`WorkerRead`, with any time up to the present), takes the lock, reads the document, judges the token and replaces the
document (`WorkerLock`, `WorkerLoad`, `WorkerCommit`); the
administrator's command does the same (`Provision*`). `WorkerCommit` writes
counter and receipt together, as the rename does. Crashes, failed writes and UI
restarts are actions of their own. Signatures are ideal: a token names its signer.

### RemoteSync

`store` is `remote-state.json`. The steps of `synchronize_remote_state` are the
positions of `proc[p].pc`; all run under `command.lock`. The backend answers any
command of `Commands` and any patch of `Patches`, at any time, also old,
substituted and re-signed ones. A message (`canonical_patch_message`) stands for
its digest. A patch names the key that signed it and the command it was signed
for. `GiveUp` stands for every early return before the patch is judged.
`trust_command_key` and every command that initializes read `config.json` and write
it back without `command.lock`: `TrustCommandKey` adds its key to any set of keys
the file has held, and `RewriteConfig` puts any of those sets back (`held`).

### Enrollment

A credential is the number of the enrollment that issued it. `initialize` reads
and writes in two steps and takes no lock, in every command; `trust_command_key`
writes once more. A pass of the loop holds `api.lock` from `BeginPass` to
`EndPass`, and `enrollment.lock` within it. The service also re-reads the
configuration every second (`RereadConfig`). `confirmed` is a positive
`enrollment-status.json` less than 60 s old. `causes` records, as history and
for each credential, what happened to it: the answer with it was lost, clearing
it failed, a command wrote over it (`erased`) or put it back (`restored`). A
property about one credential is excused only by what happened to that one.

### AgentLoop

A pass is the sequence of `svc.pc`: flags, health (written and renamed in two
steps, which a one-shot run in another process can come between), `api.lock` and
`config.json`, enrollment check, check-in, sleep. `due` holds what is left of the
three timers; a tick is the check-in period and falls between passes. A
`PowerEvent` or a `ControlStop` of the service control handler can arrive between
any two steps. An error leaves `run`, and the service control manager starts the
process again.

`server` is what the server says of the device (`enrolled`, `pending`, `absent`) or
that it cannot be reached (`down`), `disk` the credential in `config.json`, `fresh`
the time left of a positive `enrollment-status.json`. `CheckSucceeds` and
`CheckFails` are the outcomes of `check_or_enroll_config`: a check fails without an
answer, with an answer the device cannot use (enrolled without a local credential,
or not enrolled), and, as a fault, for a local reason with the server reachable
(serial, lock, configuration, client, a credential that cannot be cleared or
written). All of them drop the client (`WA/agent/runner.rs:83-98`). A one-shot run
does the same check (`RunEnrolls`), and any command writes an old `config.json` back
(`RunRewrites`). The device is `Served` while the server has it enrolled and a
credential is on disk; silence is counted only then.

### LockScreen

A frame is `Poll`, `Sync`, `Draw`; the service's `CheckIn` can come between them.
`ui` has the fields of `DeviceApp` the lock is computed from, `Locked(ui)` is
`blue_screen_active`. `Release` reads `remote-state.json` a second time, as
`unlock_released` does, and may fail to. `writers` are the detached threads that set
`DisableTaskMgr`: any of them may finish first. `hook` is the low-level keyboard
hook, installed by a thread that starts with the process and may fail. `causes`
says, as history, why the thread of the *last* change of the policy did not
have the last word; the next change starts it afresh. `LockPolicy` sees of all
this only whether the UI runs, whether a remote lock holds it, the check-in it took
up and those a token lifted. Enforced mode is not part of the policy: what the code
does with it contradicts its documentation (`lock_screen_enforced`).

### SessionUi

A process is a slot with its session, its integrity and whether it holds a handle
of the mutex. `acl` is the mutex itself: which token made it, as long as a handle
is open. A launch that finds the mutex leaves; one that may not open it, because
an elevated process made it, is refused and leaves too; a failure of the call
itself lets the process show its screen without a handle (`failed` remembers it).
The service looks for a process in the console session and starts one in two
steps. A service that failed is started again by the service control manager; one
that was stopped stays so until somebody starts it (`StartsAgain`, without fairness).

### BiosOperation

An operation is a record: its worker thread, the outer process with its UAC
prompt and helper, the secret file, what the firmware did and what the user is
told. The worker writes the secret file (`Stage`) and starts the outer process
(`Spawn`) in two steps, and the UI may die between them. Both deletions of the
file, the worker's (`WA/ui/panels.rs:512`) and the helper's
(`PK/Manage-BiosPassword.ps1:144`), ignore their outcome: `Removes` is the deletion
or, as a fault, none, and `kept` remembers whose failed. Killing the outer process
alone leaves the helper at work (`OuterKilled`). `Settled` forgets an operation nothing is left of. `form` carries one
password per field; the second copy of the new one is compared before anything
is tried and is left out. The firmware accepts only the password it holds and
may refuse for reasons of its own. The other buttons, which share the result
channel and hand over no secret, are the mode `Other`. For `PasswordRequests` an
operation asks for something from the click until its helper has done it, or can
no longer do it (`Asked`).

## Runs

| Run | Checks | Shows |
|---|---|---|
| `recovery` | 4 invariants, `ReleaseIsEarned`, refinement | no interleaving, crash or rotation opens the device twice for a counter |
| `recovery_live` | `RequestIsJudged`, `SessionIsFreed` | no request and no session is left waiting |
| `remote_sync` | 5 invariants, refinement | the ledger holds against any backend; acknowledgements are true; retries pass |
| `enrollment` | 3 invariants, `OnlyDisownedIsErased`, `EnrollmentConverges`, `ApiLockIsFreed` | only the loss of its own credential, by a lost enroll answer or an unlocked rewrite, strands a device; a PENDING serial is enrolled in the end |
| `enrollment_rewrite` (violation) | `EnrollmentIsPreserved` | without any fault, a command started during an enrollment erases its token (`WA/agent/config.rs:67`) |
| `enrollment_stale` (violation) | `NoCheckInOnceDisowned` | after a failed clear the next pass adopts the disowned token again (`WA/agent/runner.rs:70`) |
| `agent_loop` | 3 invariants, `CheckInsGoOn` | a served device checks in within its period, later by one enrollment period for each check that failed and by nothing else; no resume is lost; a device that stays served goes on checking in |
| `lock_screen` | 4 invariants, `ReleaseHolds`, refinement, `ScreenFollowsDisk` | no order of check-ins, releases, restarts and late threads leaves a lock unobeyed, undoes a release, or forgets the window and the keyboard |
| `lock_screen_enforced` (violation) | `EnforcedUntilToken` | a LOCK and an UNLOCK of the administrator end the enforced mode of a restricted user (`WA/ui/lock.rs:63`), which `docs/security.md:17` does not list among its releases |
| `session_ui` | 2 invariants, `LockReachesConsole` | racing launches leave one screen per session; a locked device gets one at its console |
| `bios_operation` | 4 invariants, refinement, `OperationEnds` | one operation at a time, a truthful result, a firmware changed only as asked, a secret file that is left behind only if each of its two deletions is missed or fails; every operation is over in the end and its result shown |
| `bios_account` (violation) | `ApprovedIsTried` | an operation approved with another administrator's account always fails (`PK/Manage-BiosPassword.ps1:31`), contrary to `docs/security.md:11` |

Each `...Inv` is the inductive invariant of its module, with the types as its
first conjunct. Three properties that follow from checked ones are stated and
proved but are no runs of their own: `NoStaleCopy` and `HandoffFits`
are conjuncts of `RecoveryInv` and `BiosInv`, and `CounterNeverFalls` follows
from `ImplementsLedger`. Every cfg but `MCAgentLoop.cfg` says
`CHECK_DEADLOCK FALSE`: the bounds on requests, launches, starts and operations
end every behaviour. The main loop has no such end, and deadlock is checked.

Bounds. `recovery`: two sessions suffice for every conflict about one mailbox,
since a step of a session depends on the mailbox, on its own record and on whether
somebody else is writing. Two requests give a token and its replay, or two tokens;
one provisioning and one fault give a rotation and a crash at every point. Time
units are scaled down so that a receipt outlives the session's wait by one tick
and a token may expire in between (30 s, 30 s and five refusals in the code).
`remote_sync`: two processes are those of the code that synchronize (service,
one-shot command); the commands and patches of `MCRemoteSync` include a
successor, an equal-version substitution, a reused nonce, a retired key and a
refused action. `enrollment`: the service beside any command, with two resets,
two launches and two faults: two generations of credentials, so that one may be
lost while a command still carries the one before or none, and a reset falls
into an enrollment. `agent_loop`: a tick is a minute and
the long period five, as in the code; two tokens give a replacement; the server may
change at any step; one fault brings every local failure and crash once, after or
before failures for want of an answer, which are no faults and have no bound. `lock_screen`: three check-ins give a lock, a release in
between and a lock again; two starts a restart with threads of the first still
running. `session_ui`: three processes in two sessions give two that race and a
third that comes when one of them is gone. `bios_operation`: two operations are
enough for an overlap, and one fault for a kill, an early end or a failed deletion
at every point (a declined prompt and a closed UI are none, so that the other
deletion may be missing too); with a single password every field is filled or empty,
and the firmware can hold the password or none. The modes that may be
applied are the two that change whether there is a password; all three can be
selected and filled, and the proofs are for any of them. `lock_screen_enforced` needs
one start and two check-ins.

Fairness. `recovery_live`: the worker's loop runs every second
(`WA/agent/runner.rs:149-161`) and the UI polls every 100 ms; a lock is a
blocking file lock whose other users hold it for a bounded time, the service is
restarted by the service control manager (`PK/install.ps1:123-124`), and the
clock advances. Nobody is forced to submit or to rotate keys. `enrollment`: a
running process goes on because every HTTP call is bounded by 10 s and 30 s
(`WA/agent_api.rs:184-186`), the service is restarted, and its five-minute timer
makes it enter enrollment again and again (strong fairness of `BeginEnrollment`,
whose guard needs a lock that others take in turn). `agent_loop`: the loop runs,
time passes (strongly fair, since a tick is possible only between passes), and a
failed service, but not a stopped one, is started again. `lock_screen`: a running
UI asks for a repaint after 100 ms or 2 s, and every 2 s a frame reads the file,
which is readable again and again (strong fairness of `SyncRead`); no fairness of
check-ins, submissions or registry threads. `session_ui`: processes run, the
launcher looks every 15 s and a service that failed is restarted; nobody is forced to sign
in or to dismiss a message box. `bios_operation`: threads and processes run, a
UAC prompt ends by itself, the OEM tools end, and a frame polls the channel
again and again while the screen is open (strong fairness of `Poll`);
`OperationEnds` assumes besides that the screen is not left locked for ever.

### What the violations say

`enrollment_rewrite`, `enrollment_stale`: `initialize` and `trust_command_key`
rewrite `config.json` outside the locks that protect its credentials, and a
credential that could not be cleared is taken from the disk again.
`lock_screen_enforced`: the end of a remote lock (`WA/ui/app.rs:188-191`) is
`end_blue_screen`, which clears the enforced mode of the session as well; a comment
there (`WA/ui/lock.rs:59-62`) says so, and that the next login restores it.
`bios_account`: the helper accepts a secret file only under the temporary
directory of the account it runs in, and the UI writes it to its own.

A fifth disagreement is in a passing run. `README.md:42` has an enrolled service check
in every 60 seconds; a failed enrollment check drops the client until the next one, up
to five minutes later, although the server may be back at once. `CheckInIsTimely`
states the bound the code does keep: one enrollment period for each failed check.

## Proofs

Seven modules prove, for every value of the constants that satisfies the
assumption of the component, every safety property the passing runs check. Each
one follows the same line: no property is inductive as it stands, so the
component's module defines an inductive invariant, TLC checks it in the run, and
the proof shows that `Init` implies it, that each action preserves it (one lemma
per action or group of actions, one step per conjunct that can be disturbed),
and that it implies the property.

- `RecoveryInv`: a worker about to commit must know that the counter it compared
  is still the one on disk. `recovery.lock` has one owner (`LockOwner`), its
  owner's copy is current (`NoStaleCopy`), request ids in use are distinct and
  unspent (`IdsAreIssued`, `WritingIsUnread`), and a granted request still
  readable carries its receipt or lost it to a rotation (`GrantedIsAnswered`,
  `ReceiptIsBacked`). `RecoveryImplementsLedger` is the refinement.
- `RemoteInv`: what each position of a synchronization promises (its ledger is the
  one on disk, what was judged is still fresh), and that the ledger on disk
  accounts for every applied message. While one process is past the lock the
  others promise nothing, and a commit spends a new version or repeats the
  newest one (`CommitEffect`). `RemoteImplementsLedger` is the refinement.
- `EnrollmentInv`: a process in its pass holds `api.lock`; a credential in memory
  or on disk was issued; what `config.json` holds is the server's credential or a
  cause recorded for that very credential says why not, at every position between
  the enroll call and the write; a disowned credential that was cleared stays
  cleared unless something brought it back; a pass reads what the one before it
  found out. `CredentialsAreNotLost` adds the step: a credential leaves the disk
  by a negative answer or by a rewrite, and by nothing else.
- `AgentLoopInv`: the silence of a served device is counted from its last check-in,
  and once that is due, against what the failed checks have used up of their
  enrollment periods (`SilenceIsTimed`, `Spent`); a client is missing only after a
  failed check, or with the credential (`ClientIsKept`); with the device served a
  check fails for a local reason only (`FailureIsLocal`); a noted resume is kept
  until a pass takes it and has served it.
- `LockScreenInv`: the override is a check-in a token released, a released one is
  not locked again, the window was started for exactly what is locked, the
  keyboard follows, and what the Task Manager policy will be once the last
  thread is done (`Wanted`) is what the UI last asked for, without a recorded
  cause since. `ReleaseHolds` follows from it by a case per action, and so does
  `LockScreenImplementsPolicy`: every frame is one step of the policy or none.
  A token that meets an unreadable file lifts nothing: `LockPolicy` has that step too,
  since the code does not remember which check-in was released.
- `SessionUiInv`: a handle implies a mutex, one process past the check holds it, one
  that got past without it had its own call fail (`PastHolds`), and one that has
  not asked yet holds nothing. A redundant process keeps its handle for a while,
  which is why holding and showing are told apart.
- `BiosInv`: what is staged fits its mode until the helper is gone (from the form's
  own invariant `FormFits`), the exit code and the result agree with the
  firmware or a reason says why not, a secret is held by a process that will delete
  it or each deletion it missed has its reason (`SecretIsHeld`), a running helper is watched by a worker or lost, and a new operation
  begins only when every earlier one is over for this process (`OneByOne`).
  `BiosImplementsRequests` needs that a helper's decrypted request is the one that
  was staged, so that what it applies is what was asked.

The four refinements tell what the invariants cannot: which step changes the
abstract state, and from what. Their mappings are functions of the concrete state
and of the history variables each module declares beside the code's own.

Model-checked only: the liveness properties (`RequestIsJudged`,
`SessionIsFreed`, `EnrollmentConverges`, `ApiLockIsFreed`, `CheckInsGoOn`,
`ScreenFollowsDisk`, `LockReachesConsole`, `OperationEnds`), which need fairness
and `ENABLED`. Everything else the passing runs check is proved too.

## Not modelled

- Enrollment: the backup of an unreadable configuration, the `ui-config.json`
  mirror, and the choice of the device id at a first start, which happens once,
  from the installer.
- Lock screen: `bluescreen`, `manual_lock` and `keyboard_disabled` of `DeviceApp`,
  which only tests ever set; drawing; the read-only tabs.
- Blue-screen demo server: only tests and an example start a `BluescreenSession`.
- EMI plan (`EC/lib.rs`): a pure data type that no part of the agent uses.
- BIOS panel: progress texts, the vendors' dialects, what the adapter script downloads.
- Payment restriction, installer and Intune scripts: run once, by hand or by a
  management tool, in sequence, with no second actor. What the installer leaves
  behind (service recovery actions, an elevated first launch, the mailbox file)
  is assumed where the models need it.
- Health content and the activity log: diagnostics no decision reads; only the
  two-step write of `health.json` matters, and is in `AgentLoop`.
- Pure input and output: HTTP encoding, PowerShell queries, egui layout.
  Cryptography is ideal: a signature names its key, a digest its message.

Five hazards in `PROJECT.json` have no property, each with the reason in its note:
the backend may replace a pending command between check-in and patch request, a
rotated command key is used only after the next reload of `config.json`, two first
initializations may choose two device ids, a release that cannot read
`remote-state.json` does not know which check-in it lifts, and the payment
restriction writes its record last. `LockReachesConsole` excuses a message box
nobody dismisses. That an unlocked rewrite may undo a trusted command key is in
`RemoteSync` (`RewriteConfig`), where no property promises the contrary; for
credentials `enrollment_rewrite` shows the same race.
