-------------------------- MODULE RemoteSyncProofs --------------------------
(***************************************************************************)
(* Proofs about RemoteSync, for all processes, keys, commands and patches. *)
(***************************************************************************)
EXTENDS RemoteSync, TLAPS

(* The ledger of a new device and an idle process are well formed.          *)
LEMMA LedgerTypes ==
    /\ NoLedger \in Ledgers
    /\ \A keys \in SUBSET Keys : Idle(keys) \in ProcType
<1>1. NoLedger \in Ledgers
  BY DEF NoLedger, Ledgers
<1> QED
  BY <1>1 DEF Idle, ProcType

(* The message of a pending command and a patch, and the ledger that spends *)
(* it, are well formed.                                                     *)
LEMMA SpentType ==
    ASSUME NEW c \in Commands, NEW q \in Patches, NEW ledger \in Ledgers
    PROVE  /\ Message(c, q) \in Messages
           /\ Spent(ledger, Message(c, q)) \in Ledgers
<1>1. Message(c, q) \in Messages
  BY DEF Messages
<1>2. Message(c, q).version \in Nat /\ Message(c, q).nonce \in STRING
  BY RemoteAssumption DEF Message
<1>3. ledger.nonces \cup {Message(c, q).nonce} \in SUBSET STRING
  BY <1>2 DEF Ledgers
<1> QED
  BY <1>1, <1>2, <1>3 DEF Spent, Ledgers

(* Every step keeps the types, a commit only because its command and patch  *)
(* are present.                                                             *)
LEMMA StepKeepsTypes ==
    ASSUME TypeOK, JudgedIsFresh, NEW p \in Processes, Step(p)
    PROVE  TypeOK'
<1> USE LedgerTypes DEF TypeOK
<1> DEFINE q == proc[p]
<1>0. q \in ProcType
  OBVIOUS
<1>a. ASSUME NEW r \in ProcType, proc' = [proc EXCEPT ![p] = r]
      PROVE  proc' \in [Processes -> ProcType]
  BY <1>a
<1> HIDE DEF q
<1>1. CASE ReloadKeys(p)
  <2>1. [q EXCEPT !.keys = trusted] \in ProcType
    BY <1>0 DEF ProcType
  <2> QED BY <1>1, <1>a, <2>1 DEF ReloadKeys, q
<1>2. CASE StartSync(p)
  <2>1. [q EXCEPT !.pc = "asking"] \in ProcType
    BY <1>0 DEF ProcType
  <2> QED BY <1>2, <1>a, <2>1 DEF StartSync, EnterSync, q
<1>3. CASE CheckIn(p)
  <2>1. PICK state \in LockStates, command \in Commands \cup {NoCommand},
             time \in {clock, clock + Skew} :
          proc' = [proc EXCEPT ![p] = [@ EXCEPT !.pc = "answered", !.lockState = state,
                                                !.command = command, !.time = time]]
    BY <1>3 DEF CheckIn
  <2>2. time \in Nat
    BY RemoteAssumption
  <2>3. [q EXCEPT !.pc = "answered", !.lockState = state, !.command = command,
                  !.time = time] \in ProcType
    BY <1>0, <2>2 DEF ProcType
  <2> QED BY <1>3, <1>a, <2>1, <2>3 DEF CheckIn, q
<1>4. CASE LoadSecurity(p)
  <2>1. [q EXCEPT !.pc = "loaded", !.security = store.security] \in ProcType
    BY <1>0 DEF ProcType, Documents
  <2> QED BY <1>4, <1>a, <2>1 DEF LoadSecurity, q
<1>b. ASSUME Release(p) PROVE /\ proc' \in [Processes -> ProcType]
                              /\ lock' \in Processes \cup {Nobody}
  <2>1. q.keys \in SUBSET Keys
    BY <1>0 DEF ProcType
  <2> QED BY <1>a, <1>b, <2>1 DEF Release, q
<1>5. CASE PersistCheckIn(p)
  <2>1. store' \in Documents
    BY <1>0, <1>5 DEF PersistCheckIn, CheckInDocument, Documents, ProcType, q
  <2>2. [q EXCEPT !.pc = "persisted"] \in ProcType
    BY <1>0 DEF ProcType
  <2>3. proc' \in [Processes -> ProcType] /\ lock' \in Processes \cup {Nobody}
    BY <1>5, <1>a, <1>b, <2>2 DEF PersistCheckIn, q
  <2> QED BY <1>5, <2>1, <2>3 DEF PersistCheckIn
<1>6. CASE GiveUp(p)
  BY <1>6, <1>b DEF GiveUp
<1>7. CASE FetchPatch(p)
  <2>1. PICK patch \in Patches :
          proc' = [proc EXCEPT ![p] = [@ EXCEPT !.pc = "fetched", !.patch = patch]]
    BY <1>7 DEF FetchPatch
  <2>2. [q EXCEPT !.pc = "fetched", !.patch = patch] \in ProcType
    BY <1>0 DEF ProcType
  <2> QED BY <1>7, <1>a, <2>1, <2>2 DEF FetchPatch, q
<1>8. \A pc \in {"verified", "refused", "downloaded", "applied"} :
         [q EXCEPT !.pc = pc] \in ProcType
  BY <1>0 DEF ProcType
<1>9. CASE Verify(p) \/ Download(p) \/ DownloadFails(p) \/ RefuseUninstall(p)
           \/ CommitFails(p)
  BY <1>9, <1>8, <1>a DEF Verify, Download, DownloadFails, RefuseUninstall,
     CommitFails, q
<1>10. CASE Commit(p)
  <2>1. q.command \in Commands /\ q.patch \in Patches /\ q.security \in Ledgers
    BY <1>0, <1>10 DEF Commit, JudgedIsFresh, ProcType, q
  <2>2. MessageOf(q) \in Messages /\ NextLedger(q) \in Ledgers
    BY <2>1, SpentType DEF MessageOf, NextLedger
  <2>3. Target(q.command.action) \in LockStates \cup {"none"}
    BY <2>1, RemoteAssumption DEF Target, LockStates, Actions
  <2>4. store' \in Documents
    BY <1>10, <2>2, <2>3 DEF Commit, Documents, q
  <2>5. proc' \in [Processes -> ProcType]
    BY <1>10, <1>8, <1>a DEF Commit, q
  <2>6. applied' \subseteq Messages
    BY <1>10, <2>2 DEF Commit, q
  <2> QED BY <1>10, <2>4, <2>5, <2>6 DEF Commit
<1>11. CASE Acknowledge(p)
  BY <1>11, <1>b DEF Acknowledge
<1>12. CASE Crash(p)
  <2>1. proc' \in [Processes -> ProcType]
    BY <1>12, <1>a DEF Crash
  <2> QED BY <1>12, <2>1 DEF Crash
<1> QED
  BY <1>1, <1>2, <1>3, <1>4, <1>5, <1>6, <1>7, <1>9, <1>10, <1>11, <1>12 DEF Step

-----------------------------------------------------------------------------
(* A step of one process leaves the records of the others alone.            *)
LEMMA OthersStay ==
    ASSUME TypeOK, NEW p \in Processes, Step(p), NEW r \in Processes, r # p
    PROVE  proc'[r] = proc[r]
<1>0. proc \in [Processes -> ProcType]
  BY DEF TypeOK
<1>1. \A q : proc' = [proc EXCEPT ![p] = q] => proc'[r] = proc[r]
  BY <1>0
<1> QED
  BY <1>1 DEF Step, ReloadKeys, StartSync, EnterSync, CheckIn, LoadSecurity,
     PersistCheckIn, GiveUp, Release, FetchPatch, Verify, Download,
     DownloadFails, Commit, RefuseUninstall, CommitFails, Acknowledge, Crash

(* command.lock has one owner, and nobody else is past it.                  *)
LEMMA Alone ==
    ASSUME LockOwner, NEW p \in Processes, proc[p].pc # "idle",
           NEW r \in Processes, r # p
    PROVE  proc[r].pc = "idle"
BY DEF LockOwner, Holding

(* How a step moves its own process: the lock follows it.                   *)
LEMMA LockStep ==
    ASSUME TypeOK, LockOwner, NEW p \in Processes, Step(p)
    PROVE  LockOwner'
<1> USE DEF LockOwner, Holding
<1>0. proc \in [Processes -> ProcType] /\ Nobody \notin Processes
  BY RemoteAssumption DEF TypeOK
<1>1. ASSUME proc'[p].pc # "idle" <=> lock' = p,
             lock' \in {lock, p, Nobody}, lock' = p => lock \in {p, Nobody},
             lock' = Nobody => lock \in {p, Nobody}
      PROVE  LockOwner'
  BY <1>0, <1>1, OthersStay
<1>2. CASE ReloadKeys(p)
  BY <1>0, <1>1, <1>2 DEF ReloadKeys, ProcType
<1>3. CASE StartSync(p)
  BY <1>0, <1>1, <1>3 DEF StartSync, EnterSync, ProcType
<1>4. ASSUME NEW pc \in {"answered", "loaded", "persisted", "fetched", "verified",
                         "refused", "downloaded", "applied"},
             proc[p].pc # "idle", proc'[p].pc = pc, UNCHANGED lock
      PROVE  LockOwner'
  BY <1>0, <1>1, <1>4
<1>5. ASSUME proc[p].pc # "idle", proc'[p].pc = "idle",
             lock' = IF lock = p THEN Nobody ELSE lock
      PROVE  LockOwner'
  BY <1>0, <1>1, <1>5
<1>6. \A keys : Idle(keys).pc = "idle"
  BY DEF Idle
<1>7. Release(p) => /\ proc'[p].pc = "idle"
                    /\ lock' = IF lock = p THEN Nobody ELSE lock
  BY <1>0, <1>6 DEF Release
<1>8. CASE CheckIn(p) \/ LoadSecurity(p) \/ FetchPatch(p)
  BY <1>0, <1>4, <1>8 DEF CheckIn, LoadSecurity, FetchPatch, ProcType
<1>9. CASE PersistCheckIn(p)
  BY <1>0, <1>4, <1>5, <1>7, <1>9 DEF PersistCheckIn, ProcType
<1>10. CASE Verify(p) \/ Download(p) \/ DownloadFails(p)
  BY <1>0, <1>4, <1>10 DEF Verify, Download, DownloadFails, ProcType
<1>11. CASE Commit(p) \/ RefuseUninstall(p) \/ CommitFails(p)
  BY <1>0, <1>4, <1>11 DEF Commit, RefuseUninstall, CommitFails, ProcType
<1>12. CASE GiveUp(p) \/ Acknowledge(p)
  BY <1>5, <1>7, <1>12 DEF GiveUp, Acknowledge
<1>13. CASE Crash(p)
  BY <1>0, <1>5, <1>6, <1>13 DEF Crash
<1> QED
  BY <1>2, <1>3, <1>8, <1>9, <1>10, <1>11, <1>12, <1>13 DEF Step

(* What the current position of a synchronization promises.                 *)
Promise(p) ==
    /\ proc[p].pc = "loaded" => proc[p].security = store.security
    /\ proc[p].pc \in {"persisted", "fetched", "verified", "downloaded", "refused"}
          => store = CheckInDocument(proc[p])
    /\ proc[p].pc \notin {"idle", "asking", "answered", "loaded"}
          => proc[p].command # NoCommand
    /\ proc[p].pc \in {"fetched", "verified", "downloaded"}
          => proc[p].patch # NoPatch
    /\ (proc[p].pc \in {"verified", "downloaded"} /\ proc[p].keys # {})
          => Fresh(MessageOf(proc[p]), proc[p].security)
    /\ proc[p].pc = "applied" =>
          store = [state    |-> Target(proc[p].command.action),
                   security |-> NextLedger(proc[p])]

(* The parts of the invariant that speak of one process, put together.      *)
LEMMA Promises ==
    (\A p \in Processes : Promise(p)) <=>
        CopyIsCurrent /\ JudgedIsFresh /\ AppliedIsOnDisk /\ RefusedLeftNoTrace
BY DEF Promise, CopyIsCurrent, JudgedIsFresh, AppliedIsOnDisk, RefusedLeftNoTrace

(* Each position of a synchronization leads to the next.                    *)
LEMMA OwnPromise ==
    ASSUME TypeOK, NEW p \in Processes, Promise(p), Step(p)
    PROVE  Promise(p)'
<1>0. proc \in [Processes -> ProcType] /\ proc[p] \in ProcType
  BY DEF TypeOK
<1>1. (proc'[p].pc \in {"idle", "asking", "answered"}) => Promise(p)'
  BY DEF Promise
<1>2. \A keys : Idle(keys).pc = "idle"
  BY DEF Idle
<1>3. CASE ReloadKeys(p)
  BY <1>0, <1>1, <1>3 DEF ReloadKeys, ProcType
<1>4. CASE StartSync(p) \/ CheckIn(p)
  <2>1. \A l, c, t : [proc[p] EXCEPT !.pc = "answered", !.lockState = l,
                                     !.command = c, !.time = t].pc = "answered"
    BY <1>0 DEF ProcType
  <2>2. CheckIn(p) => proc'[p].pc = "answered"
    BY <1>0, <2>1 DEF CheckIn
  <2>3. StartSync(p) => proc'[p].pc = "asking"
    BY <1>0 DEF StartSync, EnterSync, ProcType
  <2> QED BY <1>1, <1>4, <2>2, <2>3
<1>5. CASE GiveUp(p) \/ Acknowledge(p) \/ Crash(p)
  BY <1>0, <1>1, <1>2, <1>5 DEF GiveUp, Acknowledge, Crash, Release
<1>6. CASE LoadSecurity(p)
  <2>1. proc'[p].pc = "loaded" /\ proc'[p].security = store'.security
    BY <1>0, <1>6 DEF LoadSecurity, ProcType
  <2> QED BY <2>1 DEF Promise
<1>7. CASE PersistCheckIn(p)
  <2>1. CASE proc[p].command = NoCommand
    BY <1>0, <1>1, <1>2, <1>7, <2>1 DEF PersistCheckIn, Release
  <2>2. CASE proc[p].command # NoCommand
    <3>1. proc'[p] = [proc[p] EXCEPT !.pc = "persisted"]
      BY <1>0, <1>7, <2>2 DEF PersistCheckIn
    <3>2. proc'[p].pc = "persisted" /\ proc'[p].command # NoCommand
      BY <1>0, <2>2, <3>1 DEF ProcType
    <3>3. store' = CheckInDocument(proc[p])
      BY <1>7 DEF PersistCheckIn
    <3>4. CheckInDocument(proc[p]) = CheckInDocument(proc[p])'
      BY <1>0, <3>1 DEF CheckInDocument, ProcType
    <3> QED BY <3>2, <3>3, <3>4 DEF Promise
  <2> QED BY <2>1, <2>2
<1>8. CASE FetchPatch(p)
  <2>1. PICK patch \in Patches :
          proc'[p] = [proc[p] EXCEPT !.pc = "fetched", !.patch = patch]
    BY <1>0, <1>8 DEF FetchPatch
  <2>2. /\ proc[p].pc = "persisted" /\ proc'[p].pc = "fetched"
        /\ proc'[p].patch # NoPatch /\ proc'[p].command = proc[p].command
        /\ proc'[p].lockState = proc[p].lockState
        /\ proc'[p].security = proc[p].security
    BY <1>0, <1>8, <2>1, RemoteAssumption DEF FetchPatch, ProcType
  <2>3. UNCHANGED store
    BY <1>8 DEF FetchPatch
  <2> QED BY <2>2, <2>3 DEF Promise, CheckInDocument
<1>9. ASSUME NEW pc \in {"verified", "refused", "downloaded", "applied"},
             proc' = [proc EXCEPT ![p] = [@ EXCEPT !.pc = pc]]
      PROVE  /\ proc'[p].pc = pc
             /\ proc'[p].command = proc[p].command
             /\ proc'[p].lockState = proc[p].lockState
             /\ proc'[p].security = proc[p].security
             /\ proc'[p].patch = proc[p].patch
             /\ proc'[p].keys = proc[p].keys
  BY <1>0, <1>9 DEF ProcType
<1>10. CASE Verify(p)
  <2>1. CASE proc' = [proc EXCEPT ![p] = [@ EXCEPT !.pc = "refused"]]
    BY <1>9, <1>10, <2>1 DEF Verify, Promise, CheckInDocument
  <2>2. CASE /\ proc' = [proc EXCEPT ![p] = [@ EXCEPT !.pc = "verified"]]
             /\ Verified(proc[p], Later(proc[p].time, clock))
    <3>1. proc[p].keys # {} => Fresh(MessageOf(proc[p]), proc[p].security)
      BY <2>2 DEF Verified
    <3> QED
      BY <1>9, <1>10, <2>2, <3>1 DEF Verify, Promise, CheckInDocument, MessageOf
  <2> QED BY <1>10, <2>1, <2>2 DEF Verify
<1>11. CASE Download(p)
  BY <1>9, <1>11 DEF Download, Promise, CheckInDocument, MessageOf
<1>12. CASE DownloadFails(p) \/ RefuseUninstall(p) \/ CommitFails(p)
  BY <1>9, <1>12 DEF DownloadFails, RefuseUninstall, CommitFails, Promise,
     CheckInDocument
<1>13. CASE Commit(p)
  BY <1>9, <1>13 DEF Commit, Promise, NextLedger, MessageOf
<1> QED
  BY <1>3, <1>4, <1>5, <1>6, <1>7, <1>8, <1>10, <1>11, <1>12, <1>13 DEF Step

(* While one process moves past the lock the others promise nothing; while  *)
(* it does not, nothing they rely on changes.                               *)
LEMMA PromisesStep ==
    ASSUME TypeOK, LockOwner, \A r \in Processes : Promise(r),
           NEW p \in Processes, Step(p)
    PROVE  \A r \in Processes : Promise(r)'
<1> TAKE r \in Processes
<1>1. CASE r = p
  BY <1>1, OwnPromise
<1>2. CASE r # p
  <2>1. proc'[r] = proc[r]
    BY <1>2, OthersStay
  <2>2. CASE proc[p].pc # "idle"
    BY <1>2, <2>1, <2>2, Alone DEF Promise
  <2>3. CASE proc[p].pc = "idle"
    <3>1. UNCHANGED store
      BY <2>3 DEF Step, ReloadKeys, StartSync, EnterSync, CheckIn, LoadSecurity,
         PersistCheckIn, GiveUp, FetchPatch, Verify, Download, DownloadFails,
         Commit, RefuseUninstall, CommitFails, Acknowledge, Crash
    <3> QED
      BY <2>1, <3>1 DEF Promise, CheckInDocument, MessageOf, NextLedger
  <2> QED BY <2>2, <2>3
<1> QED BY <1>1, <1>2

-----------------------------------------------------------------------------
(* A commit of a signed command spends a new version and a new nonce, or it *)
(* repeats the newest message and changes neither ledger nor history.       *)
LEMMA CommitEffect ==
    ASSUME TypeOK, LedgerIsComplete, NEW p \in Processes, Promise(p), Commit(p)
    PROVE  \/ UNCHANGED <<store.security, applied>>
           \/ LET m == MessageOf(proc[p])
              IN  /\ m \in Messages
                  /\ m.version > store.security.version
                  /\ m.nonce \notin store.security.nonces
                  /\ store'.security = Spent(store.security, m)
                  /\ applied' = applied \cup {m}
<1> DEFINE m == MessageOf(proc[p])
<1>1. proc[p].security = store.security
  BY DEF Promise, Commit, CheckInDocument
<1>2. proc[p].command \in Commands /\ proc[p].patch \in Patches
  BY DEF Promise, Commit, TypeOK, ProcType
<1>3. m \in Messages /\ m.command = proc[p].command
  BY <1>2 DEF MessageOf, Message, Messages
<1>4. CASE proc[p].keys = {}
  BY <1>1, <1>4 DEF Commit, NextLedger
<1>5. CASE proc[p].keys # {}
  <2>1. /\ store'.security = Spent(store.security, m)
        /\ applied' = applied \cup {m}
    BY <1>1, <1>5 DEF Commit, NextLedger
  <2>2. Fresh(m, store.security)
    BY <1>1, <1>5 DEF Promise, Commit
  <2>3. CASE ExactRetry(m, store.security)
    <3>1. m = store.security.message /\ m.nonce \in store.security.nonces
      BY <2>3 DEF ExactRetry
    <3>2. m # NoMessage
      <4>1. NoMessage.command \notin Commands
        BY RemoteAssumption DEF NoMessage
      <4> QED BY <1>2, <1>3, <4>1
    <3>3. m \in applied
      BY <3>1, <3>2 DEF LedgerIsComplete
    <3>4. store.security = [version |-> store.security.version,
                            message |-> store.security.message,
                            nonces  |-> store.security.nonces]
      BY DEF TypeOK, Documents, Ledgers
    <3>5. m.version = store.security.version
      BY <2>3 DEF ExactRetry
    <3>6. Spent(store.security, m) = store.security
      BY <3>1, <3>4, <3>5 DEF Spent
    <3> QED BY <2>1, <3>3, <3>6
  <2>4. CASE ~ExactRetry(m, store.security)
    BY <1>3, <2>1, <2>2, <2>4 DEF Fresh
  <2> QED BY <2>3, <2>4
<1> QED BY <1>4, <1>5

(* No other step touches the ledger.                                        *)
LEMMA LedgerFrame ==
    ASSUME TypeOK, \A r \in Processes : Promise(r), [Next]_vars,
           ~\E p \in Processes : Commit(p)
    PROVE  UNCHANGED <<store.security, applied>>
<1>1. CASE UNCHANGED vars \/ Tick \/ RewriteConfig \/ \E k \in Keys : TrustCommandKey(k)
  BY <1>1 DEF vars, Tick, RewriteConfig, TrustCommandKey
<1>2. ASSUME NEW p \in Processes, Step(p) PROVE UNCHANGED <<store.security, applied>>
  <2>1. CASE PersistCheckIn(p)
    BY <2>1 DEF PersistCheckIn, Promise, CheckInDocument
  <2>2. CASE ~PersistCheckIn(p)
    BY <1>2, <2>2 DEF Step, ReloadKeys, StartSync, EnterSync, CheckIn, LoadSecurity,
       GiveUp, FetchPatch, Verify, Download, DownloadFails, RefuseUninstall,
       CommitFails, Acknowledge, Crash
  <2> QED BY <2>1, <2>2
<1> QED BY <1>1, <1>2 DEF Next

(* Every step keeps the ledger on disk complete.                            *)
LEMMA LedgerStep ==
    ASSUME TypeOK, \A r \in Processes : Promise(r), LedgerIsComplete, SignedOnce,
           [Next]_vars
    PROVE  LedgerIsComplete' /\ SignedOnce'
<1>1. CASE UNCHANGED <<store.security, applied>>
  BY <1>1 DEF LedgerIsComplete, SignedOnce
<1>2. ASSUME NEW m \in Messages,
             m.version > store.security.version,
             m.nonce \notin store.security.nonces,
             store'.security = Spent(store.security, m),
             applied' = applied \cup {m}
      PROVE  LedgerIsComplete' /\ SignedOnce'
  <2>1. /\ m.version \in Nat /\ store.security.version \in Nat
        /\ \A a \in applied : a.version \in Nat
    BY RemoteAssumption DEF TypeOK, Documents, Ledgers, Messages, Message
  <2>2. \A a \in applied : a.version < m.version /\ a.nonce # m.nonce
    BY <1>2, <2>1 DEF LedgerIsComplete
  <2>3. SignedOnce'
    BY <1>2, <2>1, <2>2 DEF SignedOnce
  <2>4. /\ store'.security.version = m.version
        /\ store'.security.message = m
        /\ store'.security.nonces = store.security.nonces \cup {m.nonce}
    BY <1>2 DEF Spent
  <2>5. store'.security.nonces = {a.nonce : a \in applied'}
    <3>1. store.security.nonces = {a.nonce : a \in applied}
      BY DEF LedgerIsComplete
    <3> QED BY <1>2, <2>4, <3>1
  <2>6. \A a \in applied' : a.version <= store'.security.version
    BY <1>2, <2>1, <2>2, <2>4
  <2> QED BY <1>2, <2>3, <2>4, <2>5, <2>6 DEF LedgerIsComplete
<1>3. CASE \E p \in Processes : Commit(p)
  BY <1>1, <1>2, <1>3, CommitEffect
<1>4. CASE ~\E p \in Processes : Commit(p)
  BY <1>1, <1>4, LedgerFrame
<1> QED BY <1>3, <1>4

(* The inductive invariant holds at first.                                  *)
LEMMA RemoteInit == Init => RemoteInv
<1> SUFFICES ASSUME Init PROVE RemoteInv
  OBVIOUS
<1> USE DEF Init
<1>1. TypeOK
  BY LedgerTypes DEF TypeOK, Documents
<1>2. \A p \in Processes : proc[p].pc = "idle"
  BY DEF Idle
<1>3. LockOwner
  BY <1>2, RemoteAssumption DEF LockOwner, Holding
<1>4. \A p \in Processes : Promise(p)
  BY <1>2 DEF Promise
<1>5. LedgerIsComplete /\ SignedOnce
  BY DEF LedgerIsComplete, SignedOnce, NoLedger, NoMessage
<1> QED
  BY <1>1, <1>3, <1>4, <1>5, Promises DEF RemoteInv

(* Every step keeps the inductive invariant.                                *)
LEMMA RemoteStep ==
    ASSUME RemoteInv, [Next]_vars
    PROVE  RemoteInv'
<1>1. /\ TypeOK /\ LockOwner /\ JudgedIsFresh /\ LedgerIsComplete /\ SignedOnce
      /\ \A p \in Processes : Promise(p)
  BY Promises DEF RemoteInv
<1>2. LedgerIsComplete' /\ SignedOnce'
  BY <1>1, LedgerStep
<1>3. /\ TypeOK' /\ LockOwner' /\ \A p \in Processes : Promise(p)'
  <2>1. CASE \E p \in Processes : Step(p)
    BY <1>1, <2>1, StepKeepsTypes, LockStep, PromisesStep
  <2>2. ASSUME UNCHANGED <<store, lock, proc, applied>>, clock' \in Nat,
               trusted' \in held', held' \subseteq SUBSET Keys, trusts' \in Nat, faults' \in Nat
        PROVE  TypeOK' /\ LockOwner' /\ \A p \in Processes : Promise(p)'
    BY <1>1, <2>2 DEF TypeOK, LockOwner, Holding, Promise, CheckInDocument,
       MessageOf, NextLedger
  <2>3. CASE UNCHANGED vars \/ Tick
    BY <1>1, <2>2, <2>3 DEF vars, Tick, TypeOK
  <2>5. CASE RewriteConfig
    BY <1>1, <2>2, <2>5 DEF RewriteConfig, TypeOK
  <2>4. ASSUME NEW k \in Keys, TrustCommandKey(k)
        PROVE  TypeOK' /\ LockOwner' /\ \A p \in Processes : Promise(p)'
    BY <1>1, <2>2, <2>4 DEF TrustCommandKey, TypeOK
  <2> QED BY <2>1, <2>3, <2>4, <2>5 DEF Next
<1>4. CopyIsCurrent' /\ JudgedIsFresh' /\ AppliedIsOnDisk' /\ RefusedLeftNoTrace'
  BY <1>3 DEF Promise, CopyIsCurrent, JudgedIsFresh, AppliedIsOnDisk,
     RefusedLeftNoTrace
<1> QED
  BY <1>2, <1>3, <1>4 DEF RemoteInv

(* The inductive invariant: one owner of command.lock whose copy is the     *)
(* document on disk, and a ledger that accounts for every applied message.  *)
THEOREM RemoteInvariant == Spec => []RemoteInv
BY RemoteInit, RemoteStep, PTL DEF Spec

(* The type invariant, which needs the others: what is committed was        *)
(* fetched.                                                                 *)
THEOREM RemoteTypes == Spec => []TypeOK
<1>1. RemoteInv => TypeOK
  BY DEF RemoteInv
<1> QED BY <1>1, RemoteInvariant, PTL

(* No version and no nonce takes effect under two signed messages, for any  *)
(* answers of the backend and any number of processes and crashes.          *)
THEOREM SignedMessagesAreSpentOnce == Spec => []SignedOnce
<1>1. RemoteInv => SignedOnce
  BY DEF RemoteInv
<1> QED BY <1>1, RemoteInvariant, PTL

(* Until an applied command is acknowledged the disk holds its target and,  *)
(* if it was signed, the ledger that spent it.                              *)
THEOREM AppliedIsKept == Spec => []AppliedIsOnDisk
<1>1. RemoteInv => AppliedIsOnDisk
  BY DEF RemoteInv
<1> QED BY <1>1, RemoteInvariant, PTL

(* Until a refused command is acknowledged the disk holds the document of   *)
(* its check-in.                                                            *)
THEOREM RefusalsLeaveNoTrace == Spec => []RefusedLeftNoTrace
<1>1. RemoteInv => RefusedLeftNoTrace
  BY DEF RemoteInv
<1> QED BY <1>1, RemoteInvariant, PTL

(* The exact retry of the newest command passes the replay checks.          *)
THEOREM RetriesAreHonoured == Spec => []RetryIsHonoured
<1>1. RemoteInv => RetryIsHonoured
  <2> SUFFICES ASSUME RemoteInv, NEW p \in Processes,
                      proc[p].pc = "fetched", Newest(MessageOf(proc[p]))
               PROVE  Fresh(MessageOf(proc[p]), proc[p].security)
    BY DEF RetryIsHonoured
  <2> DEFINE m == MessageOf(proc[p])
             ledger == store.security
  <2>1. proc[p].security = ledger
    BY DEF RemoteInv, CopyIsCurrent, CheckInDocument
  <2>2. /\ m \in applied /\ ledger.message \in applied
        /\ ledger.version = ledger.message.version
        /\ m.nonce \in ledger.nonces
        /\ m.version <= ledger.version
    BY DEF RemoteInv, LedgerIsComplete, Newest
  <2>3. m.version \in Nat /\ ledger.version \in Nat
    <3>1. m \in Messages /\ ledger \in Ledgers
      BY <2>2 DEF RemoteInv, TypeOK, Documents
    <3>2. \A x \in Messages : x.version \in Nat
      BY RemoteAssumption DEF Messages, Message
    <3> QED BY <3>1, <3>2 DEF Ledgers
  <2>4. m.version = ledger.version
    BY <2>2, <2>3 DEF Newest
  <2>5. m = ledger.message
    BY <2>2, <2>4 DEF RemoteInv, SignedOnce
  <2> QED BY <2>1, <2>2, <2>4, <2>5 DEF Fresh, ExactRetry
<1> QED BY <1>1, RemoteInvariant, PTL

(* The two processes, their lock and their file implement the abstract      *)
(* ledger: versions rise, nonces are spent once, retries are invisible.     *)
THEOREM RemoteImplementsLedger == Spec => ImplementsCommandLedger
<1>1. Init => Ledger!Init
  BY DEF Init, Ledger!Init, NoLedger
<1>2. RemoteInv /\ [Next]_vars => [Ledger!Next]_(Ledger!ledgerVars)
  <2> SUFFICES ASSUME RemoteInv, [Next]_vars
               PROVE  [Ledger!Next]_(Ledger!ledgerVars)
    OBVIOUS
  <2>1. TypeOK /\ LedgerIsComplete /\ \A p \in Processes : Promise(p)
    BY Promises DEF RemoteInv
  <2>2. CASE UNCHANGED <<store.security, applied>>
    BY <2>2 DEF Ledger!ledgerVars
  <2>3. ASSUME NEW m \in Messages,
               m.version > store.security.version,
               m.nonce \notin store.security.nonces,
               store'.security = Spent(store.security, m),
               applied' = applied \cup {m}
        PROVE  Ledger!Next
    BY <2>3 DEF Ledger!Next, Ledger!Apply, Spent
  <2>4. CASE \E p \in Processes : Commit(p)
    BY <2>1, <2>2, <2>3, <2>4, CommitEffect
  <2>5. CASE ~\E p \in Processes : Commit(p)
    BY <2>1, <2>2, <2>5, LedgerFrame
  <2> QED BY <2>4, <2>5
<1> QED
  BY <1>1, <1>2, RemoteInvariant, PTL DEF Spec, ImplementsCommandLedger
=============================================================================
