--------------------------- MODULE RecoveryProofs ---------------------------
(***************************************************************************)
(* Proofs about Recovery, for all sessions, keys, tokens and bounds.       *)
(***************************************************************************)
EXTENDS Recovery, TLAPS

(* The records the model is written with have their types.                  *)
LEMMA ConstantTypes ==
    /\ NoRequest \in Request
    /\ NoReceipt \in Receipt
    /\ NoState \in Document
    /\ WorkerIdle \in WorkerType
    /\ WorkerDown \in WorkerType
    /\ AdminIdle \in AdminType
    /\ UiFresh \in UiType
    /\ Tokens \subseteq Token
<1>1. NoRequest \in Request
  BY RecoveryAssumption DEF NoRequest, Request, NoToken, Token
<1>2. NoReceipt \in Receipt
  BY DEF NoReceipt, Receipt
<1>3. NoState \in Document
  BY <1>2 DEF NoState, Document
<1>4. WorkerIdle \in WorkerType /\ WorkerDown \in WorkerType
  BY <1>1, <1>3 DEF WorkerIdle, WorkerDown, WorkerType
<1>5. AdminIdle \in AdminType
  BY DEF AdminIdle, AdminType
<1>6. UiFresh \in UiType
  BY <1>1 DEF UiFresh, UiType
<1> QED
  BY <1>1, <1>2, <1>3, <1>4, <1>5, <1>6, RecoveryAssumption DEF Token

(* recovery_refused yields a well-formed session: the shift is capped, so   *)
(* the back-off is defined for every number of refusals.                    *)
LEMMA RefuseType ==
    ASSUME NEW u \in UiType, clock \in Nat
    PROVE  Refuse(u) \in UiType
<1> DEFINE n == u.fails + 1
           i == 1 + (IF n - FailureLimit < 5 THEN n - FailureLimit ELSE 5)
<1>1. n \in Nat
  BY DEF UiType
<1>2. ASSUME ~(n < FailureLimit) PROVE Doubling[i] \in Nat
  <2>1. i \in 1 .. 6
    BY <1>1, <1>2, RecoveryAssumption
  <2> HIDE DEF i
  <2>2. \A k \in 1 .. 6 : Doubling[k] \in Nat
    <3>1. Doubling \in [1 .. 6 -> Nat]
      BY DEF Doubling
    <3> QED BY <3>1
  <2> QED BY <2>1, <2>2
<1>3. RefusedUntil(u) \in Nat
  <2>1. CASE n < FailureLimit
    BY <2>1 DEF RefusedUntil, RefusedCount, UiType
  <2>2. CASE ~(n < FailureLimit)
    <3>1. Doubling[i] \in Nat
      BY <2>2, <1>2
    <3>2. RefusedUntil(u) = clock + BackoffUnit * Doubling[i]
      BY <2>2 DEF RefusedUntil, RefusedCount
    <3> HIDE DEF i
    <3>3. BackoffUnit * Doubling[i] \in Nat
      BY <3>1, RecoveryAssumption
    <3> QED BY <3>2, <3>3
  <2> QED BY <2>1, <2>2
<1> QED
  BY <1>1, <1>3, ConstantTypes DEF Refuse, RefusedCount, UiType

(* Every step of a session keeps the types.                                 *)
LEMMA SessionKeepsTypes ==
    ASSUME TypeOK, NEW s \in Sessions, Session(s)
    PROVE  TypeOK'
<1> USE ConstantTypes DEF TypeOK
<1>0. ui[s] \in UiType
  OBVIOUS
<1>1. CASE RefuseInput(s)
  BY <1>0, <1>1, RefuseType DEF RefuseInput, disk, bounds, history
<1>2. ASSUME NEW token \in Tokens, OpenMailbox(s, token) PROVE TypeOK'
  <2>1. [id |-> nextId, token |-> token] \in Request
    BY DEF Request
  <2>2. [ui[s] EXCEPT !.pc = "writing", !.request = [id |-> nextId, token |-> token]]
          \in UiType
    BY <1>0, <2>1 DEF UiType
  <2>3. ui' \in [Sessions -> UiType]
    BY <1>2, <2>2 DEF OpenMailbox
  <2> QED
    BY <1>2, <2>3 DEF OpenMailbox, disk, bounds, history
<1>3. CASE WriteMailbox(s)
  <2>1. [ui[s] EXCEPT !.pc = "waiting", !.started = clock] \in UiType
    BY <1>0 DEF UiType
  <2>2. ui' \in [Sessions -> UiType]
    BY <1>3, <2>1 DEF WriteMailbox
  <2>3. mailbox' \in Request
    BY <1>0, <1>3 DEF WriteMailbox, UiType
  <2> QED
    BY <1>3, <2>2, <2>3 DEF WriteMailbox, disk, bounds, history
<1>4. CASE WriteMailboxFails(s)
  <2>1. [ui[s] EXCEPT !.pc = "idle", !.request = NoRequest] \in UiType
    BY <1>0 DEF UiType
  <2>2. ui' \in [Sessions -> UiType]
    BY <1>4, <2>1 DEF WriteMailboxFails
  <2>3. mailbox' \in Request
    BY <1>0, <1>4 DEF WriteMailboxFails, UiType
  <2> QED
    BY <1>4, <2>2, <2>3 DEF WriteMailboxFails, disk, bounds, history
<1>5. CASE PollAccepted(s)
  BY <1>0, <1>5 DEF PollAccepted, disk, bounds, history, UiType, Request
<1>6. CASE PollRefused(s)
  BY <1>0, <1>6, RefuseType DEF PollRefused, disk, bounds, history
<1>7. CASE PollTimeout(s)
  BY <1>0, <1>7 DEF PollTimeout, GiveUp, disk, bounds, history, UiType
<1>8. CASE Relock(s)
  BY <1>0, <1>8 DEF Relock, disk, bounds, history, UiType
<1>9. CASE UiRestart(s)
  BY <1>0, <1>9 DEF UiRestart, disk, bounds, history
<1> QED
  BY <1>1, <1>2, <1>3, <1>4, <1>5, <1>6, <1>7, <1>8, <1>9 DEF Session

(* The document a worker commits is well formed.                            *)
LEMMA DecisionType ==
    ASSUME NEW w \in WorkerType
    PROVE  Decision(w) \in Document
<1>1. w.request.token.counter \in Nat /\ w.state.counter \in Nat
  BY DEF WorkerType, Request, Token, Document
<1>2. [id |-> w.request.id, accepted |-> Accepts(w),
       expires |-> w.now + ReceiptLife] \in Receipt
  <2>1. Accepts(w) \in BOOLEAN
    BY DEF Accepts, Verified, Genuine
  <2>2. w.request.id \in Nat /\ w.now + ReceiptLife \in Nat
    BY RecoveryAssumption DEF WorkerType, Request
  <2> QED BY <2>1, <2>2 DEF Receipt
<1>3. w.state.key \in Keys \cup {NoKey}
  BY DEF WorkerType, Document
<1> QED
  BY <1>1, <1>2, <1>3 DEF Decision, Judged, Document

(* The request and the time the worker read are well formed.                *)
LEMMA ReadType ==
    ASSUME NEW w \in WorkerType, NEW request \in Request, NEW time \in Nat
    PROVE  [w EXCEPT !.pc = "locking", !.request = request, !.now = time] \in WorkerType
BY DEF WorkerType

(* Every step of the worker keeps the types.                                *)
LEMMA WorkerKeepsTypes ==
    ASSUME TypeOK, Worker
    PROVE  TypeOK'
<1> USE ConstantTypes DEF TypeOK
<1>1. CASE WorkerRead
  <2>1. PICK now \in 1 .. clock :
           worker' = [worker EXCEPT !.pc = "locking", !.request = mailbox, !.now = now]
    BY <1>1 DEF WorkerRead
  <2>2. now \in Nat /\ mailbox \in Request
    OBVIOUS
  <2>3. worker' \in WorkerType
    BY <2>1, <2>2, ReadType
  <2> QED
    BY <1>1, <2>3 DEF WorkerRead, disk, bounds, history
<1>2. CASE WorkerLock
  BY <1>2 DEF WorkerLock, disk, bounds, history, WorkerType
<1>3. CASE WorkerSkip
  BY <1>3 DEF WorkerSkip, disk, bounds, history
<1>4. CASE WorkerLoad
  BY <1>4 DEF WorkerLoad, disk, bounds, history, WorkerType
<1>5. CASE WorkerCommit
  <2>1. [id |-> worker.request.id, counter |-> worker.request.token.counter]
          \in [id : Nat, counter : Nat]
    BY DEF WorkerType, Request, Token
  <2> QED
    BY <1>5, <2>1, DecisionType DEF WorkerCommit, disk, bounds, history
<1>6. CASE WorkerCommitFails
  BY <1>6 DEF WorkerCommitFails, disk, bounds, history
<1>7. CASE ServiceCrash
  BY <1>7 DEF ServiceCrash, disk, bounds, history
<1>8. CASE ServiceStart
  BY <1>8 DEF ServiceStart, disk, bounds, history
<1> QED
  BY <1>1, <1>2, <1>3, <1>4, <1>5, <1>6, <1>7, <1>8 DEF Worker

(* Every step of the administrator's command keeps the types.               *)
LEMMA AdministratorKeepsTypes ==
    ASSUME TypeOK, Administrator
    PROVE  TypeOK'
<1> USE ConstantTypes DEF TypeOK
<1>1. ASSUME NEW k \in Keys, ProvisionStart(k) PROVE TypeOK'
  <2>1. admin' \in AdminType
    BY <1>1 DEF ProvisionStart, AdminType
  <2> QED
    BY <1>1, <2>1 DEF ProvisionStart, disk, bounds, history
<1>2. CASE ProvisionLock
  BY <1>2 DEF ProvisionLock, TakeLock, disk, bounds, history, AdminType
<1>3. CASE ProvisionLoad
  BY <1>3 DEF ProvisionLoad, disk, bounds, history, AdminType, Document
<1>4. CASE ProvisionCommit
  BY <1>4 DEF ProvisionCommit, disk, bounds, history, AdminType, Document, Receipt
<1>5. CASE ProvisionAborts
  BY <1>5 DEF ProvisionAborts, disk, bounds, history
<1> QED
  BY <1>1, <1>2, <1>3, <1>4, <1>5 DEF Administrator

(* Every step of the system keeps the types.                                *)
LEMMA TypeStep ==
    ASSUME TypeOK, [Next]_vars
    PROVE  TypeOK'
<1>1. CASE Tick
  BY <1>1 DEF Tick, TypeOK, disk, bounds, history
<1>2. CASE UNCHANGED vars
  BY <1>2 DEF vars, TypeOK, disk, bounds, history
<1> QED
  BY <1>1, <1>2, SessionKeepsTypes, WorkerKeepsTypes, AdministratorKeepsTypes DEF Next

(* The initial states have the types.                                       *)
LEMMA TypeInit == Init => TypeOK
<1> SUFFICES ASSUME Init PROVE TypeOK
  OBVIOUS
<1>1. store \in Document
  BY ConstantTypes, RecoveryAssumption DEF Init, NoState, Document
<1> QED
  BY <1>1, ConstantTypes DEF Init, TypeOK

(* The type invariant of recovery's state, for every number of sessions,    *)
(* keys, tokens, requests and faults.                                       *)
THEOREM RecoveryTypes == Spec => []TypeOK
BY TypeInit, TypeStep, PTL DEF Spec

-----------------------------------------------------------------------------
(* A session writes the mailbox only.                                       *)
LEMMA SessionFrame ==
    ASSUME NEW s \in Sessions, Session(s)
    PROVE  UNCHANGED <<clock, store, lock, worker, admin, granted, wiped>>
BY DEF Session, RefuseInput, OpenMailbox, WriteMailbox, WriteMailboxFails,
       PollAccepted, PollRefused, PollTimeout, GiveUp, Relock, UiRestart,
       disk, bounds, history

(* The worker writes the state file only.                                   *)
LEMMA WorkerFrame ==
    ASSUME Worker
    PROVE  UNCHANGED <<clock, mailbox, admin, ui, nextId, released, wiped>>
BY DEF Worker, WorkerRead, WorkerLock, WorkerSkip, WorkerLoad, WorkerCommit,
       WorkerCommitFails, ServiceCrash, ServiceStart, disk, bounds, history

(* A provisioning grants and releases nothing.                              *)
LEMMA AdministratorFrame ==
    ASSUME Administrator
    PROVE  UNCHANGED <<clock, mailbox, worker, ui, nextId, granted, released>>
BY DEF Administrator, ProvisionStart, ProvisionLock, TakeLock, ProvisionLoad,
       ProvisionCommit, ProvisionAborts, disk, bounds, history

(* recovery.lock has one owner, and its owner's copy of the document stays  *)
(* current until it is written or given up.                                 *)
LEMMA LockStep ==
    ASSUME TypeOK, LockOwner, NoStaleCopy, [Next]_vars
    PROVE  LockOwner' /\ NoStaleCopy'
<1>1. CASE UNCHANGED <<store, lock, worker, admin>>
  BY <1>1 DEF LockOwner, NoStaleCopy, NothingToDecide, CannotDecide
<1>2. CASE UNCHANGED vars \/ Tick \/ \E s \in Sessions : Session(s)
  BY <1>1, <1>2, SessionFrame DEF vars, Tick, disk
<1> USE DEF TypeOK, WorkerType, AdminType, LockOwner, NoStaleCopy,
            NothingToDecide, CannotDecide, disk
<1>3. CASE Worker
  <2>1. CASE WorkerRead
    BY <2>1 DEF WorkerRead
  <2>2. CASE WorkerLock
    BY <2>2 DEF WorkerLock
  <2>3. CASE WorkerSkip
    BY <2>3 DEF WorkerSkip, WorkerIdle
  <2>4. CASE WorkerLoad
    BY <2>4 DEF WorkerLoad
  <2>5. CASE WorkerCommit
    BY <2>5 DEF WorkerCommit, WorkerIdle
  <2>6. CASE WorkerCommitFails
    BY <2>6 DEF WorkerCommitFails, WorkerIdle
  <2>7. CASE ServiceCrash
    BY <2>7 DEF ServiceCrash, WorkerIdle, WorkerDown
  <2>8. CASE ServiceStart
    BY <2>8 DEF ServiceStart, WorkerIdle
  <2> QED
    BY <1>3, <2>1, <2>2, <2>3, <2>4, <2>5, <2>6, <2>7, <2>8 DEF Worker
<1>4. CASE Administrator
  <2>1. ASSUME NEW k \in Keys, ProvisionStart(k) PROVE LockOwner' /\ NoStaleCopy'
    BY <2>1 DEF ProvisionStart
  <2>2. CASE ProvisionLock
    BY <2>2 DEF ProvisionLock, TakeLock
  <2>3. CASE ProvisionLoad
    BY <2>3 DEF ProvisionLoad
  <2>4. CASE ProvisionCommit
    BY <2>4 DEF ProvisionCommit, AdminIdle
  <2>5. CASE ProvisionAborts
    BY <2>5 DEF ProvisionAborts, AdminIdle
  <2> QED
    BY <1>4, <2>1, <2>2, <2>3, <2>4, <2>5 DEF Administrator
<1> QED
  BY <1>2, <1>3, <1>4 DEF Next

(* What a worker that still holds the current document writes: it spends a  *)
(* counter above every one granted so far, or it changes nothing but the    *)
(* receipt.                                                                 *)
LEMMA CommitEffect ==
    ASSUME TypeOK, NoStaleCopy, WorkerCommit
    PROVE  /\ store'.receipt.id = worker.request.id
           /\ \/ /\ store'.receipt.accepted
                 /\ worker.request.token.counter > store.counter
                 /\ store'.counter = worker.request.token.counter
                 /\ granted' = granted \cup {[id      |-> worker.request.id,
                                              counter |-> worker.request.token.counter]}
              \/ /\ ~store'.receipt.accepted
                 /\ store'.counter = store.counter
                 /\ granted' = granted
<1>1. worker.state = store
  BY DEF WorkerCommit, NoStaleCopy
<1>2. store' = Decision(worker)
  BY DEF WorkerCommit
<1>3. CASE Accepts(worker)
  <2>1. worker.request.token.counter > store.counter
    BY <1>1, <1>3 DEF Accepts, Verified
  <2> QED
    BY <1>1, <1>2, <1>3, <2>1 DEF WorkerCommit, Decision, Judged
<1>4. CASE ~Accepts(worker)
  BY <1>1, <1>2, <1>4 DEF WorkerCommit, Decision, Judged
<1> QED
  BY <1>3, <1>4

(* A counter is granted once and stays spent.                               *)
LEMMA GrantStep ==
    ASSUME TypeOK, NoStaleCopy, OneGrantPerCounter, GrantIsDurable,
           ReceiptIsBacked, [Next]_vars
    PROVE  /\ OneGrantPerCounter' /\ GrantIsDurable' /\ ReceiptIsBacked'
           /\ store'.counter >= store.counter
<1> USE DEF OneGrantPerCounter, GrantIsDurable, ReceiptIsBacked, GrantedIds
<1>0. store.counter \in Nat /\ granted \subseteq [id : Nat, counter : Nat]
  BY DEF TypeOK, Document
<1>1. CASE UNCHANGED <<store, granted>>
  BY <1>0, <1>1
<1>2. CASE WorkerCommit
  <2> DEFINE c == worker.request.token.counter
             g == [id |-> worker.request.id, counter |-> c]
  <2>0. c \in Nat
    BY DEF TypeOK, WorkerType, Request, Token
  <2>1. CASE granted' = granted /\ store'.counter = store.counter
             /\ ~store'.receipt.accepted
    BY <1>0, <2>1
  <2>2. CASE /\ store'.receipt.id = worker.request.id
             /\ c > store.counter
             /\ store'.counter = c
             /\ granted' = granted \cup {g}
    <3>1. \A h \in granted : h.counter < c
      BY <1>0, <2>0, <2>2
    <3>2. OneGrantPerCounter' /\ GrantIsDurable'
      BY <1>0, <2>0, <2>2, <3>1
    <3>3. ReceiptIsBacked'
      <4>1. g \in granted' /\ g.id = store'.receipt.id
        BY <2>2
      <4> QED BY <4>1
    <3> QED
      BY <1>0, <2>0, <2>2, <3>2, <3>3
  <2> QED
    BY <1>2, <2>1, <2>2, CommitEffect
<1>3. CASE ProvisionCommit
  <2>1. store'.counter = store.counter /\ ~store'.receipt.accepted
    BY <1>3 DEF ProvisionCommit, NoStaleCopy, NoReceipt
  <2>2. granted' = granted
    BY <1>3 DEF ProvisionCommit
  <2> QED
    BY <1>0, <2>1, <2>2
<1>4. CASE Worker /\ ~WorkerCommit
  BY <1>1, <1>4 DEF Worker, WorkerRead, WorkerLock, WorkerSkip, WorkerLoad,
     WorkerCommitFails, ServiceCrash, ServiceStart, disk, history
<1>5. CASE Administrator /\ ~ProvisionCommit
  BY <1>1, <1>5 DEF Administrator, ProvisionStart, ProvisionLock, TakeLock,
     ProvisionLoad, ProvisionAborts, disk, history
<1> QED
  BY <1>1, <1>2, <1>3, <1>4, <1>5, SessionFrame DEF Next, vars, Tick, disk, history

(* A request keeps an id of its own from its submission to its answer.      *)
LEMMA SessionKeepsIds ==
    ASSUME TypeOK, IdsAreIssued, WritingIsUnread, NEW s \in Sessions, Session(s)
    PROVE  IdsAreIssued' /\ WritingIsUnread'
<1> USE DEF IdsAreIssued, WritingIsUnread, Issued, Active, GrantedIds
<1>0. /\ ui[s] \in UiType /\ ui \in [Sessions -> UiType] /\ nextId \in Nat \ {0}
      /\ MaxRequests \in Nat
  BY RecoveryAssumption DEF TypeOK
<1>a. UNCHANGED <<worker, granted>>
  BY SessionFrame
<1>b. NoRequest.id = 0
  BY DEF NoRequest
<1>c. /\ UiFresh.pc = "idle"
      /\ Refuse(ui[s]).pc = "idle"
  BY <1>0 DEF UiFresh, Refuse, UiType
<1> DEFINE Quiet == /\ ui'[s].pc = "idle"
                    /\ \A t \in Sessions \ {s} : ui'[t] = ui[t]
                    /\ UNCHANGED <<mailbox, nextId>>
<1>1. ASSUME Quiet, released' = released \/ (/\ ui[s].pc = "waiting"
                                         /\ released' = released \cup {ui[s].request.id})
      PROVE  IdsAreIssued' /\ WritingIsUnread'
  BY <1>0, <1>1, <1>a
<1>2. CASE RefuseInput(s)
  BY <1>0, <1>1, <1>2, <1>c DEF RefuseInput, disk, bounds, history
<1>3. ASSUME NEW token \in Tokens, OpenMailbox(s, token)
      PROVE  IdsAreIssued' /\ WritingIsUnread'
  <2>1. /\ ui'[s].pc = "writing" /\ ui'[s].request = [id |-> nextId, token |-> token]
        /\ \A t \in Sessions \ {s} : ui'[t] = ui[t]
    BY <1>0, <1>3 DEF OpenMailbox, UiType
  <2>2. mailbox'.id = 0 /\ nextId' = nextId + 1 /\ nextId <= MaxRequests
        /\ released' = released /\ released \subseteq Nat
    BY <1>3, <1>b DEF OpenMailbox, history, TypeOK
  <2>3. \A id \in 1 .. (nextId - 1) : id \in 1 .. (nextId' - 1) /\ id # nextId
    BY <1>0, <2>2
  <2>4. IdsAreIssued'
    <3>1. (ui'[s].request.id \in 1 .. (nextId' - 1)) /\ nextId \notin released
      BY <1>0, <2>1, <2>2
    <3>2. \A t \in Sessions \ {s} : ui[t].pc # "idle" => ui[t].request.id # nextId
      BY <2>3
    <3>3. ASSUME NEW id \in released PROVE id < nextId'
      <4>1. id \in Nat /\ id < nextId
        BY <2>2
      <4> QED BY <1>0, <2>2, <4>1
    <3>4. nextId' <= MaxRequests + 1
      BY <1>0, <2>2
    <3>5. \A t \in Sessions : ui'[t].pc # "idle" =>
             Issued(ui[t].request)' /\ ui'[t].request.id \notin released'
      BY <2>1, <2>2, <2>3, <3>1
    <3>6. \A t, u \in Sessions :
             (t # u /\ ui'[t].pc # "idle" /\ ui'[u].pc # "idle")
                 => ui'[t].request.id # ui'[u].request.id
      BY <2>1, <3>2
    <3> QED BY <1>a, <2>2, <2>3, <3>3, <3>4, <3>5, <3>6
  <2>5. WritingIsUnread'
    BY <1>0, <1>a, <2>1, <2>2, <2>3
  <2> QED BY <2>4, <2>5
<1>4. CASE WriteMailbox(s)
  <2>1. /\ ui[s].pc = "writing" /\ ui'[s].pc = "waiting"
        /\ ui'[s].request = ui[s].request
        /\ \A t \in Sessions \ {s} : ui'[t] = ui[t]
        /\ UNCHANGED <<nextId, released>>
    BY <1>0, <1>4 DEF WriteMailbox, UiType, bounds, history
  <2>2. mailbox' = ui[s].request \/ mailbox'.id = 0
    BY <1>4, <1>b DEF WriteMailbox
  <2> QED BY <1>0, <1>a, <2>1, <2>2
<1>5. CASE WriteMailboxFails(s)
  <2>1. /\ ui[s].pc = "writing" /\ ui'[s].pc = "idle"
        /\ \A t \in Sessions \ {s} : ui'[t] = ui[t]
        /\ UNCHANGED <<nextId, released>>
    BY <1>0, <1>5 DEF WriteMailboxFails, UiType, history
  <2>2. mailbox' = mailbox \/ mailbox' = ui[s].request \/ mailbox'.id = 0
    BY <1>5, <1>b DEF WriteMailboxFails
  <2> QED BY <1>0, <1>a, <2>1, <2>2
<1>6. CASE PollAccepted(s)
  BY <1>0, <1>1, <1>6, <1>c DEF PollAccepted, disk, bounds, UiFresh
<1>7. CASE PollRefused(s)
  BY <1>0, <1>1, <1>7, <1>c DEF PollRefused, disk, bounds, history
<1>8. CASE PollTimeout(s)
  BY <1>0, <1>1, <1>8 DEF PollTimeout, GiveUp, disk, bounds, history, UiType
<1>9. CASE Relock(s)
  <2>1. /\ \A t \in Sessions : ui'[t].pc = ui[t].pc /\ ui'[t].request = ui[t].request
        /\ UNCHANGED <<mailbox, nextId, released>>
    BY <1>0, <1>9 DEF Relock, disk, bounds, history, UiType
  <2> QED BY <1>a, <2>1
<1>10. CASE UiRestart(s)
  BY <1>0, <1>1, <1>10, <1>c DEF UiRestart, disk, history
<1> QED
  BY <1>2, <1>3, <1>4, <1>5, <1>6, <1>7, <1>8, <1>9, <1>10 DEF Session

(* No step mixes two requests up.                                           *)
LEMMA IdsStep ==
    ASSUME TypeOK, IdsAreIssued, WritingIsUnread, [Next]_vars
    PROVE  IdsAreIssued' /\ WritingIsUnread'
<1> USE DEF IdsAreIssued, WritingIsUnread, Issued, Active, GrantedIds
<1>1. CASE UNCHANGED <<mailbox, ui, nextId, released, granted>>
           /\ (worker'.pc \notin {"locking", "locked", "loaded"} \/
                (Active(worker) /\ worker'.request = worker.request)
                \/ (mailbox.id # 0 /\ worker'.request = mailbox))
  BY <1>1
<1>2. CASE Worker /\ ~WorkerCommit
  <2> USE DEF TypeOK, WorkerType, WorkerIdle, WorkerDown, disk, bounds, history
  <2>1. CASE WorkerRead
    BY <1>1, <2>1 DEF WorkerRead
  <2>2. CASE WorkerLock
    BY <1>1, <2>2 DEF WorkerLock
  <2>3. CASE WorkerLoad
    BY <1>1, <2>3 DEF WorkerLoad
  <2>4. CASE WorkerSkip \/ WorkerCommitFails \/ ServiceCrash \/ ServiceStart
    BY <1>1, <2>4 DEF WorkerSkip, WorkerCommitFails, ServiceCrash, ServiceStart
  <2> QED BY <1>2, <2>1, <2>2, <2>3, <2>4 DEF Worker
<1>3. CASE WorkerCommit
  <2>1. UNCHANGED <<mailbox, ui, nextId, released>> /\ worker'.pc = "idle"
    BY <1>3 DEF WorkerCommit, bounds, WorkerIdle
  <2>2. Active(worker)
    BY <1>3 DEF WorkerCommit
  <2>3. granted' \subseteq granted \cup {[id      |-> worker.request.id,
                                        counter |-> worker.request.token.counter]}
    BY <1>3 DEF WorkerCommit
  <2> QED BY <2>1, <2>2, <2>3
<1>4. CASE UNCHANGED <<mailbox, worker, ui, nextId, released, granted>>
  BY <1>4
<1>5. CASE Administrator \/ Tick \/ UNCHANGED vars
  BY <1>4, <1>5, AdministratorFrame DEF Tick, vars, disk, bounds, history
<1> QED
  BY <1>2, <1>3, <1>5, SessionKeepsIds DEF Next

(* A granted request that is judged again lost its receipt to a             *)
(* provisioning; until then the receipt answers it.                         *)
LEMMA AnswerStep ==
    ASSUME RecoveryInv, [Next]_vars
    PROVE  GrantedIsAnswered' /\ RefusalIsHonest'
<1> USE DEF GrantedIsAnswered, RefusalIsHonest, Active
<1>0. /\ TypeOK /\ NoStaleCopy /\ IdsAreIssued /\ WritingIsUnread
      /\ GrantedIsAnswered /\ RefusalIsHonest
  BY DEF RecoveryInv
<1>1. 0 \notin GrantedIds
  BY <1>0 DEF IdsAreIssued, GrantedIds
<1>2. CASE UNCHANGED <<mailbox, store, granted, wiped>>
           /\ (\/ ~Active(worker)' \/ (worker'.request = mailbox)
               \/ (Active(worker) /\ worker'.request = worker.request))
  BY <1>0, <1>2 DEF GrantedIds
<1>3. ASSUME NEW s \in Sessions, Session(s)
      PROVE  GrantedIsAnswered' /\ RefusalIsHonest'
  <2>1. UNCHANGED <<store, worker, granted, wiped>>
    BY <1>3, SessionFrame
  <2>2. mailbox' = mailbox \/ mailbox'.id \notin GrantedIds
    <3>1. NoRequest.id = 0
      BY DEF NoRequest
    <3>2. ui[s].pc = "writing" => ui[s].request.id \notin GrantedIds
      BY <1>0 DEF WritingIsUnread
    <3> QED
      BY <1>1, <1>3, <3>1, <3>2 DEF Session, RefuseInput, OpenMailbox,
         WriteMailbox, WriteMailboxFails, PollAccepted, PollRefused, PollTimeout,
         GiveUp, Relock, UiRestart, disk
  <2> QED
    BY <1>0, <2>1, <2>2 DEF GrantedIds
<1>4. CASE WorkerCommit
  <2> DEFINE r == worker.request.id
             g == [id |-> r, counter |-> worker.request.token.counter]
  <2>1. /\ UNCHANGED <<mailbox, wiped>> /\ worker'.pc = "idle"
        /\ worker.pc = "loaded" /\ store.receipt.id # r
    BY <1>0, <1>4 DEF WorkerCommit, WorkerIdle, NoStaleCopy, NothingToDecide
  <2>2. r \in GrantedIds => r \in wiped
    BY <1>0, <2>1
  <2>3. mailbox.id # r => mailbox.id \notin GrantedIds
    BY <1>0, <2>1
  <2>4. /\ store'.receipt.id = r
        /\ \/ store'.receipt.accepted /\ granted' = granted \cup {g}
           \/ ~store'.receipt.accepted /\ granted' = granted
    BY <1>0, <1>4, CommitEffect
  <2>5. \A id : id \in GrantedIds' => id \in GrantedIds \/ (id = r /\ store'.receipt.accepted)
    BY <2>4 DEF GrantedIds
  <2>6. (\E h \in granted' : h.id = store'.receipt.id) => r \in GrantedIds'
    BY <2>4 DEF GrantedIds
  <2>7. RefusalIsHonest'
    BY <2>1, <2>2, <2>4, <2>5, <2>6
  <2>8. GrantedIsAnswered'
    BY <2>1, <2>2, <2>3, <2>4, <2>5
  <2> QED BY <2>7, <2>8
<1>5. CASE ProvisionCommit
  <2>1. /\ UNCHANGED <<mailbox, worker, granted>>
        /\ store'.receipt.id = 0
        /\ wiped' = IF store.receipt.id = 0 THEN wiped ELSE wiped \cup {store.receipt.id}
    BY <1>5 DEF ProvisionCommit, NoReceipt
  <2>2. GrantedIds' = GrantedIds
    BY <2>1 DEF GrantedIds
  <2>3. RefusalIsHonest'
    BY <1>1, <2>1 DEF GrantedIds
  <2>4. GrantedIsAnswered'
    BY <1>0, <1>1, <2>1, <2>2
  <2> QED BY <2>3, <2>4
<1>6. CASE Administrator /\ ~ProvisionCommit
  BY <1>2, <1>6, AdministratorFrame DEF Administrator, ProvisionStart,
     ProvisionLock, TakeLock, ProvisionLoad, ProvisionAborts, disk, history
<1>7. CASE Worker /\ ~WorkerCommit
  <2> USE <1>0, <1>2 DEF TypeOK, WorkerType, WorkerIdle, WorkerDown, disk, history
  <2>1. CASE WorkerRead
    BY <2>1 DEF WorkerRead
  <2>2. CASE WorkerLock
    BY <2>2 DEF WorkerLock
  <2>3. CASE WorkerLoad
    BY <2>3 DEF WorkerLoad
  <2>4. CASE WorkerSkip \/ WorkerCommitFails \/ ServiceCrash \/ ServiceStart
    BY <2>4 DEF WorkerSkip, WorkerCommitFails, ServiceCrash, ServiceStart
  <2> QED BY <1>7, <2>1, <2>2, <2>3, <2>4 DEF Worker
<1>8. CASE Tick \/ UNCHANGED vars
  BY <1>2, <1>8 DEF Tick, vars, disk, history
<1> QED
  BY <1>3, <1>4, <1>5, <1>6, <1>7, <1>8 DEF Next

(* The inductive invariant holds at first.                                  *)
LEMMA RecoveryInit == Init => RecoveryInv
<1> SUFFICES ASSUME Init PROVE RecoveryInv
  OBVIOUS
<1> USE DEF Init, NoState, NoReceipt, NoRequest, WorkerIdle, AdminIdle, UiFresh
<1>1. LockOwner /\ NoStaleCopy
  BY DEF LockOwner, NoStaleCopy
<1>2. IdsAreIssued
  BY RecoveryAssumption DEF IdsAreIssued, Active
<1>3. WritingIsUnread /\ GrantedIsAnswered
  BY DEF WritingIsUnread, GrantedIsAnswered, GrantedIds
<1>4. ReceiptIsBacked /\ OneGrantPerCounter /\ GrantIsDurable /\ RefusalIsHonest
  BY DEF ReceiptIsBacked, OneGrantPerCounter, GrantIsDurable, RefusalIsHonest
<1> QED
  BY <1>1, <1>2, <1>3, <1>4, TypeInit DEF RecoveryInv

(* Every step keeps the inductive invariant.                                *)
LEMMA RecoveryStep ==
    ASSUME RecoveryInv, [Next]_vars
    PROVE  RecoveryInv'
<1> USE DEF RecoveryInv
<1>1. TypeOK' /\ LockOwner' /\ NoStaleCopy'
  BY TypeStep, LockStep
<1>2. IdsAreIssued' /\ WritingIsUnread'
  BY IdsStep
<1>3. OneGrantPerCounter' /\ GrantIsDurable' /\ ReceiptIsBacked'
  BY GrantStep
<1>4. GrantedIsAnswered' /\ RefusalIsHonest'
  BY AnswerStep
<1> QED
  BY <1>1, <1>2, <1>3, <1>4

(* The inductive invariant: lock ownership, current copies, fresh ids and   *)
(* accounted receipts, together, are kept by every step.                    *)
THEOREM RecoveryInvariant == Spec => []RecoveryInv
BY RecoveryInit, RecoveryStep, PTL DEF Spec

(* A counter opens the device at most once, for every set of tokens and     *)
(* every number of faults.                                                  *)
THEOREM CounterIsGrantedOnce == Spec => []OneGrantPerCounter
<1>1. RecoveryInv => OneGrantPerCounter
  BY DEF RecoveryInv
<1> QED
  BY <1>1, RecoveryInvariant, PTL

(* A granted counter is spent on disk, whatever crashes or rotations follow. *)
THEOREM GrantsAreDurable == Spec => []GrantIsDurable
<1>1. RecoveryInv => GrantIsDurable
  BY DEF RecoveryInv
<1> QED
  BY <1>1, RecoveryInvariant, PTL

(* Only a key provisioning makes the service refuse what it has accepted.   *)
THEOREM RefusalsAreHonest == Spec => []RefusalIsHonest
<1>1. RecoveryInv => RefusalIsHonest
  BY DEF RecoveryInv
<1> QED
  BY <1>1, RecoveryInvariant, PTL

(* The document a lock holder read is the one it replaces.                  *)
THEOREM CopiesStayCurrent == Spec => []NoStaleCopy
<1>1. RecoveryInv => NoStaleCopy
  BY DEF RecoveryInv
<1> QED
  BY <1>1, RecoveryInvariant, PTL

(* The consumed counter on disk never falls.                                *)
THEOREM CountersNeverFall == Spec => CounterNeverFalls
<1>1. RecoveryInv /\ [Next]_vars => [store'.counter >= store.counter]_store
  BY GrantStep DEF RecoveryInv
<1> QED
  BY <1>1, RecoveryInvariant, PTL DEF Spec, CounterNeverFalls

(* Only an accepted answer of its own releases a session.                   *)
LEMMA ReleaseStep ==
    ASSUME RecoveryInv, NEW s \in Sessions, PollAccepted(s)
    PROVE  /\ ui[s].request.id \in 1 .. MaxRequests
           /\ ui[s].request.id \notin released
           /\ \E g \in granted : g.id = ui[s].request.id
<1>1. ui[s].pc # "idle" /\ nextId \in Nat /\ nextId <= MaxRequests + 1
  BY DEF RecoveryInv, PollAccepted, TypeOK, IdsAreIssued
<1>2. ui[s].request.id \in 1 .. (nextId - 1) /\ ui[s].request.id \notin released
  BY <1>1 DEF RecoveryInv, IdsAreIssued, Issued
<1>3. \E g \in granted : g.id = ui[s].request.id
  BY DEF RecoveryInv, PollAccepted, Answered, ReceiptIsBacked, GrantedIds
<1> QED
  BY <1>1, <1>2, <1>3, RecoveryAssumption

(* A session that leaves the lock screen made that very step.               *)
LEMMA UnlockIsPoll ==
    ASSUME TypeOK, [Next]_vars, NEW s \in Sessions,
           ui[s].locked, ~ui'[s].locked
    PROVE  PollAccepted(s)
<1>0. ui \in [Sessions -> UiType]
  BY DEF TypeOK
<1>1. PICK t \in Sessions : Session(t)
  BY WorkerFrame, AdministratorFrame DEF Next, vars, Tick
<1>2. ASSUME NEW token \in Tokens, OpenMailbox(t, token) PROVE FALSE
  BY <1>0, <1>2 DEF OpenMailbox, UiType
<1>3. ~RefuseInput(t) /\ ~PollRefused(t)
  BY <1>0 DEF RefuseInput, PollRefused, Refuse, UiType
<1>4. ~WriteMailbox(t) /\ ~WriteMailboxFails(t)
  BY <1>0 DEF WriteMailbox, WriteMailboxFails, UiType
<1>5. ~PollTimeout(t) /\ ~Relock(t)
  BY <1>0 DEF PollTimeout, GiveUp, Relock, UiType
<1>6. ~UiRestart(t)
  BY <1>0 DEF UiRestart, UiFresh
<1>7. PollAccepted(t)
  BY <1>1, <1>2, <1>3, <1>4, <1>5, <1>6 DEF Session
<1>8. t = s
  BY <1>0, <1>7 DEF PollAccepted
<1> QED
  BY <1>7, <1>8

(* A lock screen is left through recovery only for a granted request of its *)
(* own session, and for each request once.                                  *)
THEOREM ReleasesAreEarned == Spec => ReleaseIsEarned
<1> DEFINE Earned == \A s \in Sessions :
                        (ui[s].locked /\ ~ui'[s].locked) =>
                           /\ ui[s].request.id \notin released
                           /\ \E g \in granted : g.id = ui[s].request.id
<1>1. RecoveryInv /\ [Next]_vars => [Earned]_vars
  BY UnlockIsPoll, ReleaseStep DEF RecoveryInv
<1> QED
  BY <1>1, RecoveryInvariant, PTL DEF Spec, ReleaseIsEarned

(* Every step of recovery grants, releases, or is invisible to the ledger.  *)
LEMMA LedgerStep ==
    ASSUME RecoveryInv, [Next]_vars
    PROVE  [Ledger!Next]_(Ledger!ledgerVars)
<1> USE DEF Ledger!Next, Ledger!ledgerVars
<1>1. CASE UNCHANGED <<store.counter, granted, released>>
  BY <1>1
<1>2. ASSUME NEW s \in Sessions, Session(s)
      PROVE  [Ledger!Next]_(Ledger!ledgerVars)
  <2>1. UNCHANGED <<store, granted>>
    BY <1>2, SessionFrame
  <2>2. CASE PollAccepted(s)
    <3>1. Ledger!Release(ui[s].request.id)
      BY <2>1, <2>2, ReleaseStep DEF Ledger!Release, PollAccepted
    <3> QED BY <2>2, <3>1, ReleaseStep
  <2>3. CASE ~PollAccepted(s)
    <3>1. UNCHANGED released
      BY <1>2, <2>3 DEF Session, RefuseInput, OpenMailbox, WriteMailbox,
         WriteMailboxFails, PollRefused, PollTimeout, GiveUp, Relock, UiRestart,
         history
    <3> QED BY <1>1, <2>1, <3>1
  <2> QED BY <2>2, <2>3
<1>3. CASE WorkerCommit
  <2> DEFINE r == worker.request.id
             c == worker.request.token.counter
  <2>1. TypeOK /\ NoStaleCopy
    BY DEF RecoveryInv
  <2>2. UNCHANGED released
    BY <1>3 DEF WorkerCommit
  <2>3. r \in 1 .. MaxRequests /\ c \in {token.counter : token \in Tokens}
    <3>1. Issued(worker.request) /\ nextId \in Nat /\ nextId <= MaxRequests + 1
      BY <1>3 DEF RecoveryInv, IdsAreIssued, Active, WorkerCommit, TypeOK
    <3> QED BY <3>1, RecoveryAssumption DEF Issued
  <2>4. CASE /\ c > store.counter /\ store'.counter = c
             /\ granted' = granted \cup {[id |-> r, counter |-> c]}
    <3>1. Ledger!Grant(r, c)
      BY <2>2, <2>4 DEF Ledger!Grant
    <3> QED BY <2>3, <3>1
  <2>5. CASE store'.counter = store.counter /\ granted' = granted
    BY <1>1, <2>2, <2>5
  <2> QED BY <1>3, <2>1, <2>4, <2>5, CommitEffect
<1>4. CASE Worker /\ ~WorkerCommit
  BY <1>1, <1>4 DEF Worker, WorkerRead, WorkerLock, WorkerSkip, WorkerLoad,
     WorkerCommitFails, ServiceCrash, ServiceStart, disk, history
<1>5. CASE Administrator
  <2>1. store'.counter = store.counter
    <3>1. CASE ProvisionCommit
      BY <3>1 DEF ProvisionCommit, RecoveryInv, NoStaleCopy
    <3>2. CASE ~ProvisionCommit
      BY <1>5, <3>2 DEF Administrator, ProvisionStart, ProvisionLock, TakeLock,
         ProvisionLoad, ProvisionAborts, disk
    <3> QED BY <3>1, <3>2
  <2> QED BY <1>1, <1>5, <2>1, AdministratorFrame
<1> QED
  BY <1>1, <1>2, <1>3, <1>4, <1>5 DEF Next, vars, Tick, disk, history

(* The three processes and their files implement the ledger: one request    *)
(* spends a counter, counters are spent in order, and a release follows its *)
(* grant once.                                                              *)
THEOREM RecoveryImplementsLedger == Spec => ImplementsLedger
<1>1. Init => Ledger!Init
  BY DEF Init, Ledger!Init, NoState
<1> QED
  BY <1>1, LedgerStep, RecoveryInvariant, PTL DEF Spec, ImplementsLedger
=============================================================================
