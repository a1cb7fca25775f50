------------------------- MODULE BiosOperationProofs -------------------------
(***************************************************************************)
(* Proofs about BiosOperation, for any passwords, modes and number of      *)
(* operations.                                                             *)
(***************************************************************************)
EXTENDS BiosOperation, TLAPS

(* The type of one operation.                                               *)
Operation ==
    [mode : Modes \cup {"Other"}, current : Password, new : Password,
     worker : {"unused", "protect", "ready", "wait", "sent", "shown", "dead"},
     helper : Alive \cup {"none", "gone"}, secret : BOOLEAN, applied : BOOLEAN,
     code : {"none", "success", "failure"}, failure : Reasons,
     result : {"none", "success", "failure"}, lost : BOOLEAN,
     kept : SUBSET {"worker", "helper"}]

(* What the invariant says of one operation, in any state of the others:    *)
(* of its processes and what they report,                                   *)
Core(r) ==
    /\ r.mode # "Other" /\ r.helper # "gone" => Fits(r)
    /\ r.worker = "protect" => r.mode # "Other"
    /\ r.worker \in {"unused", "protect", "ready"} => r.helper = "none"
    /\ r.worker = "unused" => r.mode = "Other"
    /\ r.helper = "gone" => r.code # "none"
    /\ r.code # "none" => r.helper = "gone" \/ (r.lost /\ r.code = "failure")
    /\ r.mode # "Other" /\ r.code = "success" => r.applied
    /\ r.code = "failure" /\ r.applied => r.lost \/ r.failure \in {"report", "killed"}
    /\ r.applied => r.helper \in {"report", "gone"}
    /\ r.helper = "report" => r.applied
    /\ r.helper \in {"firmware", "report"} => r.mode # "Other"
    /\ r.result # "none" => (r.lost /\ r.result = "failure") \/ r.result = r.code
    /\ r.helper \in Alive => r.worker \in {"wait", "dead"} \/ r.lost
    /\ r.failure # "handoff"

(* of the worker and of the helper that should delete its secret file.      *)
WorkerMay(r) == r.worker \in {"ready", "wait", "dead"} \/ "worker" \in r.kept

HelperMay(r) ==
    r.helper = "gone" => r.failure \in {"declined", "account", "killed"} \/ "helper" \in r.kept

Held(r) == r.secret => r.mode # "Other" /\ WorkerMay(r) /\ HelperMay(r)

Right(r) == Core(r) /\ Held(r)

(* The invariant is that of each operation and of the channel.              *)
LEMMA InvIsRight ==
    BiosInv <=> /\ TypeOK /\ (\A o \in Ops : Right(op[o]))
                /\ CurrentIsUnread /\ OneByOne
BY DEF BiosInv, Right, Core, Held, WorkerMay, HelperMay, StagedFits, CodeIsHonest, AppliedIsReported, ResultIsCode,
       SecretIsHeld, HelperIsWatched, Elevated, HandoffFits

(* The same, of the state after a step.                                     *)
LEMMA RightIsInvNext ==
    ASSUME TypeOK', \A o \in Ops : Right(op'[o]), CurrentIsUnread', OneByOne'
    PROVE  BiosInv'
BY DEF BiosInv, Right, Core, Held, WorkerMay, HelperMay, StagedFits, CodeIsHonest, AppliedIsReported, ResultIsCode,
       SecretIsHeld, HelperIsWatched, Elevated, HandoffFits

(* An operation that never began, and one that is over, are right.          *)
LEMMA UnusedIsRight ==
    /\ Unused \in Operation /\ Right(Unused)
    /\ [Unused EXCEPT !.worker = "shown"] \in Operation
    /\ Right([Unused EXCEPT !.worker = "shown"])
    /\ Unused.worker = "unused"
BY DEF Unused, Operation, Right, Core, Held, Password, Reasons, Alive

(* Settling an operation changes none of this.                              *)
LEMMA SettledIsRight ==
    ASSUME NEW r \in Operation, Right(r)
    PROVE  /\ Settled(r) \in Operation /\ Right(Settled(r))
           /\ Settled(r).worker = r.worker \/ (r.worker = "dead" /\ Settled(r).worker = "shown")
<1>1. CASE Settled(r) = r
  BY <1>1
<1>2. CASE Settled(r) = [Unused EXCEPT !.worker = "shown"]
               /\ r.worker \in {"shown", "dead"}
  <2>1. Settled(r).worker = "shown"
    BY <1>2 DEF Unused
  <2> QED
    BY <1>2, <2>1, UnusedIsRight
<1> QED
  BY <1>1, <1>2 DEF Settled

(* The panel starts with no operation.                                      *)
LEMMA InitInv == Init => BiosInv
<1> SUFFICES ASSUME Init PROVE BiosInv
  OBVIOUS
<1> USE BiosOperationAssumption DEF Init
<1>1. \A o \in Ops : op[o] = Unused
  OBVIOUS
<1>2. TypeOK
  <2>1. op \in [Ops -> Operation]
    BY UnusedIsRight
  <2>2. app \in [alive : BOOLEAN, locked : BOOLEAN, tab : {"bios", "other"},
                 current : Ops \cup {NoOp}]
    OBVIOUS
  <2>3. form \in [mode : Modes, current : Password, new : Password] /\ FormFits
    BY DEF Empty, Modes, Password, FormFits
  <2> QED
    BY <2>1, <2>2, <2>3 DEF TypeOK, Operation
<1> QED
  BY <1>1, <1>2, UnusedIsRight, InvIsRight DEF CurrentIsUnread, OneByOne

(* The stages of a worker whose result has not been read.                   *)
Unread == {"protect", "ready", "wait", "sent"}

(* A step of one worker or helper keeps the invariant if it leaves the      *)
(* operation right and does not begin it anew.                              *)
LEMMA ChangeKeeps ==
    ASSUME BiosInv, NEW o \in Ops, NEW r \in Operation, Right(r), Change(o, r),
           faults' \in 0 .. MaxFaults,
           op[o].worker # "unused",
           r.worker \in Unread => op[o].worker \in Unread,
           op[o].worker \in {"shown", "dead"} => r.worker = op[o].worker
    PROVE  BiosInv'
<1> DEFINE new == Settled(r)
<1>1. /\ op' = [op EXCEPT ![o] = new] /\ UNCHANGED <<app, form, firmware>>
  BY DEF Change
<1>2. /\ new \in Operation /\ Right(new)
      /\ new.worker = r.worker \/ (r.worker = "dead" /\ new.worker = "shown")
  BY SettledIsRight
<1> HIDE DEF new
<1>3. /\ op' \in [Ops -> Operation] /\ op'[o] = new
      /\ \A p \in Ops \ {o} : op'[p] = op[p]
  BY <1>1, <1>2 DEF BiosInv, TypeOK, Operation
<1>4. TypeOK'
  BY <1>1, <1>3 DEF BiosInv, TypeOK, FormFits, Operation
<1>5. \A p \in Ops : Right(op'[p])
  BY <1>2, <1>3, InvIsRight
<1>6. CurrentIsUnread'
  BY <1>1, <1>2, <1>3 DEF BiosInv, CurrentIsUnread, Unread
<1>7. OneByOne'
  BY <1>2, <1>3 DEF BiosInv, OneByOne
<1> QED
  BY <1>4, <1>5, <1>6, <1>7, RightIsInvNext

(* Faults are counted up to their bound.                                    *)
LEMMA FaultsBounded ==
    ASSUME BiosInv, faults' = faults \/ Fault
    PROVE  faults' \in 0 .. MaxFaults
BY BiosOperationAssumption DEF BiosInv, TypeOK, Fault

(* A deletion deletes the file, or leaves it and says who failed.           *)
LEMMA RemovalEnds ==
    ASSUME NEW o, NEW r, NEW who, Removes(o, r, who) \/ RemovesOnFault(o, r, who)
    PROVE  \E d \in {Removed(r), Kept(r, who)} : Change(o, d) /\ (faults' = faults \/ Fault)
BY DEF Removes, RemovesOnFault

(* Either way the operation is right, if the other of the two had its       *)
(* excuse already.                                                          *)
LEMMA RemovalIsRight ==
    ASSUME NEW r \in Operation, Core(r), r.secret => r.mode # "Other",
           NEW who \in {"worker", "helper"},
           r.secret /\ who = "helper" => WorkerMay(r),
           r.secret /\ who = "worker" => HelperMay(r),
           NEW d \in {Removed(r), Kept(r, who)}
    PROVE  d \in Operation /\ Right(d) /\ d.worker = r.worker
<1>1. /\ d.mode = r.mode /\ d.current = r.current /\ d.new = r.new
      /\ d.worker = r.worker /\ d.helper = r.helper
      /\ d.applied = r.applied /\ d.code = r.code /\ d.failure = r.failure
      /\ d.result = r.result /\ d.lost = r.lost
  BY DEF Operation, Removed, Kept
<1>2. d.secret => r.secret /\ d.kept = r.kept \cup {who}
  BY DEF Operation, Removed, Kept
<1>3. d \in Operation
  <2>1. CASE d = Removed(r)
    BY <2>1 DEF Operation, Removed
  <2>2. CASE d = Kept(r, who) /\ r.secret
    <3>1. r.kept \cup {who} \in SUBSET {"worker", "helper"}
      BY DEF Operation
    <3>2. d = [r EXCEPT !.kept = r.kept \cup {who}]
      BY <2>2 DEF Kept
    <3> QED
      BY <3>1, <3>2 DEF Operation
  <2>3. CASE d = Kept(r, who) /\ ~r.secret
    BY <2>3 DEF Kept
  <2> QED
    BY <2>1, <2>2, <2>3
<1>4. Core(d)
  <2>1. Fits(d) = Fits(r)
    BY <1>1 DEF Fits
  <2> QED
    BY <1>1, <2>1 DEF Core
<1>5. Held(d)
  BY <1>1, <1>2 DEF Held, WorkerMay, HelperMay
<1> QED
  BY <1>1, <1>3, <1>4, <1>5 DEF Right

(* A worker that ends with a deletion.                                      *)
LEMMA SentKeeps ==
    ASSUME BiosInv, NEW o \in Ops, op[o].worker \in {"protect", "ready", "wait"},
           NEW r \in Operation, Core(r), r.worker = "sent",
           r.secret => r.mode # "Other" /\ HelperMay(r),
           Removes(o, r, "worker") \/ RemovesOnFault(o, r, "worker")
    PROVE  BiosInv'
<1>1. PICK d \in {Removed(r), Kept(r, "worker")} : Change(o, d) /\ (faults' = faults \/ Fault)
  BY RemovalEnds
<1>2. d \in Operation /\ Right(d) /\ d.worker = "sent"
  BY RemovalIsRight
<1> QED
  BY <1>1, <1>2, FaultsBounded, ChangeKeeps DEF Unread

(* The worker thread.                                                       *)
LEMMA WorkerKeeps ==
    ASSUME BiosInv, NEW o \in Ops, Worker(o)
    PROVE  BiosInv'
<1>0. op[o] \in Operation /\ Right(op[o])
  BY InvIsRight DEF TypeOK, Operation
<1>1. CASE Stage(o)
  <2> DEFINE r == [op[o] EXCEPT !.worker = "ready", !.secret = TRUE]
  <2>1. op[o].worker = "protect" /\ Change(o, r) /\ faults' = faults
    BY <1>1 DEF Stage
  <2>2. r \in Operation /\ r.worker = "ready"
    BY <1>0 DEF Operation
  <2>3. Right(r)
    BY <1>0, <2>1 DEF Right, Core, Held, WorkerMay, HelperMay, Operation, Alive, Fits
  <2> HIDE DEF r
  <2> QED
    BY <1>0, <2>1, <2>2, <2>3, FaultsBounded, ChangeKeeps DEF Unread
<1>2. CASE Spawn(o)
  <2> DEFINE r == [op[o] EXCEPT !.worker = "wait", !.helper = "prompt"]
  <2>1. op[o].worker = "ready" /\ Change(o, r) /\ faults' = faults
    BY <1>2 DEF Spawn
  <2>2. r \in Operation /\ r.worker = "wait"
    BY <1>0 DEF Operation, Alive
  <2>3. Right(r)
    BY <1>0, <2>1 DEF Right, Core, Held, WorkerMay, HelperMay, Operation, Alive, Fits
  <2> HIDE DEF r
  <2> QED
    BY <1>0, <2>1, <2>2, <2>3, FaultsBounded, ChangeKeeps DEF Unread
<1>3. CASE SpawnFails(o) \/ ExitUnknown(o)
  <2> DEFINE r == Lost(op[o])
  <2>1. /\ op[o].worker \in {"protect", "ready", "wait"}
        /\ RemovesOnFault(o, r, "worker")
    BY <1>3 DEF SpawnFails, ExitUnknown
  <2>2. r \in Operation /\ r.worker = "sent"
    BY <1>0 DEF Operation, Lost, Sent
  <2>3. Core(r)
    BY <1>0, <2>1 DEF Right, Core, Operation, Lost, Sent, Fits
  <2>4. r.secret => r.mode # "Other" /\ HelperMay(r)
    BY <1>0 DEF Right, Held, HelperMay, Operation, Lost, Sent
  <2> HIDE DEF r
  <2> QED
    BY <2>1, <2>2, <2>3, <2>4, SentKeeps
<1>4. CASE Exit(o)
  <2> DEFINE r == Sent(op[o], op[o].code)
  <2>1. /\ op[o].worker = "wait" /\ op[o].code # "none"
        /\ Removes(o, r, "worker")
    BY <1>4 DEF Exit
  <2>2. r \in Operation /\ r.worker = "sent"
    BY <1>0 DEF Operation, Sent
  <2>3. Core(r)
    BY <1>0, <2>1 DEF Right, Core, Operation, Sent, Fits, Alive
  <2>4. r.secret => r.mode # "Other" /\ HelperMay(r)
    BY <1>0 DEF Right, Held, HelperMay, Operation, Sent
  <2> HIDE DEF r
  <2> QED
    BY <2>1, <2>2, <2>3, <2>4, SentKeeps
<1>5. CASE StageFails(o)
  <2>1. PICK written \in BOOLEAN :
          RemovesOnFault(o, Lost([op[o] EXCEPT !.secret = written]), "worker")
    BY <1>5 DEF StageFails
  <2> DEFINE r == Lost([op[o] EXCEPT !.secret = written])
  <2>2. op[o].worker = "protect" /\ RemovesOnFault(o, r, "worker")
    BY <1>5, <2>1 DEF StageFails
  <2>3. r \in Operation /\ r.worker = "sent"
    BY <1>0 DEF Operation, Lost, Sent
  <2>4. Core(r)
    BY <1>0, <2>2 DEF Right, Core, Operation, Lost, Sent, Fits
  <2>5. r.secret => r.mode # "Other" /\ HelperMay(r)
    BY <1>0, <2>2 DEF Right, Core, HelperMay, Operation, Lost, Sent
  <2> HIDE DEF r
  <2> QED
    BY <2>2, <2>3, <2>4, <2>5, SentKeeps
<1> QED
  BY <1>1, <1>2, <1>3, <1>4, <1>5 DEF Worker

(* Why a helper may end: not with its report unless it applied the change.  *)
Ending(r, why) ==
    \/ r.helper = "report" <=> why \in {"none", "report"}
    \/ why = "killed"
    \/ r.mode = "Other" /\ why \in {"none", "rejected"}

(* What the exit code will say is true.                                     *)
LEMMA EndingIsHonest ==
    ASSUME NEW r, NEW why, Core(r), r.helper \in Alive, Ending(r, why)
    PROVE  /\ r.mode # "Other" /\ why = "none" => r.applied
           /\ r.applied /\ why # "none" => why \in {"report", "killed"}
           /\ r.result # "none" => r.lost /\ r.result = "failure"
           /\ r.code # "none" => r.lost /\ r.code = "failure"
<1>1. r.helper # "gone"
  BY DEF Alive
<1>2. r.code # "none" => r.lost /\ r.code = "failure"
  BY <1>1 DEF Core
<1>3. r.applied => r.helper = "report"
  BY <1>1 DEF Core
<1>4. r.helper = "report" => r.applied /\ r.mode # "Other"
  BY DEF Core
<1>5. r.result # "none" => r.lost /\ r.result = "failure"
  BY <1>2 DEF Core
<1>6. r.mode # "Other" /\ why = "none" => r.applied
  BY <1>4 DEF Ending
<1>7. r.applied /\ why # "none" => why \in {"report", "killed"}
  BY <1>3, <1>4 DEF Ending
<1> QED
  BY <1>2, <1>5, <1>6, <1>7

(* An ended helper has an exit code, and says why.                          *)
LEMMA GoneIsCore ==
    ASSUME NEW r \in Operation, Core(r), r.helper \in Alive,
           NEW why \in Reasons \ {"handoff"}, Ending(r, why)
    PROVE  /\ HelperGone(r, why) \in Operation /\ Core(HelperGone(r, why))
           /\ HelperGone(r, why).helper = "gone" /\ HelperGone(r, why).failure = why
           /\ HelperGone(r, why).worker = r.worker /\ HelperGone(r, why).mode = r.mode
           /\ HelperGone(r, why).secret = r.secret /\ HelperGone(r, why).kept = r.kept
<1> DEFINE g == HelperGone(r, why)
<1>1. g \in Operation
  BY DEF HelperGone, Operation, Password
<1>2. /\ g.helper = "gone" /\ g.mode = r.mode /\ g.failure = why /\ g.worker = r.worker
      /\ g.code = (IF r.code # "none" THEN r.code ELSE IF why = "none" THEN "success" ELSE "failure")
      /\ g.applied = r.applied /\ g.result = r.result /\ g.lost = r.lost
      /\ g.secret = r.secret /\ g.kept = r.kept
  BY DEF HelperGone, Operation
<1> HIDE DEF g
<1>3. /\ r.helper # "none"
      /\ r.worker \in {"wait", "dead"} \/ r.lost
      /\ r.worker \notin {"unused", "protect", "ready"}
  BY DEF Core, Alive
<1>4. /\ r.mode # "Other" /\ why = "none" => r.applied
      /\ r.applied /\ why # "none" => why \in {"report", "killed"}
      /\ r.result # "none" => r.lost /\ r.result = "failure"
      /\ r.code # "none" => r.lost /\ r.code = "failure"
  BY EndingIsHonest
<1>5. Core(g)
  BY <1>2, <1>3, <1>4 DEF Core, Alive
<1> QED
  BY <1>1, <1>2, <1>5 DEF g

(* A helper that ends so, with or without its cleanup.                      *)
LEMMA EndKeeps ==
    ASSUME BiosInv, NEW o \in Ops, op[o].helper \in Alive,
           NEW why \in Reasons \ {"handoff"}, Ending(op[o], why),
           \/ Finally(o, why)
           \/ RemovesOnFault(o, HelperGone(op[o], why), "helper")
           \/ /\ Change(o, HelperGone(op[o], why)) /\ (faults' = faults \/ Fault)
              /\ ~op[o].secret \/ why \in {"declined", "account", "killed"}
    PROVE  BiosInv'
<1> DEFINE g == HelperGone(op[o], why)
<1>1. op[o] \in Operation /\ Right(op[o])
  BY InvIsRight DEF TypeOK, Operation
<1>3. /\ g \in Operation /\ Core(g) /\ g.helper = "gone" /\ g.failure = why
      /\ g.worker = op[o].worker /\ g.mode = op[o].mode
      /\ g.secret = op[o].secret /\ g.kept = op[o].kept
  BY <1>1, GoneIsCore DEF Right
<1>4. op[o].worker # "unused"
  BY <1>1 DEF Right, Core, Alive
<1>5. g.secret => g.mode # "Other" /\ WorkerMay(g)
  BY <1>1, <1>3 DEF Right, Held, WorkerMay
<1> HIDE DEF g
<1>6. CASE Removes(o, g, "helper") \/ RemovesOnFault(o, g, "helper")
  <2>1. PICK d \in {Removed(g), Kept(g, "helper")} :
          Change(o, d) /\ (faults' = faults \/ Fault)
    BY <1>6, RemovalEnds
  <2>2. d \in Operation /\ Right(d) /\ d.worker = op[o].worker
    BY <1>3, <1>5, RemovalIsRight
  <2> QED
    BY <1>4, <2>1, <2>2, FaultsBounded, ChangeKeeps
<1>7. CASE /\ Change(o, g) /\ (faults' = faults \/ Fault)
           /\ ~op[o].secret \/ why \in {"declined", "account", "killed"}
  <2>1. Right(g)
    BY <1>3, <1>5, <1>7 DEF Right, Held, HelperMay
  <2> QED
    BY <1>3, <1>4, <1>7, <2>1, FaultsBounded, ChangeKeeps
<1> QED
  BY <1>6, <1>7 DEF g, Finally

(* UAC and the helper.                                                      *)
LEMMA HelperKeeps ==
    ASSUME BiosInv, NEW o \in Ops, Helper(o)
    PROVE  BiosInv'
<1>0. op[o] \in Operation /\ Right(op[o])
  BY InvIsRight DEF TypeOK, Operation
<1>1. CASE Decline(o)
  BY <1>0, <1>1, EndKeeps DEF Decline, Alive, Reasons, Ending
<1>2. CASE Approve(o)
  <2>1. PICK account \in {"own", "other"} : Change(o, [op[o] EXCEPT !.helper = account])
    BY <1>2 DEF Approve
  <2> DEFINE r == [op[o] EXCEPT !.helper = account]
  <2>2. op[o].helper = "prompt" /\ Change(o, r) /\ faults' = faults
    BY <1>2, <2>1 DEF Approve
  <2>3. r \in Operation /\ r.worker = op[o].worker
    BY <1>0 DEF Operation, Alive
  <2>4. Right(r)
    BY <1>0, <2>2 DEF Right, Core, Held, WorkerMay, HelperMay, Operation, Alive, Fits
  <2>5. op[o].worker # "unused"
    BY <1>0, <2>2 DEF Right, Core, Alive
  <2> HIDE DEF r
  <2> QED
    BY <1>0, <2>2, <2>3, <2>4, <2>5, FaultsBounded, ChangeKeeps
<1>3. CASE OutsideTemp(o)
  BY <1>0, <1>3, EndKeeps DEF OutsideTemp, Alive, Reasons, Ending
<1>4. CASE Decrypt(o)
  <2>1. op[o].helper = "own" /\ op[o].mode # "Other"
    BY <1>4 DEF Decrypt
  <2>2. Fits(op[o])
    BY <1>0, <2>1 DEF Right, Core
  <2>3. CASE ~op[o].secret
    BY <1>0, <1>4, <2>1, <2>3, EndKeeps DEF Decrypt, Alive, Reasons, Ending
  <2>4. CASE op[o].secret
    <3> DEFINE r == [op[o] EXCEPT !.helper = "firmware"]
    <3>1. Change(o, r) /\ faults' = faults
      BY <1>4, <2>2, <2>4 DEF Decrypt
    <3>2. r \in Operation /\ r.worker = op[o].worker
      BY <1>0 DEF Operation, Alive
    <3>3. Right(r)
      BY <1>0, <2>1 DEF Right, Core, Held, WorkerMay, HelperMay, Operation, Alive, Fits
    <3>4. op[o].worker # "unused"
      BY <1>0, <2>1 DEF Right, Core, Alive
    <3> HIDE DEF r
    <3> QED
      BY <1>0, <2>1, <3>1, <3>2, <3>3, <3>4, FaultsBounded, ChangeKeeps
  <2> QED
    BY <2>3, <2>4, <1>0 DEF Operation
<1>5. CASE FirmwareAccepts(o)
  <2> DEFINE r == [op[o] EXCEPT !.helper = "report", !.applied = TRUE]
  <2>1. /\ op[o].helper = "firmware" /\ op' = [op EXCEPT ![o] = r]
        /\ firmware' = op[o].new /\ UNCHANGED <<app, form, faults>>
    BY <1>5 DEF FirmwareAccepts
  <2>2. r \in Operation /\ r.worker = op[o].worker
    BY <1>0 DEF Operation, Alive
  <2>3. Right(r)
    BY <1>0, <2>1 DEF Right, Core, Held, WorkerMay, HelperMay, Operation, Alive, Fits
  <2> HIDE DEF r
  <2>4. /\ op' \in [Ops -> Operation] /\ op'[o] = r
        /\ \A p \in Ops \ {o} : op'[p] = op[p]
    BY <2>1, <2>2 DEF BiosInv, TypeOK, Operation
  <2>5. TypeOK'
    BY <1>0, <2>1, <2>4 DEF BiosInv, TypeOK, FormFits, Operation
  <2>6. \A p \in Ops : Right(op'[p])
    BY <2>3, <2>4, InvIsRight
  <2>7. CurrentIsUnread' /\ OneByOne'
    BY <2>1, <2>2, <2>4 DEF BiosInv, CurrentIsUnread, OneByOne
  <2> QED
    BY <2>5, <2>6, <2>7, RightIsInvNext
<1>6. CASE FirmwareRejects(o)
  BY <1>0, <1>6, EndKeeps DEF FirmwareRejects, Alive, Reasons, Ending
<1>7. CASE Report(o)
  BY <1>0, <1>7, EndKeeps DEF Report, Alive, Reasons, Ending
<1>8. CASE ReportFails(o)
  BY <1>8, EndKeeps DEF ReportFails, Alive, Reasons, Ending
<1>9. CASE OtherEnds(o)
  <2>1. PICK why \in {"none", "rejected"} : Change(o, HelperGone(op[o], why))
    BY <1>9 DEF OtherEnds
  <2>2. /\ op[o].helper \in Alive /\ op[o].mode = "Other" /\ faults' = faults
        /\ ~op[o].secret
    BY <1>0, <1>9 DEF OtherEnds, Alive, Right, Held
  <2> QED
    BY <1>0, <2>1, <2>2, EndKeeps DEF Reasons, Ending
<1>10. CASE Killed(o)
  BY <1>10, EndKeeps DEF Killed, Reasons, Ending
<1>11. CASE OuterKilled(o)
  <2> DEFINE r == [op[o] EXCEPT !.code = "failure", !.lost = TRUE]
  <2>1. /\ op[o].helper \in Alive /\ op[o].worker = "wait" /\ op[o].code = "none"
        /\ Change(o, r) /\ Fault
    BY <1>11 DEF OuterKilled
  <2>2. r \in Operation /\ r.worker = op[o].worker
    BY <1>0 DEF Operation
  <2>3. Right(r)
    BY <1>0, <2>1 DEF Right, Core, Held, WorkerMay, HelperMay, Operation, Alive, Fits
  <2> HIDE DEF r
  <2> QED
    BY <2>1, <2>2, <2>3, FaultsBounded, ChangeKeeps
<1> QED
  BY <1>1, <1>2, <1>3, <1>4, <1>5, <1>6, <1>7, <1>8, <1>9, <1>10, <1>11 DEF Helper

(* The steps of the screen that leave the operations alone.                 *)
LEMMA FormKeeps ==
    ASSUME BiosInv, ChangeLock \/ Start \/ SelectTab \/ Fill
    PROVE  BiosInv'
<1>1. UNCHANGED <<op, firmware, faults>>
  BY DEF ChangeLock, Start, SelectTab, Fill
<1>2. /\ app \in [alive : BOOLEAN, locked : BOOLEAN, tab : {"bios", "other"},
                  current : Ops \cup {NoOp}]
      /\ form \in [mode : Modes, current : Password, new : Password]
      /\ FormFits
  BY DEF BiosInv, TypeOK
<1>3. /\ app' \in [alive : BOOLEAN, locked : BOOLEAN, tab : {"bios", "other"},
                   current : Ops \cup {NoOp}]
      /\ app'.current = app.current
  <2>1. CASE ChangeLock
    BY <1>2, <2>1 DEF ChangeLock
  <2>2. CASE Start
    BY <1>2, <2>2 DEF Start
  <2>3. CASE SelectTab
    BY <1>2, <2>3 DEF SelectTab
  <2>4. CASE Fill
    BY <1>2, <2>4 DEF Fill
  <2> QED
    BY <2>1, <2>2, <2>3, <2>4
<1>4. form' \in [mode : Modes, current : Password, new : Password] /\ FormFits'
  <2>1. CASE ChangeLock
    BY <1>2, <2>1 DEF ChangeLock, FormFits
  <2>2. CASE Start
    BY <1>2, <2>2 DEF Start, FormFits
  <2>3. CASE SelectTab
    BY <1>2, <2>3 DEF SelectTab, FormFits, Empty, Password
  <2>4. CASE Fill
    <3>1. app' = app /\ app.tab = "bios"
      BY <2>4 DEF Fill
    <3>2. CASE \E mode \in Modes \ {form.mode} : form' = Selected(mode)
      BY <1>2, <3>1, <3>2 DEF FormFits, Selected, Empty, Password
    <3>3. CASE form' \in Typed
      BY <1>2, <3>1, <3>3 DEF FormFits, Typed
    <3> QED
      BY <2>4, <3>2, <3>3 DEF Fill
  <2> QED
    BY <2>1, <2>2, <2>3, <2>4
<1>5. TypeOK'
  BY <1>1, <1>3, <1>4 DEF BiosInv, TypeOK
<1>6. \A p \in Ops : Right(op'[p])
  BY <1>1, InvIsRight
<1>7. CurrentIsUnread' /\ OneByOne'
  BY <1>1, <1>3 DEF BiosInv, CurrentIsUnread, OneByOne
<1> QED
  BY <1>5, <1>6, <1>7, RightIsInvNext

(* An operation whose worker died is as right as before.                    *)
LEMMA DeadIsRight ==
    ASSUME NEW r \in Operation, Right(r)
    PROVE  Right([r EXCEPT !.worker = "dead"])
<1> DEFINE d == [r EXCEPT !.worker = "dead"]
<1>1. /\ d.mode = r.mode /\ d.current = r.current /\ d.new = r.new
      /\ d.worker = "dead" /\ d.helper = r.helper /\ d.secret = r.secret
      /\ d.applied = r.applied /\ d.code = r.code /\ d.failure = r.failure
      /\ d.result = r.result /\ d.lost = r.lost /\ d.kept = r.kept
  BY DEF Operation
<1>2. Fits(d) = Fits(r)
  BY <1>1 DEF Fits
<1> HIDE DEF d
<1>3. Right(d)
  BY <1>1, <1>2 DEF Right, Core, Held, WorkerMay, HelperMay
<1> QED
  BY <1>3 DEF d

(* Nor does it matter that the result of an operation was shown.            *)
LEMMA ShownIsRight ==
    ASSUME NEW r \in Operation, Right(r), r.worker = "sent"
    PROVE  Right([r EXCEPT !.worker = "shown"])
<1> DEFINE d == [r EXCEPT !.worker = "shown"]
<1>1. /\ d.mode = r.mode /\ d.current = r.current /\ d.new = r.new
      /\ d.worker = "shown" /\ d.helper = r.helper /\ d.secret = r.secret
      /\ d.applied = r.applied /\ d.code = r.code /\ d.failure = r.failure
      /\ d.result = r.result /\ d.lost = r.lost /\ d.kept = r.kept
  BY DEF Operation
<1>2. Fits(d) = Fits(r)
  BY <1>1 DEF Fits
<1> HIDE DEF d
<1>3. Right(d)
  BY <1>1, <1>2 DEF Right, Core, Held, WorkerMay, HelperMay
<1> QED
  BY <1>3 DEF d

(* No operation is named 0.                                                 *)
LEMMA NoOpIsNone == NoOp \notin Ops
BY BiosOperationAssumption DEF NoOp, Ops

(* The end of the application: its workers die, its helpers live on.        *)
LEMMA EndsKeeps ==
    ASSUME BiosInv, Close \/ Crash
    PROVE  BiosInv'
<1>0. op \in [Ops -> Operation] /\ (\A o \in Ops : Right(op[o])) /\ faults \in 0 .. MaxFaults
  BY InvIsRight DEF TypeOK, Operation
<1>1. Ends /\ faults' \in 0 .. MaxFaults
  BY <1>0, BiosOperationAssumption DEF Close, Crash, Fault
<1> DEFINE dead(o) == [op[o] EXCEPT !.worker = "dead"]
           new(o) == IF op[o].worker \in Unread THEN Settled(dead(o)) ELSE op[o]
<1>2. \A o \in Ops :
        /\ new(o) \in Operation /\ Right(new(o))
        /\ new(o).worker = op[o].worker
           \/ (op[o].worker # "unused" /\ new(o).worker \in {"shown", "dead"})
        /\ new(o).worker \notin Unread
  <2> SUFFICES ASSUME NEW o \in Ops
               PROVE  /\ new(o) \in Operation /\ Right(new(o))
                      /\ new(o).worker = op[o].worker
                         \/ (op[o].worker # "unused" /\ new(o).worker \in {"shown", "dead"})
                      /\ new(o).worker \notin Unread
    OBVIOUS
  <2>1. CASE op[o].worker \in Unread
    <3>1. op[o] \in Operation /\ Right(op[o]) /\ op[o].worker # "unused"
      BY <1>0, <2>1 DEF Unread
    <3>2. dead(o) \in Operation /\ dead(o).worker = "dead"
      BY <3>1 DEF Operation
    <3>3. Right(dead(o))
      BY <3>1, DeadIsRight
    <3> HIDE DEF dead
    <3>4. /\ Settled(dead(o)) \in Operation /\ Right(Settled(dead(o)))
          /\ Settled(dead(o)).worker \in {"shown", "dead"}
      BY <3>2, <3>3, SettledIsRight
    <3> QED
      BY <2>1, <3>1, <3>4 DEF Unread
  <2>2. CASE op[o].worker \notin Unread
    BY <1>0, <2>2
  <2> QED
    BY <2>1, <2>2
<1>3. /\ op' = [o \in Ops |-> new(o)]
      /\ app' = [app EXCEPT !.alive = FALSE, !.locked = FALSE, !.current = NoOp]
      /\ form' = Empty /\ firmware' = firmware
  BY <1>1 DEF Ends, Unread
<1> HIDE DEF new
<1>4. op' \in [Ops -> Operation] /\ \A o \in Ops : op'[o] = new(o)
  BY <1>2, <1>3
<1>5. TypeOK'
  <2>1. app' \in [alive : BOOLEAN, locked : BOOLEAN, tab : {"bios", "other"},
                  current : Ops \cup {NoOp}]
    BY <1>3 DEF BiosInv, TypeOK
  <2>2. form' \in [mode : Modes, current : Password, new : Password] /\ FormFits'
    BY <1>3 DEF Empty, Modes, Password, FormFits
  <2>3. firmware' \in Password
    BY <1>3 DEF BiosInv, TypeOK
  <2> QED
    BY <1>1, <1>4, <2>1, <2>2, <2>3 DEF TypeOK, Operation
<1>6. \A o \in Ops : Right(op'[o])
  BY <1>2, <1>4
<1>7. CurrentIsUnread'
  BY <1>2, <1>4 DEF CurrentIsUnread, Unread
<1>8. OneByOne'
  BY <1>2, <1>4 DEF BiosInv, OneByOne
<1> QED
  BY <1>5, <1>6, <1>7, <1>8, RightIsInvNext

(* The result of the operation is read.                                     *)
LEMMA PollKeeps ==
    ASSUME BiosInv, Poll
    PROVE  BiosInv'
<1> DEFINE o == app.current
           r == [op[o] EXCEPT !.worker = "shown"]
<1>1. /\ op \in [Ops -> Operation] /\ (\A p \in Ops : Right(op[p]))
      /\ app.current \in Ops \cup {NoOp}
  BY InvIsRight DEF TypeOK, Operation
<1>2. /\ o \in Ops /\ op[o].worker = "sent" /\ op' = [op EXCEPT ![o] = Settled(r)]
      /\ app' = [app EXCEPT !.current = NoOp] /\ UNCHANGED <<form, firmware, faults>>
  BY <1>1 DEF Poll
<1> HIDE DEF o
<1>3. op[o] \in Operation /\ Right(op[o])
  BY <1>1, <1>2
<1>4. r \in Operation /\ r.worker = "shown"
  BY <1>3 DEF Operation
<1>5. Right(r)
  BY <1>2, <1>3, ShownIsRight
<1> HIDE DEF r
<1>6. Settled(r) \in Operation /\ Right(Settled(r)) /\ Settled(r).worker = "shown"
  BY <1>4, <1>5, SettledIsRight
<1>7. /\ op' \in [Ops -> Operation] /\ op'[o] = Settled(r)
      /\ \A p \in Ops \ {o} : op'[p] = op[p]
  BY <1>1, <1>2, <1>6
<1>8. TypeOK'
  <2>1. app' \in [alive : BOOLEAN, locked : BOOLEAN, tab : {"bios", "other"},
                  current : Ops \cup {NoOp}] /\ app'.tab = app.tab
    BY <1>2 DEF BiosInv, TypeOK
  <2> QED
    BY <1>2, <1>7, <2>1 DEF BiosInv, TypeOK, FormFits, Operation
<1>9. \A p \in Ops : Right(op'[p])
  BY <1>1, <1>6, <1>7
<1>10. CurrentIsUnread'
  <2> SUFFICES ASSUME NEW p \in Ops, op'[p].worker \in Unread PROVE FALSE
    BY DEF CurrentIsUnread, Unread
  <2>1. p # o
    BY <1>6, <1>7 DEF Unread
  <2>2. op[p].worker \in Unread
    BY <1>7, <2>1
  <2> QED
    BY <2>1, <2>2 DEF BiosInv, CurrentIsUnread, Unread, o
<1>11. OneByOne'
  BY <1>2, <1>6, <1>7 DEF BiosInv, OneByOne
<1> QED
  BY <1>8, <1>9, <1>10, <1>11, RightIsInvNext

(* A new operation begins while the channel is free.                        *)
LEMMA BeginKeeps ==
    ASSUME BiosInv, Available, NEW o \in Ops, NEW r \in Operation, Right(r), Begin(o, r),
           r.worker # "unused",
           form' = form \/ form' = [Empty EXCEPT !.mode = form.mode]
    PROVE  BiosInv'
<1>1. /\ op \in [Ops -> Operation] /\ (\A p \in Ops : Right(op[p]))
      /\ app.current = NoOp
  BY InvIsRight DEF TypeOK, Operation, Available
<1>2. /\ op[o].worker = "unused" /\ \A p \in 1 .. o - 1 : op[p].worker # "unused"
      /\ op' = [op EXCEPT ![o] = r]
      /\ app' = [app EXCEPT !.current = o]
      /\ UNCHANGED <<firmware, faults>>
  BY DEF Begin
<1>3. /\ op' \in [Ops -> Operation] /\ op'[o] = r
      /\ \A p \in Ops \ {o} : op'[p] = op[p]
  BY <1>1, <1>2
<1>4. TypeOK'
  <2>1. app' \in [alive : BOOLEAN, locked : BOOLEAN, tab : {"bios", "other"},
                  current : Ops \cup {NoOp}] /\ app'.tab = app.tab /\ app'.current = o
    BY <1>2 DEF BiosInv, TypeOK
  <2>2. form' \in [mode : Modes, current : Password, new : Password] /\ FormFits'
    <3>1. CASE form' = form
      BY <2>1, <3>1 DEF BiosInv, TypeOK, FormFits
    <3>2. CASE form' = [Empty EXCEPT !.mode = form.mode]
      BY <3>2 DEF BiosInv, TypeOK, FormFits, Empty, Password
    <3> QED
      BY <3>1, <3>2
  <2> QED
    BY <1>2, <1>3, <2>1, <2>2 DEF BiosInv, TypeOK, Operation
<1>5. \A p \in Ops : Right(op'[p])
  BY <1>1, <1>3
<1>6. \A p \in Ops : op[p].worker \notin Unread
  BY <1>1, NoOpIsNone DEF BiosInv, CurrentIsUnread, Unread
<1>7. CurrentIsUnread'
  <2>1. app'.current = o
    BY <1>2 DEF BiosInv, TypeOK
  <2> QED
    BY <1>3, <1>6, <2>1 DEF CurrentIsUnread, Unread
<1>8. OneByOne'
  <2> SUFFICES ASSUME NEW p \in Ops, NEW q \in Ops, p < q, op'[q].worker # "unused"
               PROVE  op'[p].worker \in {"shown", "dead"}
    BY DEF OneByOne
  <2>1. CASE q = o
    <3>1. p \in 1 .. o - 1 /\ p # o
      BY <2>1, BiosOperationAssumption DEF Ops
    <3>2. op[p].worker # "unused" /\ op[p] \in Operation
      BY <1>1, <1>2, <3>1
    <3> QED
      BY <1>3, <1>6, <3>1, <3>2 DEF Unread, Operation
  <2>2. CASE q # o
    <3>1. op[q].worker # "unused" /\ op[p].worker \in {"shown", "dead"}
      BY <1>3, <2>2 DEF BiosInv, OneByOne
    <3>2. p # o
      BY <1>2, <3>1
    <3> QED
      BY <1>3, <3>1, <3>2
  <2> QED
    BY <2>1, <2>2
<1> QED
  BY <1>4, <1>5, <1>7, <1>8, RightIsInvNext

(* A valid form fits its mode: "Set" has no current password, "Remove" no   *)
(* new one.                                                                 *)
LEMMA ApplyKeeps ==
    ASSUME BiosInv, NEW o \in Ops, ApplyBiosPassword(o)
    PROVE  BiosInv'
<1> DEFINE r == [Unused EXCEPT !.worker = "protect", !.mode = form.mode,
                               !.current = form.current, !.new = form.new]
<1>1. /\ Available /\ app.tab = "bios" /\ FieldsValid /\ Begin(o, r)
      /\ form' = [Empty EXCEPT !.mode = form.mode]
  BY DEF ApplyBiosPassword
<1>2. form \in [mode : Modes, current : Password, new : Password] /\ FormFits
  BY DEF BiosInv, TypeOK
<1>3. r \in Operation /\ r.worker = "protect"
  BY <1>2 DEF Operation, Unused, Reasons, Password
<1>4. Right(r)
  <2>1. /\ r.mode = form.mode /\ r.current = form.current /\ r.new = form.new
        /\ r.worker = "protect" /\ r.helper = "none" /\ ~r.secret /\ ~r.applied
        /\ r.code = "none" /\ r.failure = "none" /\ r.result = "none" /\ ~r.lost
    BY <1>2 DEF Unused
  <2> HIDE DEF r
  <2>2. Fits(r)
    BY <1>1, <1>2, <2>1 DEF Fits, FieldsValid, FormFits, Modes
  <2>3. r.mode # "Other"
    BY <1>2, <2>1 DEF Modes
  <2> QED
    BY <2>1, <2>2, <2>3 DEF Right, Core, Held, Alive
<1> HIDE DEF r
<1> QED
  BY <1>1, <1>3, <1>4, BeginKeeps

(* The operations without a secret.                                         *)
LEMMA OtherKeeps ==
    ASSUME BiosInv, NEW o \in Ops, OtherOperation(o)
    PROVE  BiosInv'
<1> DEFINE r == [Unused EXCEPT !.worker = "ready"]
<1>1. /\ Available /\ Begin(o, r)
      /\ form' = form \/ form' = [Empty EXCEPT !.mode = form.mode]
  BY DEF OtherOperation, InstallBiosAdapter, RestartIntoFirmware, RefreshHealth, BeginOther
<1>2. r \in Operation /\ r.worker = "ready"
  BY DEF Operation, Unused, Reasons, Password, Alive
<1>3. Right(r)
  BY DEF Right, Core, Held, Unused, Alive
<1> HIDE DEF r
<1> QED
  BY <1>1, <1>2, <1>3, BeginKeeps

(* Every step keeps the invariant.                                          *)
LEMMA InvStep == BiosInv /\ [Next]_vars => BiosInv'
<1> SUFFICES ASSUME BiosInv, [Next]_vars PROVE BiosInv'
  OBVIOUS
<1>1. CASE UNCHANGED vars
  <2>1. UNCHANGED <<app, form, op, firmware, faults>>
    BY <1>1 DEF vars
  <2>2. TypeOK'
    BY <2>1 DEF BiosInv, TypeOK, FormFits
  <2>3. (\A o \in Ops : Right(op'[o])) /\ CurrentIsUnread' /\ OneByOne'
    BY <2>1, InvIsRight DEF CurrentIsUnread, OneByOne
  <2> QED
    BY <2>2, <2>3, RightIsInvNext
<1>2. CASE Next
  BY <1>2, FormKeeps, EndsKeeps, PollKeeps, ApplyKeeps, OtherKeeps, WorkerKeeps, HelperKeeps
     DEF Next
<1> QED
  BY <1>1, <1>2

(* The inductive invariant of the panel holds of every operation, for every *)
(* number of them: ui/app.rs, ui/panels.rs, ui/system.rs and the helper.    *)
THEOREM BiosInvariant == Spec => []BiosInv
<1>1. Init => BiosInv
  BY InitInv
<1>2. BiosInv /\ [Next]_vars => BiosInv'
  BY InvStep
<1> QED
  BY <1>1, <1>2, PTL DEF Spec

(* Two helpers run at once only after the user interface ended, or lost     *)
(* sight of the first: the buttons share one result channel.                *)
THEOREM OperationsAreAlone == Spec => []OneAtATime
<1>1. BiosInv => OneAtATime
  <2> SUFFICES ASSUME BiosInv, NEW o \in Ops, NEW p \in Ops,
                      o < p, Elevated(o), Working(p) \/ Elevated(p)
               PROVE  op[o].worker = "dead" \/ op[o].lost
    BY DEF OneAtATime
  <2>1. op[p].worker # "unused"
    BY DEF BiosInv, StagedFits, Working, Elevated, Alive
  <2>2. op[o].worker \in {"shown", "dead"}
    BY <2>1 DEF BiosInv, OneByOne
  <2> QED
    BY <2>2 DEF BiosInv, HelperIsWatched
<1> QED
  BY <1>1, BiosInvariant, PTL

(* What the panel reports agrees with the firmware, but for a helper that   *)
(* was killed, could not report, or was lost.                               *)
THEOREM ResultsAreHonest == Spec => []ResultIsHonest
<1>1. BiosInv => ResultIsHonest
  BY DEF BiosInv, ResultIsHonest, ResultIsCode, CodeIsHonest, TypeOK
<1> QED
  BY <1>1, BiosInvariant, PTL

(* The file with the passwords outlives an operation only where each of the *)
(* two that delete it was kept from it: the user interface ended before its *)
(* worker came to it, or that deletion failed; and the helper never ran or  *)
(* came to its cleanup, or its own deletion failed.                         *)
THEOREM SecretsAreExplained == Spec => []SecretIsExplained
<1>1. BiosInv => SecretIsExplained
  BY DEF BiosInv, SecretIsExplained, SecretIsHeld, TypeOK, Working, Elevated
<1> QED
  BY <1>1, BiosInvariant, PTL

(* The form never hands over a password its mode does not use.              *)
THEOREM HandoffsFit == Spec => []HandoffFits
<1>1. BiosInv => HandoffFits
  BY DEF BiosInv
<1> QED
  BY <1>1, BiosInvariant, PTL

(* Settling an operation asks for nothing new.                              *)
LEMMA SettledAsks ==
    ASSUME NEW r
    PROVE  Asked(Settled(r)) \in {Asked(r), NoRequest}
<1>1. Asked([Unused EXCEPT !.worker = "shown"]) = NoRequest
  BY DEF Asked, Unused
<1> QED
  BY <1>1 DEF Settled

(* Steps that leave the firmware alone and ask for nothing withdraw, at     *)
(* most.                                                                    *)
LEMMA WithdrawStep ==
    ASSUME firmware' = firmware,
           \A o \in Ops : Asked(op'[o]) \in {Asked(op[o]), NoRequest}
    PROVE  Panel!Withdraw
<1> DEFINE gone == {o \in Ops : Asked(op'[o]) = NoRequest}
<1>1. [o \in Ops |-> Asked(op'[o])] =
          [o \in Ops |-> IF o \in gone THEN NoRequest
                         ELSE [p \in Ops |-> Asked(op[p])][o]]
  OBVIOUS
<1>2. gone \in SUBSET Ops
  OBVIOUS
<1> HIDE DEF gone
<1> QED
  BY <1>1, <1>2 DEF Panel!Withdraw

(* A step of one worker or helper that carries on with its request, or      *)
(* drops it.                                                                *)
LEMMA ChangeAsks ==
    ASSUME BiosInv, NEW o \in Ops, NEW r, Change(o, r), Asked(r) \in {Asked(op[o]), NoRequest}
    PROVE  Panel!Withdraw
<1>1. op' = [op EXCEPT ![o] = Settled(r)] /\ firmware' = firmware
  BY DEF Change
<1>2. op'[o] = Settled(r) /\ \A p \in Ops \ {o} : op'[p] = op[p]
  BY <1>1 DEF BiosInv, TypeOK
<1>3. Asked(op'[o]) \in {Asked(op[o]), NoRequest}
  BY <1>2, SettledAsks
<1> QED
  BY <1>1, <1>2, <1>3, WithdrawStep

(* A deletion changes nothing of what is asked.                             *)
LEMMA RemovalAsks ==
    ASSUME NEW r \in Operation, NEW who, NEW d \in {Removed(r), Kept(r, who)}
    PROVE  Asked(d) = Asked(r)
<1>1. /\ d.mode = r.mode /\ d.helper = r.helper /\ d.applied = r.applied
      /\ d.current = r.current /\ d.new = r.new
  BY DEF Operation, Removed, Kept
<1> QED
  BY <1>1 DEF Asked

(* A helper that is gone carries no request, its file deleted or not.       *)
LEMMA GoneAsksNothing ==
    ASSUME BiosInv, NEW o \in Ops, NEW why \in Reasons,
           \/ Change(o, HelperGone(op[o], why))
           \/ Removes(o, HelperGone(op[o], why), "helper")
           \/ RemovesOnFault(o, HelperGone(op[o], why), "helper")
    PROVE  Panel!Withdraw
<1> DEFINE g == HelperGone(op[o], why)
<1>1. op[o] \in Operation
  BY DEF BiosInv, TypeOK, Operation
<1>2. g \in Operation /\ g.helper = "gone"
  BY <1>1 DEF Operation, HelperGone, Password
<1> HIDE DEF g
<1>3. Asked(g) = NoRequest
  BY <1>2 DEF Asked
<1>4. PICK d \in {g, Removed(g), Kept(g, "helper")} : Change(o, d)
  BY RemovalEnds DEF g
<1>5. Asked(d) = NoRequest
  BY <1>2, <1>3, <1>4, RemovalAsks
<1> QED
  BY <1>4, <1>5, ChangeAsks

(* Workers, and helpers but for the firmware's acceptance, ask for nothing. *)
LEMMA WorkAsks ==
    ASSUME BiosInv, NEW o \in Ops, Worker(o) \/ (Helper(o) /\ ~FirmwareAccepts(o))
    PROVE  Panel!Withdraw
<1>0. op[o] \in Operation
  BY DEF BiosInv, TypeOK, Operation
<1>1. ASSUME NEW r, Change(o, r), op[o].helper # "gone",
             r \in {[op[o] EXCEPT !.worker = "ready", !.secret = TRUE],
                    [op[o] EXCEPT !.worker = "wait", !.helper = "prompt"],
                    [op[o] EXCEPT !.helper = "own"], [op[o] EXCEPT !.helper = "other"],
                    [op[o] EXCEPT !.helper = "firmware"],
                    [op[o] EXCEPT !.code = "failure", !.lost = TRUE]}
      PROVE  Panel!Withdraw
  <2>1. /\ r.mode = op[o].mode /\ r.helper # "gone" /\ r.applied = op[o].applied
        /\ r.current = op[o].current /\ r.new = op[o].new
    BY <1>0, <1>1 DEF Operation
  <2>2. Asked(r) = Asked(op[o])
    BY <1>1, <2>1 DEF Asked
  <2> QED
    BY <1>1, <2>2, ChangeAsks
<1>2. CASE Stage(o) \/ Spawn(o)
  <2>1. op[o].helper = "none"
    BY <1>2 DEF Stage, Spawn, BiosInv, StagedFits
  <2> QED
    BY <1>1, <1>2, <2>1 DEF Stage, Spawn
<1>3. CASE StageFails(o) \/ SpawnFails(o) \/ Exit(o) \/ ExitUnknown(o)
  <2> DEFINE Staged(written) == [op[o] EXCEPT !.secret = written]
  <2>1. PICK r \in {Lost(op[o]), Sent(op[o], op[o].code)}
                    \cup {Lost(Staged(written)) : written \in BOOLEAN} :
          Removes(o, r, "worker") \/ RemovesOnFault(o, r, "worker")
    BY <1>3 DEF StageFails, SpawnFails, Exit, ExitUnknown
  <2>2. /\ r \in Operation
        /\ r.mode = op[o].mode /\ r.helper = op[o].helper /\ r.applied = op[o].applied
        /\ r.current = op[o].current /\ r.new = op[o].new
    <3>1. CASE r \in {Lost(op[o]), Sent(op[o], op[o].code)}
      BY <1>0, <3>1 DEF Operation, Sent, Lost
    <3>2. ASSUME NEW written \in BOOLEAN, r = Lost(Staged(written))
          PROVE  /\ r \in Operation
                 /\ r.mode = op[o].mode /\ r.helper = op[o].helper
                 /\ r.applied = op[o].applied
                 /\ r.current = op[o].current /\ r.new = op[o].new
      BY <1>0, <3>2 DEF Operation, Sent, Lost
    <3> QED
      BY <3>1, <3>2
  <2>3. Asked(r) = Asked(op[o])
    BY <2>2 DEF Asked
  <2>4. PICK d \in {Removed(r), Kept(r, "worker")} : Change(o, d)
    BY <2>1, RemovalEnds
  <2>5. Asked(d) = Asked(op[o])
    BY <2>2, <2>3, RemovalAsks
  <2> QED
    BY <2>4, <2>5, ChangeAsks
<1>4. CASE Approve(o) \/ OuterKilled(o)
  BY <1>1, <1>4 DEF Approve, OuterKilled, Alive
<1>5. CASE Decrypt(o)
  <2>1. CASE op[o].secret /\ Fits(op[o])
    BY <1>1, <1>5, <2>1 DEF Decrypt
  <2>2. CASE ~(op[o].secret /\ Fits(op[o]))
    BY <1>5, <2>2, GoneAsksNothing DEF Decrypt, Finally, Reasons
  <2> QED
    BY <2>1, <2>2
<1>6. CASE \/ Decline(o) \/ OutsideTemp(o) \/ FirmwareRejects(o) \/ Report(o)
           \/ ReportFails(o) \/ OtherEnds(o) \/ Killed(o)
  <2>1. PICK why \in Reasons :
          \/ Change(o, HelperGone(op[o], why))
          \/ Removes(o, HelperGone(op[o], why), "helper")
          \/ RemovesOnFault(o, HelperGone(op[o], why), "helper")
    BY <1>6 DEF Decline, OutsideTemp, FirmwareRejects, Report, ReportFails, OtherEnds,
                Killed, Finally, Reasons
  <2> QED
    BY <2>1, GoneAsksNothing
<1> QED
  BY <1>2, <1>3, <1>4, <1>5, <1>6 DEF Worker, Helper

(* What the firmware accepts is a pending request.                          *)
LEMMA AcceptanceApplies ==
    ASSUME BiosInv, NEW o \in Ops, FirmwareAccepts(o)
    PROVE  Panel!Apply(o)
<1>1. /\ op[o] \in Operation /\ Right(op[o]) /\ op[o].helper = "firmware"
      /\ op[o].current = firmware /\ firmware' = op[o].new
      /\ op' = [op EXCEPT ![o].helper = "report", ![o].applied = TRUE]
  BY InvIsRight DEF TypeOK, Operation, FirmwareAccepts
<1>2. /\ op'[o].helper = "report" /\ op'[o].applied = TRUE
      /\ \A p \in Ops \ {o} : op'[p] = op[p]
  BY <1>1 DEF BiosInv, TypeOK, Operation
<1>3. op[o].mode # "Other" /\ ~op[o].applied /\ Fits(op[o])
  BY <1>1 DEF Right, Core
<1> DEFINE request == [mode |-> op[o].mode, current |-> op[o].current, new |-> op[o].new]
<1>4. Asked(op[o]) = request
  BY <1>1, <1>3 DEF Asked
<1>5. /\ request.mode = op[o].mode /\ request.current = op[o].current
      /\ request.new = op[o].new
  OBVIOUS
<1>6. request \in Panel!Requests
  BY <1>1, <1>3 DEF Fits, Operation, Modes, Password, Panel!Requests
<1> HIDE DEF request
<1>7. Asked(op'[o]) = NoRequest
  BY <1>2 DEF Asked
<1>8. [p \in Ops |-> Asked(op'[p])] = [[p \in Ops |-> Asked(op[p])] EXCEPT ![o] = NoRequest]
  BY <1>2, <1>7
<1> QED
  BY <1>1, <1>4, <1>5, <1>6, <1>8 DEF Panel!Apply

(* A valid form is a request; the operations without a secret ask nothing.  *)
LEMMA BeginAsks ==
    ASSUME BiosInv, NEW o \in Ops, ApplyBiosPassword(o)
    PROVE  \E request \in Panel!Requests : Panel!Ask(o, request)
<1> DEFINE r == [Unused EXCEPT !.worker = "protect", !.mode = form.mode,
                               !.current = form.current, !.new = form.new]
           request == [mode |-> form.mode, current |-> form.current, new |-> form.new]
<1>1. /\ FieldsValid /\ app.tab = "bios" /\ op' = [op EXCEPT ![o] = r]
      /\ firmware' = firmware /\ op[o].worker = "unused"
  BY DEF ApplyBiosPassword, Begin
<1>2. form \in [mode : Modes, current : Password, new : Password] /\ FormFits
  BY DEF BiosInv, TypeOK
<1>3. Asked(r) = request
  <2>1. /\ r.mode = form.mode /\ r.helper = "none" /\ ~r.applied
        /\ r.current = form.current /\ r.new = form.new
    BY DEF Unused
  <2>2. form.mode # "Other"
    BY <1>2 DEF Modes
  <2> HIDE DEF r
  <2> QED
    BY <2>1, <2>2 DEF Asked
<1>4. request \in Panel!Requests
  BY <1>1, <1>2 DEF FieldsValid, FormFits, Modes, Password, Panel!Requests
<1> HIDE DEF r, request
<1>5. op'[o] = r /\ \A p \in Ops \ {o} : op'[p] = op[p]
  BY <1>1 DEF BiosInv, TypeOK
<1>6. [p \in Ops |-> Asked(op'[p])] = [[p \in Ops |-> Asked(op[p])] EXCEPT ![o] = request]
  BY <1>3, <1>5
<1>7. Asked(op[o]) = NoRequest
  BY <1>1 DEF BiosInv, StagedFits, Asked
<1> QED
  BY <1>1, <1>4, <1>6, <1>7 DEF Panel!Ask

(* What a step of the panel is to the abstract requests.                    *)
LEMMA RequestStep ==
    ASSUME BiosInv, Next
    PROVE  Panel!Next
<1>1. CASE \E o \in Ops : ApplyBiosPassword(o)
  BY <1>1, BeginAsks DEF Panel!Next
<1>2. CASE \E o \in Ops : FirmwareAccepts(o)
  BY <1>2, AcceptanceApplies DEF Panel!Next
<1>3. CASE \E o \in Ops : Worker(o) \/ (Helper(o) /\ ~FirmwareAccepts(o))
  BY <1>3, WorkAsks DEF Panel!Next
<1>4. CASE ChangeLock \/ Start \/ SelectTab \/ Fill
  <2>1. UNCHANGED <<op, firmware>>
    BY <1>4 DEF ChangeLock, Start, SelectTab, Fill
  <2> QED
    BY <2>1, WithdrawStep DEF Panel!Next
<1>5. CASE Close \/ Crash
  <2>1. /\ firmware' = firmware
        /\ op' = [o \in Ops |-> IF op[o].worker \in {"protect", "ready", "wait", "sent"}
                                THEN Settled([op[o] EXCEPT !.worker = "dead"]) ELSE op[o]]
    BY <1>5 DEF Close, Crash, Ends
  <2>2. ASSUME NEW o \in Ops PROVE Asked(op'[o]) \in {Asked(op[o]), NoRequest}
    <3> DEFINE r == [op[o] EXCEPT !.worker = "dead"]
    <3>1. op'[o] \in {op[o], Settled(r)}
      BY <2>1
    <3>2. /\ r.mode = op[o].mode /\ r.helper = op[o].helper /\ r.applied = op[o].applied
          /\ r.current = op[o].current /\ r.new = op[o].new
      BY DEF BiosInv, TypeOK
    <3> HIDE DEF r
    <3>3. Asked(r) = Asked(op[o])
      BY <3>2 DEF Asked
    <3> QED
      BY <3>1, <3>3, SettledAsks
  <2> QED
    BY <2>1, <2>2, WithdrawStep DEF Panel!Next
<1>6. CASE Poll
  <2> DEFINE c == app.current
             r == [op[c] EXCEPT !.worker = "shown"]
  <2>1. firmware' = firmware /\ op' = [op EXCEPT ![c] = Settled(r)] /\ c \in Ops
    BY <1>6 DEF Poll, BiosInv, TypeOK
  <2>2. /\ r.mode = op[c].mode /\ r.helper = op[c].helper /\ r.applied = op[c].applied
        /\ r.current = op[c].current /\ r.new = op[c].new
    BY <2>1 DEF BiosInv, TypeOK
  <2> HIDE DEF c, r
  <2>3. Asked(r) = Asked(op[c])
    BY <2>2 DEF Asked
  <2>4. op'[c] = Settled(r) /\ \A p \in Ops \ {c} : op'[p] = op[p]
    BY <2>1 DEF BiosInv, TypeOK
  <2>5. Asked(op'[c]) \in {Asked(op[c]), NoRequest}
    BY <2>3, <2>4, SettledAsks
  <2> QED
    BY <2>1, <2>4, <2>5, WithdrawStep DEF Panel!Next
<1>7. ASSUME NEW o \in Ops, OtherOperation(o) PROVE Panel!Next
  <2> DEFINE r == [Unused EXCEPT !.worker = "ready"]
  <2>1. firmware' = firmware /\ op' = [op EXCEPT ![o] = r]
    BY <1>7 DEF OtherOperation, InstallBiosAdapter, RestartIntoFirmware, RefreshHealth,
                BeginOther, Begin
  <2>2. Asked(r) = NoRequest
    BY DEF Asked, Unused
  <2> HIDE DEF r
  <2>3. op'[o] = r /\ \A p \in Ops \ {o} : op'[p] = op[p]
    BY <2>1 DEF BiosInv, TypeOK
  <2> QED
    BY <2>1, <2>2, <2>3, WithdrawStep DEF Panel!Next
<1> QED
  BY <1>1, <1>2, <1>3, <1>4, <1>5, <1>6, <1>7 DEF Next

(* Worker threads, UAC, the helper, the file between them and every way     *)
(* they break implement the abstract requests: the firmware's password      *)
(* changes once per valid form, as that form asked.                         *)
THEOREM BiosImplementsRequests == Spec => ImplementsPasswordRequests
<1>1. Init => Panel!Init
  <2> SUFFICES ASSUME Init PROVE Panel!Init
    OBVIOUS
  <2>1. Asked(Unused) = NoRequest
    BY DEF Asked, Unused
  <2> QED
    BY <2>1 DEF Init, Panel!Init, Password
<1>2. BiosInv /\ [Next]_vars => [Panel!Next]_(Panel!requestVars)
  <2>1. ASSUME UNCHANGED vars PROVE UNCHANGED Panel!requestVars
    BY <2>1 DEF vars, Panel!requestVars
  <2>2. ASSUME BiosInv, Next PROVE Panel!Next
    BY <2>2, RequestStep
  <2> QED
    BY <2>1, <2>2
<1> QED
  BY <1>1, <1>2, BiosInvariant, PTL DEF Spec, ImplementsPasswordRequests
=============================================================================
