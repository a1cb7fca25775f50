-------------------------- MODULE EnrollmentProofs --------------------------
(***************************************************************************)
(* Proofs about Enrollment, for any processes, commands and bounds.        *)
(***************************************************************************)
EXTENDS Enrollment, TLAPS

Positions == {"off", "init", "initialize", "trusting", "ready", "enrolling",
              "confirmed", "asking", "clearing", "posting", "writing", "checkin"}

Causes == {"answer", "clear", "erased", "restored"} \X Creds

Process == [pc : Positions, kind : AllKinds, cred : Creds, api : BOOLEAN]

(* The invariant without the types of the bounds.                           *)
CredInv ==
    /\ PassHoldsApiLock /\ CredsAreIssued /\ ClearedIsNotEnrolled
    /\ WrittenIsTheServers /\ PassIsCurrent /\ DisownedIsKept /\ ClearedStaysClear
    /\ EnrolledIsWritten /\ DisownedIsCleared

(* What the assumption says of credentials and processes.                   *)
LEMMA Constants ==
    /\ NoCred \in Creds /\ Creds \subseteq Nat /\ NoCred = 0
    /\ Off \in Process /\ Nobody \notin Processes
BY EnrollmentAssumption DEF NoCred, Creds, Off, Process, Positions, AllKinds

(* No process runs, and disk and server have no credential.                 *)
LEMMA InitInv == Init => EnrollmentInv
<1> SUFFICES ASSUME Init PROVE EnrollmentInv
  OBVIOUS
<1> USE Constants, EnrollmentAssumption DEF Init
<1>1. TypeOK
  <2>1. proc \in [Processes -> Process]
    OBVIOUS
  <2>2. confirmed \in BOOLEAN
    OBVIOUS
  <2>3. server \in [state : {"absent", "pending", "enrolled"}, cred : Creds]
    OBVIOUS
  <2>4. resets \in 0 .. MaxResets /\ launches \in 0 .. MaxLaunches /\ faults \in 0 .. MaxFaults
    OBVIOUS
  <2> QED
    BY <2>1, <2>2, <2>3, <2>4 DEF TypeOK, Process, Positions
<1>2. CredInv
  <2>1. \A p \in Processes : proc[p] = Off
    OBVIOUS
  <2> QED
    BY <2>1 DEF CredInv, PassHoldsApiLock, CredsAreIssued, Issued, ClearedIsNotEnrolled,
       WrittenIsTheServers, PassIsCurrent, DisownedIsKept, ClearedStaysClear,
       EnrolledIsWritten, DisownedIsCleared, ApiSteps, Off
<1> QED
  BY <1>1, <1>2 DEF EnrollmentInv, CredInv

(* A step of one process that only changes what it has in memory and the    *)
(* locks it holds.                                                          *)
LEMMA QuietStep ==
    ASSUME TypeOK, CredInv, NEW p \in Processes, NEW new \in Process,
           proc' = [proc EXCEPT ![p] = new],
           UNCHANGED <<config, server, resets, disowned>>,
           causes \subseteq causes',
           new.cred \in {proc[p].cred, config, NoCred},
           new.pc \in ApiSteps => apiLock' = p,
           \A q \in Processes \ {p} : apiLock = q => apiLock' = q,
           new.pc \notin {"clearing", "posting", "writing"},
           new.pc \in {"confirmed", "asking", "checkin"} =>
               /\ new.cred = config \/ Overwritten(new.cred)
               /\ new.cred \in disowned \ {NoCred} => Kept(new.cred),
           proc[p].pc = "writing" => <<"answer", proc[p].cred>> \in causes',
           proc[p].pc = "clearing" => <<"clear", proc[p].cred>> \in causes'
    PROVE  CredInv'
<1> USE DEF CredInv, TypeOK
<1>1. proc'[p] = new /\ \A q \in Processes \ {p} : proc'[q] = proc[q]
  OBVIOUS
<1>2. PassHoldsApiLock' /\ ClearedIsNotEnrolled' /\ WrittenIsTheServers'
  BY <1>1 DEF PassHoldsApiLock, ClearedIsNotEnrolled, WrittenIsTheServers
<1>3. CredsAreIssued'
  <2>1. Issued' = Issued /\ NoCred <= Issued
    BY Constants DEF Issued, CredsAreIssued
  <2> QED
    BY <1>1, <2>1 DEF CredsAreIssued
<1>4. PassIsCurrent'
  BY <1>1 DEF PassIsCurrent, Overwritten
<1>5. DisownedIsKept' /\ ClearedStaysClear'
  BY <1>1 DEF DisownedIsKept, ClearedStaysClear, Kept
<1>6. EnrolledIsWritten'
  BY <1>1 DEF EnrolledIsWritten, WrittenIsTheServers, Lost
<1>7. DisownedIsCleared'
  BY <1>1 DEF DisownedIsCleared, Kept
<1> QED
  BY <1>2, <1>3, <1>4, <1>5, <1>6, <1>7

(* Nobody is clearing: a disowned credential on disk is one that lives on.  *)
LEMMA DiskIsKept ==
    ASSUME CredInv, \A q \in Processes : proc[q].pc # "clearing",
           config \in disowned \ {NoCred}
    PROVE  Kept(config)
BY DEF CredInv, DisownedIsCleared

(* A command that writes its copy of config.json back: if that changes the  *)
(* file, both credentials are marked.                                       *)
LEMMA RewriteStep ==
    ASSUME TypeOK, CredInv, NEW p \in Processes, NEW new \in Process,
           proc' = [proc EXCEPT ![p] = new],
           Rewrite(proc[p].cred),
           UNCHANGED <<server, resets, disowned, apiLock>>,
           proc[p].pc \notin ApiSteps, new.pc \notin ApiSteps,
           new.cred \in {proc[p].cred, NoCred}
    PROVE  CredInv' /\ config' \in Creds /\ causes' \subseteq Causes
<1> USE DEF CredInv, TypeOK, ApiSteps
<1>0. config' = proc[p].cred /\ causes \subseteq causes'
  BY DEF Rewrite
<1>1. proc'[p] = new /\ \A q \in Processes \ {p} : proc'[q] = proc[q]
  OBVIOUS
<1>2. PassHoldsApiLock' /\ ClearedIsNotEnrolled' /\ WrittenIsTheServers'
  BY <1>1 DEF PassHoldsApiLock, ClearedIsNotEnrolled, WrittenIsTheServers
<1>3. CredsAreIssued'
  <2>1. Issued' = Issued /\ NoCred <= Issued
    BY Constants DEF Issued, CredsAreIssued
  <2> QED
    BY <1>0, <1>1, <2>1 DEF CredsAreIssued
<1>4. DisownedIsKept'
  BY <1>0, <1>1 DEF DisownedIsKept, Kept
<1>5. CASE config = proc[p].cred
  <2>1. config' = config /\ causes' = causes
    BY <1>5 DEF Rewrite
  <2>2. PassIsCurrent' /\ ClearedStaysClear'
    BY <1>1, <2>1 DEF PassIsCurrent, Overwritten, ClearedStaysClear
  <2>3. EnrolledIsWritten' /\ DisownedIsCleared'
    BY <1>1, <2>1 DEF EnrolledIsWritten, Lost, DisownedIsCleared, Kept
  <2>4. config' \in Creds /\ causes' \subseteq Causes
    BY <2>1 DEF Causes
  <2> QED
    BY <1>2, <1>3, <1>4, <2>2, <2>3, <2>4
<1>6. CASE config # proc[p].cred
  <2>1. /\ config # NoCred => <<"erased", config>> \in causes'
        /\ config' # NoCred => <<"restored", config'>> \in causes'
    BY <1>0, <1>6 DEF Rewrite
  <2>2. PassIsCurrent'
    BY <1>0, <1>1, <2>1 DEF PassIsCurrent, Overwritten
  <2>3. ClearedStaysClear'
    BY <2>1 DEF ClearedStaysClear
  <2>4. EnrolledIsWritten'
    BY <1>0, <1>1, <2>1 DEF EnrolledIsWritten, Lost, CredsAreIssued
  <2>5. DisownedIsCleared'
    BY <2>1 DEF DisownedIsCleared, Kept
  <2>6. config' \in Creds
    BY <1>0 DEF Process, Positions
  <2>7. causes' \subseteq Causes
    BY <1>6, <2>6 DEF Rewrite, Causes
  <2> QED
    BY <1>2, <1>3, <1>4, <2>2, <2>3, <2>4, <2>5, <2>6, <2>7
<1> QED
  BY <1>5, <1>6

(* Types of a step that writes one process, from those of its new state.    *)
LEMMA ProcessType ==
    ASSUME TypeOK, NEW p \in Processes, NEW new \in Process,
           proc' = [proc EXCEPT ![p] = new]
    PROVE  proc' \in [Processes -> Process]
BY DEF TypeOK, Process, Positions

(* A process that leaves frees the lock only if it was its own.             *)
LEMMA UnlockedType ==
    ASSUME NEW lock \in Processes \cup {Nobody}, NEW p \in Processes
    PROVE  /\ Unlocked(lock, p) \in Processes \cup {Nobody}
           /\ \A q \in Processes \ {p} : lock = q => Unlocked(lock, p) = q
BY DEF Unlocked

(* How a process leaves the enrollment with a credential.                   *)
LEMMA DoneStep ==
    ASSUME TypeOK, NEW p \in Processes, EnrollmentDone(p)
    PROVE  /\ apiLock' \in Processes \cup {Nobody} /\ enrollLock' \in Processes \cup {Nobody}
           /\ \A q \in Processes \ {p} : apiLock = q => apiLock' = q
           /\ \E new \in Process :
                /\ proc' = [proc EXCEPT ![p] = new]
                /\ new.pc \in {"off", "checkin"}
                /\ new.cred \in {proc[p].cred, NoCred}
                /\ new.pc = "checkin" => new.cred = proc[p].cred /\ apiLock' = apiLock
<1>1. CASE proc[p].kind = "enroll"
  <2>1. proc' = [proc EXCEPT ![p] = Off] /\ apiLock' = Unlocked(apiLock, p)
    BY <1>1 DEF EnrollmentDone
  <2>2. Off.pc = "off" /\ Off.cred = NoCred
    BY DEF Off
  <2> QED
    BY <2>1, <2>2, Constants, UnlockedType DEF EnrollmentDone, TypeOK
<1>2. CASE proc[p].kind # "enroll"
  <2> DEFINE new == [proc[p] EXCEPT !.pc = "checkin", !.api = TRUE]
  <2>1. proc' = [proc EXCEPT ![p] = new] /\ apiLock' = apiLock
    BY <1>2 DEF EnrollmentDone
  <2>2. new \in Process /\ new.pc = "checkin" /\ new.cred = proc[p].cred
    BY DEF TypeOK, Process, Positions
  <2> HIDE DEF new
  <2> QED
    BY <2>1, <2>2, UnlockedType DEF EnrollmentDone, TypeOK
<1> QED
  BY <1>1, <1>2

(* How it leaves with an error.                                             *)
LEMMA FailedStep ==
    ASSUME TypeOK, NEW p \in Processes, NEW cred \in Creds, EnrollmentFailed(p, cred)
    PROVE  /\ apiLock' \in Processes \cup {Nobody} /\ enrollLock' \in Processes \cup {Nobody}
           /\ \A q \in Processes \ {p} : apiLock = q => apiLock' = q
           /\ \E new \in Process :
                /\ proc' = [proc EXCEPT ![p] = new]
                /\ new.pc \in {"off", "ready"}
                /\ new.cred \in {cred, NoCred}
<1>1. /\ apiLock' \in Processes \cup {Nobody} /\ enrollLock' \in Processes \cup {Nobody}
      /\ \A q \in Processes \ {p} : apiLock = q => apiLock' = q
  BY UnlockedType DEF EnrollmentFailed, TypeOK
<1>2. CASE proc[p].kind = "service"
  <2> DEFINE new == [proc[p] EXCEPT !.pc = "ready", !.cred = cred, !.api = FALSE]
  <2>1. proc' = [proc EXCEPT ![p] = new]
    BY <1>2 DEF EnrollmentFailed
  <2>2. new \in Process /\ new.pc = "ready" /\ new.cred = cred
    BY DEF TypeOK, Process, Positions
  <2> HIDE DEF new
  <2> QED
    BY <1>1, <2>1, <2>2
<1>3. CASE proc[p].kind # "service"
  <2>1. proc' = [proc EXCEPT ![p] = Off]
    BY <1>3 DEF EnrollmentFailed
  <2>2. Off.pc = "off" /\ Off.cred = NoCred
    BY DEF Off
  <2> QED
    BY <1>1, <2>1, <2>2, Constants
<1> QED
  BY <1>2, <1>3

(* initialize, and the way of a command around the lock.                    *)
LEMMA CommandKeeps ==
    ASSUME TypeOK, CredInv, NEW p \in Processes,
           (\E kind \in AllKinds : Launch(p, kind)) \/ InitRead(p) \/ InitWrite(p)
             \/ TrustWrite(p) \/ RereadConfig(p)
    PROVE  TypeOK' /\ CredInv'
<1>0. proc[p] \in Process
  BY DEF TypeOK, Process, Positions
<1>1. ASSUME NEW kind \in AllKinds, Launch(p, kind) PROVE TypeOK' /\ CredInv'
  <2> DEFINE new == [Off EXCEPT !.pc = "init", !.kind = kind]
  <2>0. launches' \in 0 .. MaxLaunches
    <3>1. kind # "service" => launches < MaxLaunches
      BY <1>1 DEF Launch
    <3>2. launches' = IF kind = "service" THEN launches ELSE launches + 1
      BY <1>1 DEF Launch
    <3> QED
      BY <3>1, <3>2, EnrollmentAssumption DEF TypeOK
  <2>1. /\ proc' = [proc EXCEPT ![p] = new] /\ proc[p].pc = "off"
        /\ UNCHANGED <<config, confirmed, server, apiLock, enrollLock, resets, faults,
                       disowned, causes>>
    BY <1>1 DEF Launch, At
  <2>2. new \in Process /\ new.pc = "init" /\ new.cred = NoCred
    BY Constants DEF Off, Process, Positions
  <2> HIDE DEF new
  <2>3. CredInv'
    BY <2>1, <2>2, QuietStep DEF ApiSteps
  <2>4. proc' \in [Processes -> Process]
    BY <2>1, <2>2, ProcessType
  <2> QED
    BY <2>0, <2>1, <2>3, <2>4 DEF TypeOK, Process, Positions
<1>2. CASE InitRead(p)
  <2> DEFINE new == [proc[p] EXCEPT !.pc = "initialize", !.cred = config]
  <2>1. /\ proc' = [proc EXCEPT ![p] = new] /\ proc[p].pc = "init"
        /\ UNCHANGED <<config, confirmed, server, apiLock, enrollLock, bounds,
                       disowned, causes>>
    BY <1>2 DEF InitRead, At
  <2>2. new \in Process /\ new.pc = "initialize" /\ new.cred = config
    BY <1>0 DEF TypeOK, Process, Positions
  <2> HIDE DEF new
  <2>3. CredInv'
    BY <2>1, <2>2, QuietStep DEF ApiSteps, bounds
  <2>4. proc' \in [Processes -> Process]
    BY <2>1, <2>2, ProcessType
  <2> QED
    BY <2>1, <2>3, <2>4 DEF TypeOK, Process, Positions, bounds
<1>3. CASE InitWrite(p)
  <2> DEFINE new == IF proc[p].kind = "init" THEN Off
                    ELSE [proc[p] EXCEPT !.pc = IF proc[p].kind = "trust" THEN "trusting"
                                                                          ELSE "ready",
                                         !.api = (proc[p].cred # NoCred)]
  <2>1. /\ proc' = [proc EXCEPT ![p] = new] /\ proc[p].pc = "initialize"
        /\ Rewrite(proc[p].cred)
        /\ UNCHANGED <<confirmed, server, apiLock, enrollLock, bounds, disowned>>
    BY <1>3 DEF InitWrite, At
  <2>2. /\ new \in Process /\ new.pc \notin ApiSteps
        /\ new.cred \in {proc[p].cred, NoCred}
    <3>1. CASE proc[p].kind = "init"
      BY <3>1, Constants DEF Off, ApiSteps
    <3>2. CASE proc[p].kind # "init"
      BY <1>0, <3>2 DEF Process, Positions, ApiSteps
    <3> QED
      BY <3>1, <3>2
  <2> HIDE DEF new
  <2>3. CredInv' /\ config' \in Creds /\ causes' \subseteq Causes
    BY <2>1, <2>2, RewriteStep DEF ApiSteps, bounds
  <2>4. proc' \in [Processes -> Process]
    BY <2>1, <2>2, ProcessType
  <2> QED
    BY <2>1, <2>3, <2>4 DEF TypeOK, Process, Positions, Causes, bounds
<1>4. CASE TrustWrite(p)
  <2>1. /\ proc' = [proc EXCEPT ![p] = Off] /\ proc[p].pc = "trusting"
        /\ Rewrite(proc[p].cred)
        /\ UNCHANGED <<confirmed, server, apiLock, enrollLock, bounds, disowned>>
    BY <1>4 DEF TrustWrite, At
  <2>2. Off.pc = "off" /\ Off.cred = NoCred
    BY DEF Off
  <2>3. CredInv' /\ config' \in Creds /\ causes' \subseteq Causes
    BY <2>1, <2>2, Constants, RewriteStep DEF ApiSteps, bounds
  <2>4. proc' \in [Processes -> Process]
    BY <2>1, Constants, ProcessType
  <2> QED
    BY <2>1, <2>3, <2>4 DEF TypeOK, Process, Positions, Causes, bounds
<1>5. CASE RereadConfig(p)
  <2> DEFINE new == Reread(proc[p])
  <2>1. /\ proc' = [proc EXCEPT ![p] = new] /\ proc[p].pc = "ready"
        /\ UNCHANGED <<config, confirmed, server, apiLock, enrollLock, bounds,
                       disowned, causes>>
    BY <1>5 DEF RereadConfig, At
  <2>2. new \in Process /\ new.pc = "ready" /\ new.cred \in {proc[p].cred, config}
    BY <1>0, <2>1 DEF Reread, TypeOK, Process, Positions
  <2> HIDE DEF new
  <2>3. CredInv'
    BY <2>1, <2>2, QuietStep DEF ApiSteps, bounds
  <2>4. proc' \in [Processes -> Process]
    BY <2>1, <2>2, ProcessType
  <2> QED
    BY <2>1, <2>3, <2>4 DEF TypeOK, Process, Positions, bounds
<1> QED
  BY <1>1, <1>2, <1>3, <1>4, <1>5

(* A pass up to the answer of check-enroll, its ends, and a crash.          *)
LEMMA PassKeeps ==
    ASSUME TypeOK, CredInv, NEW p \in Processes,
           BeginEnrollment(p) \/ BeginCheckIn(p) \/ LockEnrollment(p) \/ Confirmed(p)
             \/ AnswerEnrolled(p) \/ CheckEnrollFails(p) \/ EnrollRejected(p)
             \/ EndPass(p) \/ Crash(p)
    PROVE  TypeOK' /\ CredInv'
<1>0. proc[p] \in Process
  BY DEF TypeOK, Process, Positions
<1>f. Fault => faults' \in 0 .. MaxFaults
  BY EnrollmentAssumption DEF Fault, TypeOK
<1>1. ASSUME NEW next \in {"enrolling", "checkin"}, BeginPass(p, next),
             next = "checkin" => proc[p].kind # "enroll"
      PROVE  TypeOK' /\ CredInv'
  <2> DEFINE new == [Reread(proc[p]) EXCEPT !.pc = next]
  <2>1. /\ proc' = [proc EXCEPT ![p] = new] /\ proc[p].pc = "ready"
        /\ apiLock = Nobody /\ apiLock' = p
        /\ UNCHANGED <<config, confirmed, server, enrollLock, bounds, disowned, causes>>
    BY <1>1 DEF BeginPass, At
  <2>2. /\ new \in Process /\ new.pc = next /\ new.cred \in {proc[p].cred, config}
        /\ next = "checkin" => new.cred = config
    BY <1>0, <1>1 DEF Reread, TypeOK, Process, Positions
  <2> HIDE DEF new
  <2>3. config \in disowned \ {NoCred} => Kept(config)
    <3>1. \A q \in Processes : proc[q].pc # "clearing"
      BY <2>1, Constants DEF CredInv, PassHoldsApiLock, ApiSteps
    <3> QED
      BY <3>1, DiskIsKept
  <2>4. CredInv'
    BY <2>1, <2>2, <2>3, Constants, QuietStep DEF ApiSteps, bounds
  <2>5. proc' \in [Processes -> Process]
    BY <2>1, <2>2, ProcessType
  <2> QED
    BY <2>1, <2>4, <2>5 DEF TypeOK, Process, Positions, bounds
<1>2. CASE BeginEnrollment(p)
  BY <1>1, <1>2 DEF BeginEnrollment
<1>3. CASE BeginCheckIn(p)
  BY <1>1, <1>3 DEF BeginCheckIn
<1>4. CASE LockEnrollment(p)
  <2> DEFINE new == [proc[p] EXCEPT !.cred = config,
                        !.pc = IF proc[p].kind # "enroll" /\ RecentlyConfirmed
                               THEN "confirmed" ELSE "asking"]
  <2>1. /\ proc' = [proc EXCEPT ![p] = new] /\ proc[p].pc = "enrolling" /\ enrollLock' = p
        /\ UNCHANGED <<config, confirmed, server, apiLock, bounds, disowned, causes>>
    BY <1>4 DEF LockEnrollment, At
  <2>2. new \in Process /\ new.pc \in {"confirmed", "asking"} /\ new.cred = config
    BY <1>0 DEF TypeOK, Process, Positions
  <2> HIDE DEF new
  <2>3. apiLock = p
    BY <2>1 DEF CredInv, PassHoldsApiLock, ApiSteps
  <2>c. config \in disowned \ {NoCred} => Kept(config)
    <3>1. \A q \in Processes : proc[q].pc # "clearing"
      BY <2>1, <2>3 DEF CredInv, PassHoldsApiLock, ApiSteps
    <3> QED
      BY <3>1, DiskIsKept
  <2>4. CredInv'
    BY <2>1, <2>2, <2>3, <2>c, QuietStep DEF bounds
  <2>5. proc' \in [Processes -> Process]
    BY <2>1, <2>2, ProcessType
  <2> QED
    BY <2>1, <2>4, <2>5 DEF TypeOK, Process, Positions, bounds
<1>5. ASSUME EnrollmentDone(p), proc[p].pc \in {"confirmed", "asking"},
             confirmed' \in BOOLEAN, UNCHANGED <<config, server, bounds, disowned, causes>>
      PROVE  TypeOK' /\ CredInv'
  <2>1. PICK new \in Process :
          /\ proc' = [proc EXCEPT ![p] = new]
          /\ new.pc \in {"off", "checkin"}
          /\ new.cred \in {proc[p].cred, NoCred}
          /\ new.pc = "checkin" => new.cred = proc[p].cred /\ apiLock' = apiLock
    BY <1>5, DoneStep
  <2>2. apiLock = p
    BY <1>5 DEF CredInv, PassHoldsApiLock, ApiSteps
  <2>3. /\ proc[p].cred = config \/ Overwritten(proc[p].cred)
        /\ proc[p].cred \in disowned \ {NoCred} => Kept(proc[p].cred)
    BY <1>5 DEF CredInv, PassIsCurrent, DisownedIsKept
  <2>4. \A q \in Processes \ {p} : apiLock = q => apiLock' = q
    BY <1>5, DoneStep
  <2>5. CredInv'
    BY <1>5, <2>1, <2>2, <2>3, <2>4, QuietStep DEF bounds, ApiSteps
  <2>6. proc' \in [Processes -> Process]
    BY <2>1, ProcessType
  <2>7. apiLock' \in Processes \cup {Nobody} /\ enrollLock' \in Processes \cup {Nobody}
    BY <1>5, DoneStep
  <2> QED
    BY <1>5, <2>5, <2>6, <2>7 DEF TypeOK, Process, Positions, bounds
<1>6. ASSUME NEW cred \in {proc[p].cred, NoCred}, EnrollmentFailed(p, cred),
             proc[p].pc \in {"asking", "posting"},
             confirmed' \in BOOLEAN, faults' \in 0 .. MaxFaults,
             UNCHANGED <<config, server, resets, launches, disowned, causes>>
      PROVE  TypeOK' /\ CredInv'
  <2>0. cred \in Creds
    BY <1>0, Constants DEF Process
  <2>1. PICK new \in Process :
          /\ proc' = [proc EXCEPT ![p] = new]
          /\ new.pc \in {"off", "ready"}
          /\ new.cred \in {cred, NoCred}
    BY <1>6, <2>0, FailedStep
  <2>2. \A q \in Processes \ {p} : apiLock = q => apiLock' = q
    BY <1>6, <2>0, FailedStep
  <2>3. CredInv'
    BY <1>6, <2>1, <2>2, QuietStep DEF ApiSteps
  <2>4. proc' \in [Processes -> Process]
    BY <2>1, ProcessType
  <2>5. apiLock' \in Processes \cup {Nobody} /\ enrollLock' \in Processes \cup {Nobody}
    BY <1>6, <2>0, FailedStep
  <2> QED
    BY <1>6, <2>3, <2>4, <2>5 DEF TypeOK, Process, Positions
<1>7. CASE Confirmed(p)
  BY <1>5, <1>7 DEF Confirmed, At, TypeOK
<1>8. CASE AnswerEnrolled(p)
  <2>1. confirmed' \in BOOLEAN /\ proc[p].pc = "asking"
        /\ UNCHANGED <<config, server, bounds, disowned, causes>>
    BY <1>8 DEF AnswerEnrolled, At
  <2>2. CASE proc[p].cred # NoCred
    BY <1>5, <1>8, <2>1, <2>2 DEF AnswerEnrolled
  <2>3. CASE proc[p].cred = NoCred
    BY <1>6, <1>8, <2>1, <2>3 DEF AnswerEnrolled, bounds, TypeOK
  <2> QED
    BY <2>2, <2>3
<1>9. CASE CheckEnrollFails(p)
  <2>1. confirmed' \in BOOLEAN
    BY <1>9 DEF CheckEnrollFails
  <2> QED
    BY <1>f, <1>6, <1>9, <2>1 DEF CheckEnrollFails, At
<1>10. CASE EnrollRejected(p)
  BY <1>6, <1>10 DEF EnrollRejected, At, bounds, TypeOK
<1>11. CASE EndPass(p)
  <2> DEFINE new == IF proc[p].kind = "service" THEN [proc[p] EXCEPT !.pc = "ready"] ELSE Off
  <2>1. /\ proc' = [proc EXCEPT ![p] = new] /\ proc[p].pc = "checkin"
        /\ apiLock' = Unlocked(apiLock, p)
        /\ UNCHANGED <<config, confirmed, server, enrollLock, bounds, disowned, causes>>
    BY <1>11 DEF EndPass, At
  <2>2. /\ new \in Process /\ new.pc \in {"off", "ready"}
        /\ new.cred \in {proc[p].cred, NoCred}
    BY <1>0, Constants DEF Off, Process, Positions
  <2> HIDE DEF new
  <2>3. CredInv'
    BY <2>1, <2>2, UnlockedType, QuietStep DEF ApiSteps, bounds, TypeOK
  <2>4. proc' \in [Processes -> Process]
    BY <2>1, <2>2, ProcessType
  <2> QED
    BY <2>1, <2>3, <2>4, UnlockedType DEF TypeOK, Process, Positions, bounds
<1>12. CASE Crash(p)
  <2>1. /\ proc' = [proc EXCEPT ![p] = Off]
        /\ apiLock' = Unlocked(apiLock, p) /\ enrollLock' = Unlocked(enrollLock, p)
        /\ faults' \in 0 .. MaxFaults
        /\ UNCHANGED <<config, confirmed, server, resets, launches, disowned>>
    BY <1>f, <1>12 DEF Crash
  <2>2. /\ causes \subseteq causes' /\ causes' \subseteq Causes
        /\ proc[p].pc = "writing" => <<"answer", proc[p].cred>> \in causes'
        /\ proc[p].pc = "clearing" => <<"clear", proc[p].cred>> \in causes'
    BY <1>0, <1>12 DEF Crash, At, Causes, TypeOK, Process
  <2>3. Off.pc = "off" /\ Off.cred = NoCred
    BY DEF Off
  <2>4. CredInv'
    BY <2>1, <2>2, <2>3, Constants, UnlockedType, QuietStep DEF ApiSteps, TypeOK
  <2>5. proc' \in [Processes -> Process]
    BY <2>1, Constants, ProcessType
  <2> QED
    BY <2>1, <2>2, <2>4, <2>5, UnlockedType DEF TypeOK, Process, Positions, Causes
<1> QED
  BY <1>2, <1>3, <1>4, <1>7, <1>8, <1>9, <1>10, <1>11, <1>12

(* While a process is in its pass, no other process is in one.              *)
LEMMA PassIsAlone ==
    ASSUME CredInv, NEW p \in Processes, proc[p].pc \in ApiSteps
    PROVE  \A q \in Processes \ {p} : proc[q].pc \notin ApiSteps
BY DEF CredInv, PassHoldsApiLock

(* The server does not know the device: its credential is disowned, and     *)
(* cleared next.                                                            *)
LEMMA ClearingKeeps ==
    ASSUME TypeOK, CredInv, NEW p \in Processes,
           AnswerNotEnrolled(p) \/ ClearCredentials(p) \/ ClearFails(p)
    PROVE  TypeOK' /\ CredInv'
<1> USE DEF CredInv, At, Goto, bounds
<1>0. proc[p] \in Process /\ proc[p].pc \in ApiSteps /\ apiLock = p
  BY DEF TypeOK, Process, Positions, AnswerNotEnrolled, ClearCredentials, ClearFails,
         ApiSteps, PassHoldsApiLock
<1>1. \A q \in Processes \ {p} : proc[q].pc \notin ApiSteps
  BY <1>0, PassIsAlone
<1>2. CASE AnswerNotEnrolled(p)
  <2> DEFINE new == [proc[p] EXCEPT !.pc = "clearing"]
  <2>1. /\ proc' = [proc EXCEPT ![p] = new] /\ server.state # "enrolled"
        /\ disowned' = disowned \cup {proc[p].cred} /\ confirmed' \in BOOLEAN
        /\ UNCHANGED <<config, server, apiLock, enrollLock, bounds, causes>>
        /\ proc[p].pc = "asking"
    BY <1>2 DEF AnswerNotEnrolled
  <2>2. new \in Process /\ new.pc = "clearing" /\ new.cred = proc[p].cred
    BY <1>0 DEF Process, Positions
  <2> HIDE DEF new
  <2>3. /\ proc' \in [Processes -> Process] /\ proc'[p] = new
        /\ \A q \in Processes \ {p} : proc'[q] = proc[q]
    BY <2>1, <2>2 DEF TypeOK, Process, Positions
  <2>4. TypeOK'
    BY <1>0, <2>1, <2>3 DEF TypeOK, Process, Positions
  <2>5. PassHoldsApiLock' /\ ClearedIsNotEnrolled' /\ WrittenIsTheServers'
    BY <1>0, <1>1, <2>1, <2>2, <2>3 DEF PassHoldsApiLock, ClearedIsNotEnrolled,
       WrittenIsTheServers, ApiSteps
  <2>6. PassIsCurrent' /\ DisownedIsKept' /\ ClearedStaysClear'
    BY <1>1, <2>1, <2>2, <2>3 DEF PassIsCurrent, Overwritten, DisownedIsKept, Kept,
       ClearedStaysClear, ApiSteps
  <2>7. CredsAreIssued'
    BY <2>1, <2>2, <2>3 DEF CredsAreIssued, Issued
  <2>8. EnrolledIsWritten'
    BY <2>1 DEF EnrolledIsWritten
  <2>9. DisownedIsCleared'
    <3>1. CASE config = proc[p].cred
      BY <2>1, <2>2, <2>3, <3>1 DEF DisownedIsCleared
    <3>2. CASE config # proc[p].cred
      <4>1. \A q \in Processes : proc[q].pc # "clearing"
        BY <1>1, <2>1 DEF ApiSteps
      <4> QED
        BY <2>1, <3>2, <4>1, DiskIsKept DEF DisownedIsCleared, Kept
    <3> QED
      BY <3>1, <3>2
  <2> QED
    BY <2>4, <2>5, <2>6, <2>7, <2>8, <2>9
<1>3. CASE ClearCredentials(p)
  <2> DEFINE new == [proc[p] EXCEPT !.pc = "posting", !.cred = NoCred]
  <2>1. /\ proc' = [proc EXCEPT ![p] = new] /\ config' = NoCred
        /\ UNCHANGED <<confirmed, server, apiLock, enrollLock, bounds, disowned, causes>>
        /\ proc[p].pc = "clearing"
    BY <1>3 DEF ClearCredentials
  <2>2. new \in Process /\ new.pc = "posting" /\ new.cred = NoCred
    BY <1>0, Constants DEF Process, Positions
  <2> HIDE DEF new
  <2>3. /\ proc' \in [Processes -> Process] /\ proc'[p] = new
        /\ \A q \in Processes \ {p} : proc'[q] = proc[q]
    BY <2>1, <2>2 DEF TypeOK, Process, Positions
  <2>4. TypeOK'
    BY <2>1, <2>3, Constants DEF TypeOK, Process, Positions
  <2>5. PassHoldsApiLock' /\ ClearedIsNotEnrolled' /\ WrittenIsTheServers'
    BY <1>0, <1>1, <2>1, <2>2, <2>3 DEF PassHoldsApiLock, ClearedIsNotEnrolled,
       WrittenIsTheServers, ApiSteps
  <2>p. PassIsCurrent' /\ DisownedIsKept' /\ ClearedStaysClear'
    BY <1>0, <1>1, <2>1, <2>2, <2>3 DEF PassIsCurrent, Overwritten,
       DisownedIsKept, Kept, ClearedStaysClear, WrittenIsTheServers, ApiSteps
  <2>6. CredsAreIssued'
    BY <2>1, <2>2, <2>3, Constants DEF CredsAreIssued, Issued, TypeOK
  <2>7. EnrolledIsWritten' /\ DisownedIsCleared'
    BY <2>1 DEF EnrolledIsWritten, DisownedIsCleared, ClearedIsNotEnrolled
  <2> QED
    BY <2>p, <2>4, <2>5, <2>6, <2>7
<1>4. CASE ClearFails(p)
  <2>0. NoCred \in Creds
    BY Constants
  <2>1. /\ proc[p].pc = "clearing" /\ server.state # "enrolled"
        /\ EnrollmentFailed(p, NoCred) /\ Fault
        /\ UNCHANGED <<confirmed, server, resets, launches, disowned>>
        /\ \/ config' = NoCred /\ causes' = causes
           \/ config' = config /\ causes' = causes \cup {<<"clear", proc[p].cred>>}
    BY <1>4 DEF ClearFails, ClearedIsNotEnrolled
  <2>2. PICK new \in Process :
          /\ proc' = [proc EXCEPT ![p] = new]
          /\ new.pc \in {"off", "ready"} /\ new.cred \in {NoCred, NoCred}
    BY <2>0, <2>1, FailedStep
  <2>3. /\ proc' \in [Processes -> Process] /\ proc'[p] = new
        /\ \A q \in Processes \ {p} : proc'[q] = proc[q]
    BY <2>2 DEF TypeOK, Process, Positions
  <2>4. TypeOK'
    <3>1. apiLock' \in Processes \cup {Nobody} /\ enrollLock' \in Processes \cup {Nobody}
      BY <2>0, <2>1, FailedStep
    <3>2. faults' \in 0 .. MaxFaults
      BY <2>1, EnrollmentAssumption DEF Fault, TypeOK
    <3> QED
      BY <1>0, <2>0, <2>1, <2>3, <3>1, <3>2 DEF TypeOK, Process, Positions
  <2>5. PassHoldsApiLock' /\ ClearedIsNotEnrolled' /\ WrittenIsTheServers'
    BY <1>1, <2>1, <2>2, <2>3 DEF PassHoldsApiLock, ClearedIsNotEnrolled,
       WrittenIsTheServers, ApiSteps
  <2>p. PassIsCurrent' /\ DisownedIsKept' /\ ClearedStaysClear'
    BY <1>1, <2>1, <2>2, <2>3 DEF PassIsCurrent, Overwritten,
       DisownedIsKept, Kept, ClearedStaysClear, WrittenIsTheServers, ApiSteps
  <2>6. CredsAreIssued'
    <3>1. Issued' = Issued /\ NoCred <= Issued
      BY <2>1, Constants DEF CredsAreIssued, Issued, TypeOK
    <3>2. config' = config \/ config' = NoCred
      BY <2>1
    <3> QED
      BY <2>1, <2>2, <2>3, <3>1, <3>2 DEF CredsAreIssued
  <2>7. EnrolledIsWritten' /\ DisownedIsCleared'
    BY <1>1, <2>1, <2>2, <2>3 DEF EnrolledIsWritten, DisownedIsCleared, Kept, ApiSteps
  <2> QED
    BY <2>p, <2>4, <2>5, <2>6, <2>7
<1> QED
  BY <1>2, <1>3, <1>4

(* The enroll call hands out a credential nobody has had, and it is written *)
(* under the same locks.                                                    *)
LEMMA EnrollingKeeps ==
    ASSUME TypeOK, CredInv, NEW p \in Processes,
           EnrollCall(p) \/ EnrollCallFails(p) \/ WriteCredentials(p) \/ WriteFails(p)
    PROVE  TypeOK' /\ CredInv'
<1> USE DEF CredInv, At, bounds
<1>0. proc[p] \in Process /\ proc[p].pc \in ApiSteps /\ apiLock = p
  BY DEF TypeOK, Process, Positions, EnrollCall, EnrollCallFails, WriteCredentials,
         WriteFails, ApiSteps, PassHoldsApiLock
<1>1. \A q \in Processes \ {p} : proc[q].pc \notin ApiSteps
  BY <1>0, PassIsAlone
<1>2. resets \in Nat /\ resets \in Creds
  BY EnrollmentAssumption DEF TypeOK, Creds, NoCred
<1>3. /\ config \in Nat /\ disowned \subseteq Nat
      /\ \A q \in Processes : proc[q].cred \in Nat
  BY Constants DEF TypeOK
<1>4. server.state = "pending" => config < resets
  BY <1>2, <1>3 DEF CredsAreIssued, Issued
<1>5. server.state = "pending" => \A q \in Processes : proc[q].cred < resets
  <2> SUFFICES ASSUME server.state = "pending", NEW q \in Processes
               PROVE  proc[q].cred < resets
    OBVIOUS
  <2>1. proc[q].cred <= resets - 1
    BY DEF CredsAreIssued, Issued
  <2>2. proc[q].cred \in Nat
    BY <1>3
  <2> QED
    BY <1>2, <2>1, <2>2
<1>r. server.state = "pending" => resets # NoCred
  BY <1>2, Constants DEF CredsAreIssued
<1>d. server.state = "pending" => \A c \in disowned : c < resets
  BY <1>2, <1>3 DEF CredsAreIssued, Issued
<1>f. Fault => faults' \in 0 .. MaxFaults
  BY EnrollmentAssumption DEF Fault, TypeOK
<1>6. CASE EnrollCall(p)
  <2> DEFINE new == [proc[p] EXCEPT !.pc = "writing", !.cred = resets]
             record == [state |-> "enrolled", cred |-> resets]
  <2>1. /\ proc' = [proc EXCEPT ![p] = new] /\ server' = record
        /\ server.state = "pending" /\ proc[p].pc = "posting"
        /\ UNCHANGED <<config, confirmed, apiLock, enrollLock, bounds, disowned, causes>>
    BY <1>6 DEF EnrollCall
  <2>2. /\ new \in Process /\ new.pc = "writing" /\ new.cred = resets
        /\ record.state = "enrolled" /\ record.cred = resets
        /\ record \in [state : {"absent", "pending", "enrolled"}, cred : Creds]
    BY <1>0, <1>2 DEF Process, Positions
  <2> HIDE DEF new, record
  <2>3. /\ proc' \in [Processes -> Process] /\ proc'[p] = new
        /\ \A q \in Processes \ {p} : proc'[q] = proc[q]
    BY <2>1, <2>2 DEF TypeOK, Process, Positions
  <2>4. TypeOK'
    BY <2>1, <2>2, <2>3 DEF TypeOK, Process, Positions
  <2>5. resets \notin disowned
    BY <1>2, <1>3, <1>d, <2>1
  <2>6. PassHoldsApiLock' /\ ClearedIsNotEnrolled' /\ WrittenIsTheServers'
    BY <1>0, <1>1, <2>1, <2>2, <2>3, <2>5 DEF PassHoldsApiLock, ClearedIsNotEnrolled,
       WrittenIsTheServers, ApiSteps
  <2>p. PassIsCurrent' /\ DisownedIsKept' /\ ClearedStaysClear'
    BY <1>0, <1>1, <2>1, <2>2, <2>3, <2>5 DEF PassIsCurrent, Overwritten,
       DisownedIsKept, Kept, ClearedStaysClear, WrittenIsTheServers, ApiSteps
  <2>7. CredsAreIssued'
    BY <1>2, <1>3, <1>4, <1>5, <1>r, <1>d, <2>1, <2>2, <2>3 DEF CredsAreIssued, Issued
  <2>8. EnrolledIsWritten' /\ DisownedIsCleared'
    BY <2>1, <2>2, <2>3 DEF EnrolledIsWritten, DisownedIsCleared, Kept, Lost
  <2> QED
    BY <2>p, <2>4, <2>6, <2>7, <2>8
<1>7. CASE EnrollCallFails(p)
  <2>0. NoCred \in Creds /\ faults' \in 0 .. MaxFaults /\ EnrollmentFailed(p, NoCred)
    BY <1>f, <1>7, Constants DEF EnrollCallFails
  <2>1. PICK new \in Process :
          /\ proc' = [proc EXCEPT ![p] = new]
          /\ new.pc \in {"off", "ready"} /\ new.cred \in {NoCred, NoCred}
    BY <2>0, FailedStep
  <2>2. /\ proc' \in [Processes -> Process] /\ proc'[p] = new
        /\ \A q \in Processes \ {p} : proc'[q] = proc[q]
    BY <2>1 DEF TypeOK, Process, Positions
  <2>3. apiLock' \in Processes \cup {Nobody} /\ enrollLock' \in Processes \cup {Nobody}
    BY <2>0, FailedStep
  <2>4. /\ UNCHANGED <<config, confirmed, resets, launches, disowned>>
        /\ proc[p].pc = "posting"
        /\ \/ server' = server /\ causes' = causes
           \/ /\ server.state = "pending" /\ causes' = causes \cup {<<"answer", resets>>}
              /\ server' = [state |-> "enrolled", cred |-> resets]
    BY <1>7 DEF EnrollCallFails
  <2>5. TypeOK'
    <3>1. server' \in [state : {"absent", "pending", "enrolled"}, cred : Creds]
      BY <1>2, <2>4 DEF TypeOK
    <3> QED
      BY <1>2, <2>0, <2>2, <2>3, <2>4, <3>1 DEF TypeOK, Process, Positions
  <2>6. PassHoldsApiLock' /\ ClearedIsNotEnrolled' /\ WrittenIsTheServers'
    BY <1>1, <2>1, <2>2, <2>4 DEF PassHoldsApiLock, ClearedIsNotEnrolled,
       WrittenIsTheServers, ApiSteps
  <2>p. PassIsCurrent' /\ DisownedIsKept' /\ ClearedStaysClear'
    BY <1>1, <2>1, <2>2, <2>4 DEF PassIsCurrent, Overwritten,
       DisownedIsKept, Kept, ClearedStaysClear, WrittenIsTheServers, ApiSteps
  <2>7. CredsAreIssued'
    <3>1. CASE server' = server
      BY <1>2, <2>1, <2>2, <2>4, <3>1, Constants DEF CredsAreIssued, Issued, TypeOK
    <3>2. CASE server.state = "pending" /\ server' = [state |-> "enrolled", cred |-> resets]
      BY <1>2, <1>3, <1>4, <1>5, <1>r, <1>d, <2>1, <2>2, <2>4, <3>2, Constants DEF CredsAreIssued, Issued
    <3> QED
      BY <2>4, <3>1, <3>2
  <2>8. EnrolledIsWritten' /\ DisownedIsCleared'
    BY <2>2, <2>4 DEF EnrolledIsWritten, DisownedIsCleared, Kept, Lost
  <2> QED
    BY <2>p, <2>5, <2>6, <2>7, <2>8
<1>8. CASE WriteCredentials(p)
  <2>0. EnrollmentDone(p)
    BY <1>8 DEF WriteCredentials
  <2>1. PICK new \in Process :
          /\ proc' = [proc EXCEPT ![p] = new]
          /\ new.pc \in {"off", "checkin"}
          /\ new.cred \in {proc[p].cred, NoCred}
          /\ new.pc = "checkin" => new.cred = proc[p].cred /\ apiLock' = apiLock
    BY <2>0, DoneStep
  <2>2. /\ proc' \in [Processes -> Process] /\ proc'[p] = new
        /\ \A q \in Processes \ {p} : proc'[q] = proc[q]
    BY <2>1 DEF TypeOK, Process, Positions
  <2>3. apiLock' \in Processes \cup {Nobody} /\ enrollLock' \in Processes \cup {Nobody}
    BY <2>0, DoneStep
  <2>4. /\ config' = proc[p].cred /\ proc[p].pc = "writing"
        /\ UNCHANGED <<confirmed, server, bounds, disowned, causes>>
    BY <1>8 DEF WriteCredentials
  <2>5. TypeOK'
    BY <1>0, <2>2, <2>3, <2>4 DEF TypeOK, Process, Positions
  <2>6. PassHoldsApiLock' /\ ClearedIsNotEnrolled' /\ WrittenIsTheServers'
    BY <1>0, <1>1, <2>1, <2>2, <2>4 DEF PassHoldsApiLock, ClearedIsNotEnrolled,
       WrittenIsTheServers, ApiSteps
  <2>p. PassIsCurrent' /\ DisownedIsKept' /\ ClearedStaysClear'
    BY <1>0, <1>1, <2>1, <2>2, <2>4 DEF PassIsCurrent, Overwritten,
       DisownedIsKept, Kept, ClearedStaysClear, WrittenIsTheServers, ApiSteps
  <2>7. CredsAreIssued'
    <3>1. NoCred <= Issued
      BY <1>2, Constants DEF CredsAreIssued, Issued
    <3> QED
      BY <2>1, <2>2, <2>4, <3>1 DEF CredsAreIssued, Issued
  <2>8. EnrolledIsWritten' /\ DisownedIsCleared'
    BY <2>4 DEF EnrolledIsWritten, DisownedIsCleared, WrittenIsTheServers, Kept, Lost
  <2> QED
    BY <2>p, <2>5, <2>6, <2>7, <2>8
<1>9. CASE WriteFails(p)
  <2>0. /\ proc[p].cred \in Creds /\ faults' \in 0 .. MaxFaults
        /\ EnrollmentFailed(p, proc[p].cred)
    BY <1>0, <1>f, <1>9 DEF WriteFails, Process
  <2>1. PICK new \in Process :
          /\ proc' = [proc EXCEPT ![p] = new]
          /\ new.pc \in {"off", "ready"} /\ new.cred \in {proc[p].cred, NoCred}
    BY <2>0, FailedStep
  <2>2. /\ proc' \in [Processes -> Process] /\ proc'[p] = new
        /\ \A q \in Processes \ {p} : proc'[q] = proc[q]
    BY <2>1 DEF TypeOK, Process, Positions
  <2>3. apiLock' \in Processes \cup {Nobody} /\ enrollLock' \in Processes \cup {Nobody}
    BY <2>0, FailedStep
  <2>4. /\ proc[p].pc = "writing"
        /\ UNCHANGED <<confirmed, server, resets, launches, disowned>>
        /\ \/ config' = proc[p].cred /\ causes' = causes
           \/ config' = config /\ causes' = causes \cup {<<"answer", proc[p].cred>>}
    BY <1>9 DEF WriteFails
  <2>5. TypeOK'
    BY <2>0, <2>2, <2>3, <2>4 DEF TypeOK, Process, Positions
  <2>6. PassHoldsApiLock' /\ ClearedIsNotEnrolled' /\ WrittenIsTheServers'
    BY <1>1, <2>1, <2>2, <2>4 DEF PassHoldsApiLock, ClearedIsNotEnrolled,
       WrittenIsTheServers, ApiSteps
  <2>p. PassIsCurrent' /\ DisownedIsKept' /\ ClearedStaysClear'
    BY <1>1, <2>1, <2>2, <2>4 DEF PassIsCurrent, Overwritten,
       DisownedIsKept, Kept, ClearedStaysClear, WrittenIsTheServers, ApiSteps
  <2>7. CredsAreIssued'
    <3>1. NoCred <= Issued
      BY <1>2, Constants DEF CredsAreIssued, Issued
    <3> QED
      BY <2>1, <2>2, <2>4, <3>1 DEF CredsAreIssued, Issued
  <2>8. EnrolledIsWritten' /\ DisownedIsCleared'
    BY <2>2, <2>4 DEF EnrolledIsWritten, DisownedIsCleared, WrittenIsTheServers, Kept, Lost
  <2> QED
    BY <2>p, <2>5, <2>6, <2>7, <2>8
<1> QED
  BY <1>6, <1>7, <1>8, <1>9

(* The administrator and the clock.                                         *)
LEMMA WorldKeeps ==
    ASSUME TypeOK, CredInv, AdminReset \/ StatusExpires
    PROVE  TypeOK' /\ CredInv'
<1> USE DEF CredInv, bounds
<1>1. CASE AdminReset
  <2> DEFINE record == [state |-> "pending", cred |-> NoCred]
  <2>1. /\ server' = record /\ server.state # "pending" /\ resets' = resets + 1
        /\ resets < MaxResets /\ resets \in Nat
        /\ UNCHANGED <<config, confirmed, apiLock, enrollLock, proc, launches, faults,
                       disowned, causes>>
    BY <1>1, EnrollmentAssumption DEF AdminReset, TypeOK
  <2>2. /\ record.state = "pending"
        /\ record \in [state : {"absent", "pending", "enrolled"}, cred : Creds]
    BY Constants
  <2> HIDE DEF record
  <2>3. TypeOK'
    BY <2>1, <2>2, EnrollmentAssumption DEF TypeOK
  <2>4. Issued' = Issued /\ resets' > 0
    BY <2>1, <2>2 DEF Issued
  <2>5. CredsAreIssued'
    BY <2>1, <2>2, <2>4 DEF CredsAreIssued
  <2> QED
    BY <2>1, <2>2, <2>3, <2>5 DEF PassHoldsApiLock, ClearedIsNotEnrolled,
       WrittenIsTheServers, PassIsCurrent, Overwritten, DisownedIsKept, Kept,
       ClearedStaysClear, EnrolledIsWritten, DisownedIsCleared
<1>2. CASE StatusExpires
  <2>1. /\ confirmed' \in BOOLEAN
        /\ UNCHANGED <<config, server, apiLock, enrollLock, proc, bounds, disowned, causes>>
    BY <1>2 DEF StatusExpires
  <2> QED
    BY <2>1 DEF TypeOK, PassHoldsApiLock, CredsAreIssued, Issued, ClearedIsNotEnrolled,
       WrittenIsTheServers, PassIsCurrent, Overwritten, DisownedIsKept, Kept,
       ClearedStaysClear, EnrolledIsWritten, Lost, DisownedIsCleared
<1> QED
  BY <1>1, <1>2

(* The inductive invariant holds in every reachable state.                  *)
THEOREM EnrollmentInvariant == Spec => []EnrollmentInv
<1>1. EnrollmentInv <=> TypeOK /\ CredInv
  BY DEF EnrollmentInv, CredInv
<1>2. EnrollmentInv /\ [Next]_vars => EnrollmentInv'
  <2> SUFFICES ASSUME TypeOK, CredInv, [Next]_vars PROVE TypeOK' /\ CredInv'
    BY DEF EnrollmentInv, CredInv
  <2>1. CASE AdminReset \/ StatusExpires
    BY <2>1, WorldKeeps
  <2>2. ASSUME NEW p \in Processes, Step(p) PROVE TypeOK' /\ CredInv'
    BY <2>2, CommandKeeps, PassKeeps, ClearingKeeps, EnrollingKeeps DEF Step
  <2>3. CASE UNCHANGED vars
    BY <2>3 DEF vars, bounds, TypeOK, CredInv, PassHoldsApiLock, CredsAreIssued, Issued,
       ClearedIsNotEnrolled, WrittenIsTheServers, PassIsCurrent, Overwritten,
       DisownedIsKept, Kept, ClearedStaysClear, EnrolledIsWritten, Lost, DisownedIsCleared
  <2> QED
    BY <2>1, <2>2, <2>3 DEF Next
<1> QED
  BY <1>2, InitInv, PTL DEF Spec

(* Outside a pass an enrolled device has the server's credential on disk,   *)
(* unless the answer that carried this very credential never reached it, or *)
(* a command wrote over it.                                                 *)
THEOREM StrandedDevicesAreExplained == Spec => []StrandedIsExplained
<1>1. EnrollmentInv => StrandedIsExplained
  <2> SUFFICES ASSUME EnrollmentInv, apiLock = Nobody
               PROVE  \A p \in Processes : proc[p].pc # "writing"
    BY DEF StrandedIsExplained, EnrollmentInv, EnrolledIsWritten
  <2> QED
    BY Constants DEF EnrollmentInv, PassHoldsApiLock, ApiSteps
<1> QED
  BY <1>1, EnrollmentInvariant, PTL

(* No check-in carries a disowned credential, unless clearing that very     *)
(* credential failed or a command put it back.                              *)
THEOREM StaleCheckInsAreExplained == Spec => []StaleCheckInIsExplained
<1>1. EnrollmentInv => StaleCheckInIsExplained
  BY DEF EnrollmentInv, StaleCheckInIsExplained, DisownedIsKept, Sends, At
<1> QED
  BY <1>1, EnrollmentInvariant, PTL

(* A credential leaves config.json only when the server has disowned it, by *)
(* a command that writes over it, or after a command put it there.          *)
THEOREM CredentialsAreNotLost == Spec => OnlyDisownedIsErased
<1> DEFINE Explained == (config # NoCred /\ config' # config) =>
              \/ config \in disowned
              \/ <<"erased", config>> \in causes'
              \/ <<"restored", config>> \in causes
<1>1. EnrollmentInv /\ [Next]_vars => [Explained]_vars
  <2> SUFFICES ASSUME EnrollmentInv, Next, config # NoCred, config' # config
               PROVE  \/ config \in disowned
                      \/ <<"erased", config>> \in causes'
                      \/ <<"restored", config>> \in causes
    OBVIOUS
  <2>1. PICK p \in Processes : Step(p)
    BY DEF Next, AdminReset, StatusExpires
  <2>2. CASE InitWrite(p) \/ TrustWrite(p)
    <3>1. Rewrite(proc[p].cred)
      BY <2>2 DEF InitWrite, TrustWrite
    <3> QED
      BY <3>1 DEF Rewrite
  <2>3. CASE ClearCredentials(p) \/ ClearFails(p)
    <3>1. proc[p].pc = "clearing"
      BY <2>3 DEF ClearCredentials, ClearFails, At
    <3>2. proc[p].cred = config \/ Overwritten(proc[p].cred)
      BY <3>1 DEF EnrollmentInv, PassIsCurrent
    <3>3. proc[p].cred \in disowned
      BY <3>1 DEF EnrollmentInv, DisownedIsKept
    <3> QED
      BY <3>2, <3>3 DEF Overwritten
  <2>4. CASE WriteCredentials(p) \/ WriteFails(p)
    <3>1. proc[p].pc = "writing"
      BY <2>4 DEF WriteCredentials, WriteFails, At
    <3> QED
      BY <3>1 DEF EnrollmentInv, ClearedStaysClear
  <2>5. CASE \/ \E kind \in AllKinds : Launch(p, kind)
             \/ InitRead(p) \/ RereadConfig(p) \/ BeginEnrollment(p) \/ BeginCheckIn(p)
             \/ LockEnrollment(p) \/ Confirmed(p) \/ AnswerEnrolled(p)
             \/ AnswerNotEnrolled(p) \/ CheckEnrollFails(p) \/ EnrollCall(p)
             \/ EnrollRejected(p) \/ EnrollCallFails(p) \/ EndPass(p) \/ Crash(p)
    BY <2>5 DEF Launch, InitRead, RereadConfig, BeginEnrollment, BeginCheckIn, BeginPass,
       LockEnrollment, Confirmed, AnswerEnrolled, AnswerNotEnrolled, CheckEnrollFails,
       EnrollCall, EnrollRejected, EnrollCallFails, EndPass, Crash
  <2> QED
    BY <2>1, <2>2, <2>3, <2>4, <2>5 DEF Step
<1> QED
  BY <1>1, EnrollmentInvariant, PTL DEF Spec, OnlyDisownedIsErased
=============================================================================
