--------------------------- MODULE AgentLoopProofs ---------------------------
(***************************************************************************)
(* Proofs about AgentLoop, for any periods, tokens and bounds.             *)
(***************************************************************************)
EXTENDS AgentLoop, TLAPS

ServiceType ==
    [pc : {"stopped", "failed", "top", "rename", "pass", "enroll", "checkin", "sleep"},
     api : BOOLEAN, token : Token, resumed : BOOLEAN]

DueType == [Timers -> 0 .. LongPeriod]

(* What the assumption says of the timers.                                  *)
LEMMA Constants ==
    /\ CheckInPeriod \in Nat /\ CheckInPeriod > 0
    /\ LongPeriod \in Nat /\ LongPeriod > 0 /\ CheckInPeriod <= LongPeriod
    /\ MaxFaults \in Nat
    /\ "checkin" \in Timers /\ "enrollment" \in Timers /\ "health" \in Timers
    /\ AllDue \in DueType /\ AllDue["checkin"] = 0 /\ AllDue["enrollment"] = 0
BY AgentLoopAssumption DEF Timers, AllDue, DueType

(* The periods of n failed checks.                                          *)
LEMMA Periods ==
    ASSUME NEW n \in Nat
    PROVE  /\ n * LongPeriod \in Nat
           /\ (n + 1) * LongPeriod = n * LongPeriod + LongPeriod
           /\ n > 0 => LongPeriod <= n * LongPeriod
<1> DEFINE L == LongPeriod
<1>1. L \in Nat
  BY Constants
<1> HIDE DEF L
<1>2. n * L \in Nat /\ (n + 1) * L = n * L + L
  BY <1>1
<1>3. ASSUME n > 0 PROVE L <= n * L
  <2>1. PICK m \in Nat : n = m + 1
    BY <1>3
  <2>2. n * L = m * L + L /\ m * L \in Nat
    BY <1>1, <2>1
  <2> QED
    BY <1>1, <2>2
<1> QED
  BY <1>2, <1>3 DEF L

(* A check leaves everything it may change in its type, and fails with the  *)
(* device served only by a fault.                                           *)
LEMMA CheckKeeps ==
    ASSUME TypeOK, NEW used, NEW old \in Token, NEW token \in Token,
           CheckSucceeds(used) \/ CheckFails(old, token)
    PROVE  /\ disk' \in Token /\ server' \in Server
           /\ fresh' \in 0 .. CheckInPeriod
           /\ faults' \in 0 .. MaxFaults /\ faults <= faults'
           /\ CheckSucceeds(used) => disk' # NoToken
           /\ CheckFails(old, token) /\ Served => faults' = faults + 1
<1> USE Constants, AgentLoopAssumption DEF TypeOK, Server, Token
<1> DEFINE Typed == /\ disk' \in Token /\ server' \in Server
                    /\ fresh' \in 0 .. CheckInPeriod
                    /\ faults' \in 0 .. MaxFaults /\ faults <= faults'
<1>1. ASSUME CheckSucceeds(used) PROVE Typed
  <2>1. disk' \in Token /\ server' \in Server
    BY <1>1 DEF CheckSucceeds
  <2>2. fresh' \in 0 .. CheckInPeriod /\ UNCHANGED faults
    BY <1>1 DEF CheckSucceeds
  <2> QED
    BY <2>1, <2>2
<1>2. ASSUME CheckFails(old, token) PROVE Typed
  <2>1. disk' \in Token /\ server' \in Server
    BY <1>2 DEF CheckFails
  <2>2. fresh' \in 0 .. CheckInPeriod
    BY <1>2 DEF CheckFails
  <2>3. faults' \in 0 .. MaxFaults /\ faults <= faults'
    BY <1>2 DEF CheckFails, Fault
  <2> QED
    BY <2>1, <2>2, <2>3
<1>3. CheckSucceeds(used) => disk' # NoToken
  BY DEF CheckSucceeds, Confirmed, Served
<1>4. CheckFails(old, token) /\ Served => faults' = faults + 1
  BY DEF CheckFails, Served, Fault
<1> QED
  BY <1>1, <1>2, <1>3, <1>4

(* Everything is due, and nothing counted, when the service is down.        *)
LEMMA InitInv == Init => AgentLoopInv
<1> SUFFICES ASSUME Init PROVE AgentLoopInv
  OBVIOUS
<1> USE Constants, AgentLoopAssumption DEF Init
<1>1. TypeOK
  <2>1. svc \in ServiceType /\ disk \in Token
    BY DEF ServiceType, Token
  <2>2. stop \in BOOLEAN /\ resume \in BOOLEAN /\ tmp \in BOOLEAN
    OBVIOUS
  <2>3. /\ due \in DueType /\ due["checkin"] <= CheckInPeriod
        /\ server \in Server /\ fresh \in 0 .. CheckInPeriod
        /\ run \in {"none", "rename", "api"}
        /\ runs \in 0 .. MaxRuns /\ faults \in 0 .. MaxFaults
        /\ silent \in Nat /\ failed \in Nat /\ owed \in Nat
    OBVIOUS
  <2> QED
    BY <2>1, <2>2, <2>3 DEF TypeOK, ServiceType, DueType
<1>2. SilenceIsTimed /\ UnservedIsExcused /\ ClientIsKept /\ FailureIsLocal
  BY DEF SilenceIsTimed, Spent, UnservedIsExcused, ClientIsKept, FailureIsLocal, Up
<1>3. PassIsDone /\ ResumeIsKept /\ ResumedIsServed
  BY DEF PassIsDone, ResumeIsKept, ResumedIsServed
<1> QED
  BY <1>1, <1>2, <1>3 DEF AgentLoopInv

(* Faults are never taken back, and pay for the failures.                   *)
LEMMA FailuresStayLocal ==
    ASSUME FailureIsLocal, faults \in Nat, failed \in Nat,
           faults' \in Nat, faults <= faults',
           failed' = failed \/ failed' = 1 \/ (failed' = failed + 1 /\ faults' = faults + 1)
    PROVE  FailureIsLocal'
<1> DEFINE m == faults'
<1>1. m \in Nat /\ faults <= m
  OBVIOUS
<1>2. failed' = failed + 1 => m = faults + 1 \/ failed' = 1
  OBVIOUS
<1> HIDE DEF m
<1>3. failed' <= m + 1
  BY <1>1, <1>2 DEF FailureIsLocal
<1> QED
  BY <1>3 DEF m, FailureIsLocal

(* A failure leaves nothing counted and everything due.                     *)
LEMMA FailsKeeps ==
    ASSUME AgentLoopInv, Fails, tmp' \in BOOLEAN,
           faults' \in 0 .. MaxFaults, faults <= faults'
    PROVE  AgentLoopInv'
<1> USE Constants
<1>1. /\ svc' \in ServiceType /\ svc'.pc = "failed" /\ due' = AllDue
      /\ silent' = 0 /\ owed' = 0 /\ UNCHANGED <<flags, disk, world, failed>>
  BY DEF Fails, AgentLoopInv, TypeOK, ServiceType
<1>2. TypeOK'
  BY <1>1 DEF AgentLoopInv, TypeOK, ServiceType, DueType, flags, world
<1>3. SilenceIsTimed' /\ UnservedIsExcused' /\ ClientIsKept' /\ FailureIsLocal'
  <2>1. 0 <= Spent' /\ Spent' \in Int
    <3>1. /\ failed' = failed /\ failed \in Nat /\ due'["enrollment"] = 0
          /\ failed * LongPeriod \in Nat
      BY <1>1, Periods DEF AgentLoopInv, TypeOK
    <3> QED
      BY <3>1 DEF Spent
  <2>2. SilenceIsTimed'
    <3>1. due'["checkin"] = 0 /\ silent' = 0
      BY <1>1
    <3> DEFINE s == Spent'
    <3>2. s \in Int /\ 0 <= s
      BY <2>1
    <3> HIDE DEF s
    <3>3. 0 <= CheckInPeriod + s
      BY <3>2
    <3> QED
      BY <3>1, <3>3 DEF s, SilenceIsTimed
  <2>3. UnservedIsExcused' /\ ClientIsKept'
    BY <1>1 DEF UnservedIsExcused, ClientIsKept, Up
  <2>4. FailureIsLocal'
    BY <1>1, FailuresStayLocal DEF AgentLoopInv, TypeOK
  <2> QED
    BY <2>2, <2>3, <2>4
<1>4. PassIsDone' /\ ResumeIsKept' /\ ResumedIsServed'
  BY <1>1 DEF PassIsDone, ResumeIsKept, ResumedIsServed
<1> QED
  BY <1>2, <1>3, <1>4 DEF AgentLoopInv

(* The types, whatever the step of a service that does not fail.            *)
LEMMA PassTypes ==
    ASSUME AgentLoopInv, Pass, ~HealthFails
    PROVE  TypeOK'
<1> USE Constants DEF AgentLoopInv, TypeOK, flags, world, hist, Step
<1>0. NoToken \in Token /\ Tokens \subseteq Token
  BY DEF Token
<1>1. CASE StopObeyed \/ Wake
  BY <1>1 DEF StopObeyed, Wake
<1>2. CASE Begin
  <2>1. svc' \in ServiceType
    BY <1>2 DEF Begin, ServiceType
  <2>2. tmp' \in BOOLEAN /\ resume' \in BOOLEAN
    BY <1>2 DEF Begin
  <2>3. owed' \in Nat
    BY <1>2 DEF Begin
  <2> QED
    BY <1>2, <2>1, <2>2, <2>3 DEF Begin, ServiceType
<1>3. CASE HealthWritten
  <2>1. due' \in DueType /\ due'["checkin"] <= CheckInPeriod
    BY <1>3 DEF HealthWritten, DueType, Timers
  <2>2. svc' \in ServiceType /\ tmp' \in BOOLEAN
    BY <1>3 DEF HealthWritten, ServiceType
  <2> QED
    BY <1>3, <2>1, <2>2 DEF HealthWritten, ServiceType, DueType
<1>4. CASE Reload
  <2>1. svc' \in ServiceType
    BY <1>4 DEF Reload, ServiceType
  <2> QED
    BY <1>4, <2>1 DEF Reload, ServiceType
<1>5. CASE EnrollmentDone
  <2>1. /\ disk' \in Token /\ server' \in Server /\ fresh' \in 0 .. CheckInPeriod
        /\ faults' \in 0 .. MaxFaults
    BY <1>0, <1>5, CheckKeeps DEF EnrollmentDone
  <2>2. svc' \in ServiceType
    BY <1>5, <2>1 DEF EnrollmentDone, ServiceType
  <2>3. due' \in DueType /\ due'["checkin"] <= CheckInPeriod
    BY <1>5 DEF EnrollmentDone, EnrollmentNext, DueType, Timers
  <2>4. silent' \in Nat
    BY <1>5 DEF EnrollmentDone, SilenceFollows
  <2> QED
    BY <1>5, <2>1, <2>2, <2>3, <2>4 DEF EnrollmentDone, ServiceType, DueType
<1>6. CASE EnrollmentFailed
  <2>0. PICK token \in Token :
          /\ CheckFails(svc.token, token)
          /\ svc' = [svc EXCEPT !.pc = "checkin", !.token = token, !.api = FALSE]
    BY <1>6 DEF EnrollmentFailed
  <2>1. /\ disk' \in Token /\ server' \in Server /\ fresh' \in 0 .. CheckInPeriod
        /\ faults' \in 0 .. MaxFaults
    BY <2>0, CheckKeeps
  <2>2. svc' \in ServiceType
    BY <2>0 DEF ServiceType
  <2>3. due' \in DueType /\ due'["checkin"] <= CheckInPeriod
    BY <1>6 DEF EnrollmentFailed, EnrollmentNext, DueType, Timers
  <2>4. silent' \in Nat /\ failed' \in Nat
    BY <1>6 DEF EnrollmentFailed, SilenceFollows
  <2> QED
    BY <1>6, <2>1, <2>2, <2>3, <2>4 DEF EnrollmentFailed, ServiceType, DueType
<1>7. CASE CheckIn
  <2>1. due' \in DueType /\ due'["checkin"] <= CheckInPeriod
    BY <1>7 DEF CheckIn, DueType, Timers
  <2>2. svc' \in ServiceType /\ resume' \in BOOLEAN
    BY <1>7 DEF CheckIn, ResumeLeft, ServiceType
  <2> QED
    BY <1>7, <2>1, <2>2 DEF CheckIn, ServiceType, DueType
<1>8. CASE NoCheckIn
  BY <1>8 DEF NoCheckIn, ResumeLeft
<1> QED
  BY <1>1, <1>2, <1>3, <1>4, <1>5, <1>6, <1>7, <1>8 DEF Pass

Timing == /\ SilenceIsTimed /\ UnservedIsExcused /\ ClientIsKept /\ FailureIsLocal
          /\ PassIsDone /\ ResumeIsKept /\ ResumedIsServed

(* Spent, while neither a check nor a check-in nor a tick comes by.         *)
LEMMA SpentStays ==
    UNCHANGED failed /\ due'["enrollment"] = due["enrollment"] => Spent' = Spent
BY DEF Spent

(* A pass resets the timers it serves and honours the resume it took.       *)
LEMMA PassTiming ==
    ASSUME AgentLoopInv, Pass, ~HealthFails
    PROVE  Timing'
<1> USE Constants, SpentStays
    DEF AgentLoopInv, TypeOK, flags, world, hist, Step, Timing, SilenceIsTimed,
        UnservedIsExcused, ClientIsKept, FailureIsLocal, Served, Up,
        PassIsDone, ResumeIsKept, ResumedIsServed
<1>0. Spent \in Int
  BY Periods DEF Spent
<1>1. CASE StopObeyed \/ Wake
  <2>1. Spent' = Spent
    BY <1>1 DEF StopObeyed, Wake
  <2> QED
    BY <1>1, <2>1 DEF StopObeyed, Wake
<1>2. CASE Begin
  <2>1. /\ svc'.pc \in {"rename", "pass"} /\ svc'.api = svc.api /\ svc'.token = svc.token
        /\ svc.pc = "top"
        /\ UNCHANGED <<due, disk, server, faults, silent, failed>>
    BY <1>2 DEF Begin
  <2>2. owed' = 0
    BY <1>2 DEF Begin
  <2>3. Spent' = Spent
    BY <2>1
  <2> QED
    BY <2>1, <2>2, <2>3
<1>3. CASE HealthWritten
  <2>1. /\ due'["checkin"] = due["checkin"] /\ due'["enrollment"] = due["enrollment"]
        /\ svc'.pc = "pass" /\ svc'.api = svc.api /\ svc'.token = svc.token
        /\ svc.pc = "rename"
        /\ UNCHANGED <<flags, disk, server, faults, silent, failed, owed>>
    BY <1>3 DEF HealthWritten
  <2>2. Spent' = Spent
    BY <2>1
  <2> QED
    BY <2>1, <2>2
<1>4. CASE Reload
  <2>1. /\ svc'.pc = IF Due("enrollment") THEN "enroll" ELSE "checkin"
        /\ svc'.resumed = svc.resumed /\ svc.pc = "pass" /\ svc'.token = disk
        /\ svc'.api = IF disk = svc.token THEN svc.api ELSE disk # NoToken
        /\ UNCHANGED <<due, flags, disk, server, faults, silent, failed, owed>>
    BY <1>4 DEF Reload
  <2>2. ~Due("enrollment") => due["enrollment"] # 0 /\ ~svc.resumed
    BY DEF Due
  <2>3. Spent' = Spent
    BY <2>1
  <2>4. ClientIsKept'
    BY <2>1
  <2>5. PassIsDone' /\ ResumedIsServed'
    BY <2>1, <2>2
  <2>6. SilenceIsTimed' /\ UnservedIsExcused' /\ FailureIsLocal' /\ ResumeIsKept'
    BY <2>1, <2>3
  <2> QED
    BY <2>4, <2>5, <2>6
<1>5. CASE EnrollmentDone
  <2>0. NoToken \in Token
    BY DEF Token
  <2>1. /\ due'["enrollment"] = LongPeriod /\ due'["checkin"] = due["checkin"]
        /\ svc'.pc = "checkin" /\ svc'.api /\ svc'.token = disk' /\ svc.pc = "enroll"
        /\ svc'.resumed = svc.resumed
        /\ UNCHANGED <<flags, failed, owed>>
    BY <1>5 DEF EnrollmentDone, EnrollmentNext
  <2>2. disk' # NoToken /\ faults' \in Nat /\ faults <= faults'
    BY <1>5, <2>0, CheckKeeps DEF EnrollmentDone
  <2>3. silent' \in {silent, 0} /\ (~Served' => silent' = 0)
    BY <1>5 DEF EnrollmentDone, SilenceFollows
  <2>4. SilenceIsTimed'
    BY <2>1, <2>3
  <2>5. UnservedIsExcused' /\ ClientIsKept'
    BY <2>1, <2>2, <2>3
  <2>6. FailureIsLocal'
    <3> HIDE DEF FailureIsLocal
    <3> QED
      BY <2>1, <2>2, FailuresStayLocal
  <2>7. PassIsDone' /\ ResumeIsKept' /\ ResumedIsServed'
    BY <2>1
  <2> QED
    BY <2>4, <2>5, <2>6, <2>7
<1>6. CASE EnrollmentFailed
  <2>0. PICK token \in Token :
          /\ CheckFails(svc.token, token)
          /\ svc' = [svc EXCEPT !.pc = "checkin", !.token = token, !.api = FALSE]
    BY <1>6 DEF EnrollmentFailed
  <2>1. /\ due'["enrollment"] = LongPeriod /\ due'["checkin"] = due["checkin"]
        /\ svc'.pc = "checkin" /\ svc.pc = "enroll" /\ ~svc'.api
        /\ svc'.resumed = svc.resumed
        /\ failed' = IF Served THEN failed + 1 ELSE 1
        /\ UNCHANGED <<flags, owed>>
    BY <1>6, <2>0 DEF EnrollmentFailed, EnrollmentNext
  <2>2. /\ faults' \in Nat /\ faults <= faults'
        /\ Served => faults' = faults + 1
    BY <2>0, CheckKeeps
  <2>3. silent' \in {silent, 0} /\ (~Served' => silent' = 0)
    BY <1>6 DEF EnrollmentFailed, SilenceFollows
  <2>4. silent' <= silent /\ 0 <= silent' /\ (~Served => silent' = 0)
    BY <2>3
  <2>5. Spent' = failed' * LongPeriod - LongPeriod /\ failed' \in Nat /\ failed' > 0
    BY <2>1 DEF Spent
  <2>6. 0 <= Spent' /\ (Served => Spent <= Spent') /\ Spent' \in Int
    <3>1. CASE Served
      <4>1. Spent' = failed * LongPeriod /\ failed * LongPeriod \in Nat
        BY <2>1, <2>5, <3>1, Periods
      <4> QED
        BY <4>1 DEF Spent
    <3>2. CASE ~Served
      BY <2>1, <2>5, <3>2
    <3> QED
      BY <3>1, <3>2
  <2>7. SilenceIsTimed'
    <3>1. CASE due["checkin"] > 0
      BY <2>1, <2>3, <3>1
    <3>2. CASE ~(due["checkin"] > 0)
      <4>1. silent <= CheckInPeriod + Spent
        BY <2>1, <3>2
      <4> DEFINE s == Spent'
                 n == silent'
      <4>2. /\ s \in Int /\ n \in Int /\ 0 <= s /\ n <= silent
            /\ (Served => Spent <= s) /\ (~Served => n = 0)
        BY <2>3, <2>4, <2>6
      <4> HIDE DEF s, n
      <4>3. n <= CheckInPeriod + s
        BY <1>0, <4>1, <4>2
      <4> QED
        BY <2>1, <3>2, <4>3 DEF s, n
    <3> QED
      BY <3>1, <3>2
  <2>8. UnservedIsExcused' /\ ClientIsKept'
    BY <2>3, <2>5
  <2>9. FailureIsLocal'
    <3> HIDE DEF FailureIsLocal
    <3> QED
      BY <2>1, <2>2, FailuresStayLocal
  <2>10. PassIsDone' /\ ResumeIsKept' /\ ResumedIsServed'
    BY <2>1
  <2> QED
    BY <2>7, <2>8, <2>9, <2>10
<1>7. CASE CheckIn
  <2>1. /\ due'["enrollment"] = due["enrollment"] /\ due'["checkin"] = CheckInPeriod
        /\ svc'.pc = "sleep" /\ svc'.resumed = svc.resumed /\ svc.pc = "checkin"
        /\ svc'.api /\ svc.api
        /\ silent' = 0 /\ failed' = 0 /\ UNCHANGED <<flags, disk, server, faults, owed>>
    BY <1>7 DEF CheckIn, ResumeLeft
  <2> QED
    BY <2>1
<1>8. CASE NoCheckIn
  <2>1. /\ ~(Due("checkin") /\ svc.api)
        /\ svc'.pc = "sleep" /\ svc'.api = svc.api /\ svc'.resumed = svc.resumed
        /\ svc'.token = svc.token /\ svc.pc = "checkin"
        /\ UNCHANGED <<due, flags, disk, server, faults, silent, failed, owed>>
    BY <1>8 DEF NoCheckIn, ResumeLeft
  <2>2. svc.api => due["checkin"] # 0 /\ ~svc.resumed
    BY <2>1 DEF Due
  <2>3. Spent' = Spent
    BY <2>1
  <2> QED
    BY <2>1, <2>2, <2>3
<1> QED
  BY <1>1, <1>2, <1>3, <1>4, <1>5, <1>6, <1>7, <1>8 DEF Pass

(* A tick brings every timer, and every history, one step on.               *)
LEMMA TickKeeps ==
    ASSUME AgentLoopInv, Tick
    PROVE  AgentLoopInv'
<1> USE Constants DEF AgentLoopInv
<1>1. /\ svc.pc = "sleep" /\ svc' \in ServiceType /\ svc'.pc = "top"
      /\ svc'.api = svc.api /\ svc'.token = svc.token
    BY DEF Tick, Step, TypeOK, ServiceType
<1>2. /\ due' \in DueType
      /\ due'["checkin"] = Elapsed(due["checkin"])
      /\ due'["enrollment"] = Elapsed(due["enrollment"])
  <2>1. due' = [t \in Timers |-> Elapsed(due[t])]
    BY DEF Tick
  <2>2. \A t \in Timers : Elapsed(due[t]) \in 0 .. LongPeriod
    BY DEF Elapsed, TypeOK
  <2> QED
    BY <2>1, <2>2 DEF DueType
<1>3. /\ silent' \in Nat /\ owed' \in Nat /\ fresh' \in 0 .. CheckInPeriod
      /\ silent' <= silent + 1 /\ (~Served => silent' = 0)
      /\ owed' <= owed + 1 /\ (owed = 0 => owed' = 0)
    BY DEF Tick, Counted, TypeOK, Elapsed
<1>4. UNCHANGED <<flags, disk, tmp, server, run, runs, faults, failed>>
    BY DEF Tick
<1>5. /\ due["checkin"] \in Nat /\ due["enrollment"] \in Nat /\ due["enrollment"] <= LongPeriod
      /\ silent \in Nat /\ owed \in Nat /\ failed \in Nat
      /\ failed * LongPeriod \in Nat /\ (failed > 0 => LongPeriod <= failed * LongPeriod)
    BY Periods DEF TypeOK
<1>6. TypeOK'
    BY <1>1, <1>2, <1>3, <1>4, <1>5 DEF TypeOK, ServiceType, DueType, Elapsed, flags
<1>7. due["enrollment"] > 0
    BY <1>1, <1>5 DEF PassIsDone
<1>8. SilenceIsTimed'
  <2> USE DEF SilenceIsTimed, Spent, Elapsed
  <2>1. CASE due["checkin"] > 1
    BY <2>1, <1>2, <1>3, <1>5
  <2>2. CASE due["checkin"] = 1
    <3>1. silent' <= CheckInPeriod
      BY <2>2, <1>3, <1>5
    <3>2. 0 <= Spent' /\ Spent' \in Int
      BY <1>2, <1>4, <1>5
    <3> QED
      BY <3>1, <3>2, <2>2, <1>1, <1>2, <1>3
  <2>3. CASE due["checkin"] = 0 /\ failed = 0
    <3>1. ~svc.api
      BY <2>3, <1>1 DEF PassIsDone
    <3>2. silent = 0
      BY <2>3, <3>1, <1>1 DEF ClientIsKept, Up
    <3> QED
      BY <2>3, <3>2, <1>1, <1>2, <1>3, <1>4
  <2>4. CASE due["checkin"] = 0 /\ failed # 0
    BY <2>4, <1>1, <1>2, <1>3, <1>4, <1>5, <1>7
  <2> QED
    BY <2>1, <2>2, <2>3, <2>4, <1>5
<1>9. UnservedIsExcused' /\ ClientIsKept' /\ FailureIsLocal'
    BY <1>1, <1>3, <1>4 DEF UnservedIsExcused, ClientIsKept, FailureIsLocal, Served, Up
<1>10. PassIsDone' /\ ResumeIsKept' /\ ResumedIsServed'
    BY <1>1, <1>3, <1>4, <1>5 DEF PassIsDone, ResumeIsKept, ResumedIsServed, flags
<1> QED
  BY <1>6, <1>8, <1>9, <1>10

(* The steps beside the pass: control requests, the network and one-shot    *)
(* runs.                                                                    *)
LEMMA OthersKeep ==
    ASSUME AgentLoopInv,
           Start \/ ControlStop \/ PowerEvent \/ ServerChanges
             \/ RunWritesHealth \/ RunRenamesHealth \/ RunEnrolls \/ RunRewrites
    PROVE  AgentLoopInv'
<1> USE Constants, SpentStays DEF AgentLoopInv, TypeOK, flags, world, hist
<1> USE DEF SilenceIsTimed, UnservedIsExcused, ClientIsKept, FailureIsLocal, Served, Up,
            PassIsDone, ResumeIsKept, ResumedIsServed
<1>0. Spent \in Int
  BY Periods DEF Spent
<1>1. CASE Start
  <2>1. svc' \in ServiceType /\ svc'.pc = "top"
    BY <1>1 DEF Start, ServiceType
  <2>2. /\ due' = AllDue /\ silent' = 0 /\ failed' = 0 /\ owed' = 0 /\ Spent' = 0
        /\ svc'.api \/ svc'.token = NoToken
    BY <1>1 DEF Start, Spent
  <2>3. stop' \in BOOLEAN /\ resume' \in BOOLEAN
    BY <1>1 DEF Start
  <2>4. UNCHANGED <<disk, tmp, world, faults>>
    BY <1>1 DEF Start
  <2> QED
    BY <2>1, <2>2, <2>3, <2>4 DEF ServiceType, DueType
<1>2. CASE ControlStop
  <2>1. stop' \in BOOLEAN
    BY <1>2 DEF ControlStop
  <2> QED
    BY <1>2, <2>1 DEF ControlStop
<1>3. CASE PowerEvent
  <2>1. resume' \in BOOLEAN /\ resume'
    BY <1>3 DEF PowerEvent
  <2>2. owed' \in Nat /\ owed' <= 2 /\ (owed' = 2 => owed = 2)
    BY <1>3 DEF PowerEvent
  <2> QED
    BY <1>3, <2>1, <2>2 DEF PowerEvent
<1>4. CASE ServerChanges
  <2>1. /\ server' \in Server /\ silent' \in {silent, 0} /\ (~Served' => silent' = 0)
        /\ UNCHANGED <<svc, due, flags, disk, tmp, fresh, run, runs, faults, failed, owed>>
    BY <1>4 DEF ServerChanges, SilenceFollows
  <2>2. Spent' = Spent
    BY <2>1
  <2> QED
    BY <1>0, <2>1, <2>2
<1>5. CASE RunWritesHealth
  <2>1. tmp' \in BOOLEAN
    BY <1>5 DEF RunWritesHealth
  <2>2. /\ UNCHANGED <<svc, due, flags, disk, server, fresh, faults, hist>>
        /\ run' = "rename" /\ runs' \in 0 .. MaxRuns
    BY <1>5, AgentLoopAssumption DEF RunWritesHealth
  <2> QED
    BY <2>1, <2>2
<1>6. CASE RunRenamesHealth
  <2>1. tmp' \in BOOLEAN
    BY <1>6 DEF RunRenamesHealth
  <2> QED
    BY <1>6, <2>1 DEF RunRenamesHealth
<1>7. CASE RunEnrolls \/ RunRewrites
  <2>1. /\ silent' \in {silent, 0} /\ (~Served' => silent' = 0)
        /\ run' \in {"none", run} /\ runs' \in 0 .. MaxRuns
        /\ UNCHANGED <<svc, due, flags, tmp, failed, owed>>
    BY <1>7, AgentLoopAssumption DEF RunEnrolls, RunRewrites, SilenceFollows
  <2>2. /\ disk' \in Token /\ server' \in Server /\ fresh' \in 0 .. CheckInPeriod
        /\ faults' \in 0 .. MaxFaults /\ faults <= faults'
    <3>1. CASE RunEnrolls
      <4>1. NoToken \in Token
        BY DEF Token
      <4> QED
        BY <3>1, <4>1, CheckKeeps DEF RunEnrolls
    <3>2. CASE RunRewrites
      BY <3>2 DEF RunRewrites
    <3> QED
      BY <1>7, <3>1, <3>2
  <2>3. Spent' = Spent
    BY <2>1
  <2>4. TypeOK'
    BY <2>1, <2>2
  <2>5. SilenceIsTimed' /\ UnservedIsExcused'
    BY <1>0, <2>1, <2>3
  <2>6. ClientIsKept' /\ FailureIsLocal'
    <3>1. ClientIsKept'
      BY <2>1
    <3>2. FailureIsLocal'
      <4> HIDE DEF FailureIsLocal
      <4> QED
        BY <2>1, <2>2, FailuresStayLocal
    <3> QED
      BY <3>1, <3>2
  <2>7. PassIsDone' /\ ResumeIsKept' /\ ResumedIsServed'
    BY <2>1
  <2> QED
    BY <2>4, <2>5, <2>6, <2>7
<1> QED
  BY <1>1, <1>2, <1>3, <1>4, <1>5, <1>6, <1>7

(* The inductive invariant holds in every reachable state.                  *)
THEOREM AgentLoopInvariant == Spec => []AgentLoopInv
<1>1. AgentLoopInv /\ [Next]_vars => AgentLoopInv'
  <2> SUFFICES ASSUME AgentLoopInv, [Next]_vars PROVE AgentLoopInv'
    OBVIOUS
  <2>1. CASE Crash \/ HealthFails \/ ReloadFails
    <3>1. Fails /\ tmp' = tmp /\ faults' \in 0 .. MaxFaults /\ faults <= faults'
      BY <2>1, AgentLoopAssumption
         DEF Crash, HealthFails, ReloadFails, Fault, AgentLoopInv, TypeOK
    <3> QED
      BY <3>1, FailsKeeps DEF AgentLoopInv, TypeOK
  <2>2. CASE Pass /\ ~HealthFails
    BY <2>2, PassTypes, PassTiming DEF AgentLoopInv, Timing
  <2>3. CASE Tick
    BY <2>3, TickKeeps
  <2>4. CASE Start \/ ControlStop \/ PowerEvent \/ ServerChanges
               \/ RunWritesHealth \/ RunRenamesHealth \/ RunEnrolls \/ RunRewrites
    BY <2>4, OthersKeep
  <2>5. CASE UNCHANGED vars
    BY <2>5 DEF vars, flags, world, hist, AgentLoopInv, TypeOK, SilenceIsTimed, Spent,
                UnservedIsExcused, ClientIsKept, FailureIsLocal, Served, Up, PassIsDone,
                ResumeIsKept, ResumedIsServed
  <2> QED
    BY <2>1, <2>2, <2>3, <2>4, <2>5 DEF Next
<1> QED
  BY <1>1, InitInv, PTL DEF Spec

(* For any periods: a served device checks in within the check-in period    *)
(* while the service has a client, and each failed check - a server away,   *)
(* a serial that cannot be read, a file that cannot be written - costs at   *)
(* most one enrollment period.                                              *)
THEOREM CheckInsAreTimely == Spec => []CheckInIsTimely
<1>1. ASSUME AgentLoopInv, svc.pc = "sleep"
      PROVE  silent <= IF svc.api THEN CheckInPeriod - due["checkin"]
                                  ELSE CheckInPeriod + failed * LongPeriod
  <2> USE <1>1, Constants DEF AgentLoopInv, TypeOK, SilenceIsTimed, PassIsDone
  <2>1. failed * LongPeriod \in Nat
    BY Periods
  <2>2. Spent <= failed * LongPeriod /\ Spent \in Int
    BY <2>1 DEF Spent
  <2> QED
    BY <2>1, <2>2
<1> QED
  BY <1>1, AgentLoopInvariant, PTL DEF CheckInIsTimely

(* A resume is taken by the next pass, which then serves every timer.       *)
THEOREM ResumesAreHonoured == Spec => []ResumeIsHonoured
<1>1. AgentLoopInv => ResumeIsHonoured
  BY DEF AgentLoopInv, ResumeIsHonoured, ResumeIsKept, ResumedIsServed
<1> QED
  BY <1>1, AgentLoopInvariant, PTL
=============================================================================
