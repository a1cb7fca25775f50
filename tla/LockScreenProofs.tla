-------------------------- MODULE LockScreenProofs --------------------------
(***************************************************************************)
(* Proofs about LockScreen, for any number of check-ins, starts, tokens    *)
(* and faults.                                                             *)
(***************************************************************************)
EXTENDS LockScreen, SequenceTheorems, TLAPS

(* Removing one registry thread leaves a sequence of threads.               *)
LEMMA RemovalType ==
    ASSUME writers \in Seq(BOOLEAN), NEW i \in DOMAIN writers
    PROVE  WriterAt(i) \in Seq(BOOLEAN)
<1>1. i \in 1 .. Len(writers) /\ Len(writers) \in Nat
  OBVIOUS
<1>2. \A j \in 1 .. Len(writers) : writers[j] \in BOOLEAN
  OBVIOUS
<1>3. SubSeq(writers, 1, i - 1) \in Seq(BOOLEAN)
  <2>1. \A j \in 1 .. i - 1 : writers[j] \in BOOLEAN
    BY <1>1, <1>2
  <2>2. 1 \in Int /\ i - 1 \in Int
    BY <1>1
  <2> QED
    BY <2>1, <2>2, SubSeqProperties
<1>4. SubSeq(writers, i + 1, Len(writers)) \in Seq(BOOLEAN)
  <2>1. \A j \in i + 1 .. Len(writers) : writers[j] \in BOOLEAN
    BY <1>1, <1>2
  <2>2. i + 1 \in Int /\ Len(writers) \in Int
    BY <1>1
  <2> QED
    BY <2>1, <2>2, SubSeqProperties
<1> QED
  BY <1>3, <1>4, ConcatProperties DEF WriterAt

(* Removing the only thread leaves none; removing any but the youngest      *)
(* leaves the youngest where it is.                                         *)
LEMMA YoungestStays ==
    ASSUME writers \in Seq(BOOLEAN), NEW i \in DOMAIN writers
    PROVE  /\ Len(writers) = 1 => WriterAt(i) = <<>>
           /\ ~Youngest(i) =>
                /\ WriterAt(i) # <<>>
                /\ WriterAt(i)[Len(WriterAt(i))] = writers[Len(writers)]
<1> DEFINE n == Len(writers)
           older   == SubSeq(writers, 1, i - 1)
           younger == SubSeq(writers, i + 1, n)
<1>1. n \in Nat /\ i \in 1 .. n
  OBVIOUS
<1>2. \A j \in 1 .. n : writers[j] \in BOOLEAN
  OBVIOUS
<1>3. /\ older \in Seq(BOOLEAN) /\ Len(older) = i - 1
  <2>1. 1 \in Int /\ i - 1 \in Int /\ \A j \in 1 .. i - 1 : writers[j] \in BOOLEAN
    BY <1>1, <1>2
  <2> QED
    BY <1>1, <2>1, SubSeqProperties
<1>4. /\ younger \in Seq(BOOLEAN) /\ Len(younger) = n - i
      /\ i # n => younger[n - i] = writers[n]
  <2>1. i + 1 \in Int /\ n \in Int /\ \A j \in i + 1 .. n : writers[j] \in BOOLEAN
    BY <1>1, <1>2
  <2>2. /\ younger \in Seq(BOOLEAN)
        /\ Len(younger) = IF i + 1 <= n THEN n - (i + 1) + 1 ELSE 0
        /\ \A j \in 1 .. n - (i + 1) + 1 : younger[j] = writers[i + 1 + j - 1]
    BY <2>1, SubSeqProperties
  <2> HIDE DEF n, younger
  <2>3. Len(younger) = n - i
    BY <1>1, <2>2
  <2>4. ASSUME i # n PROVE younger[n - i] = writers[n]
    <3>1. n - i \in 1 .. n - (i + 1) + 1
      BY <1>1, <2>4
    <3>2. i + 1 + (n - i) - 1 = n
      BY <1>1
    <3> QED
      BY <2>2, <3>1, <3>2
  <2> QED
    BY <2>2, <2>3, <2>4
<1>5. /\ WriterAt(i) \in Seq(BOOLEAN) /\ Len(WriterAt(i)) = n - 1
      /\ i # n => WriterAt(i)[n - 1] = writers[n]
  <2> HIDE DEF older, younger, n
  <2>1. /\ older \o younger \in Seq(BOOLEAN)
        /\ Len(older \o younger) = Len(older) + Len(younger)
        /\ \A j \in 1 .. Len(older) + Len(younger) :
              (older \o younger)[j] = IF j <= Len(older) THEN older[j]
                                      ELSE younger[j - Len(older)]
    BY <1>3, <1>4, ConcatProperties
  <2>2. i # n => /\ n - 1 \in 1 .. Len(older) + Len(younger)
                 /\ ~(n - 1 <= Len(older)) /\ (n - 1) - Len(older) = n - i
    BY <1>1, <1>3, <1>4
  <2>3. i # n => (older \o younger)[n - 1] = writers[n]
    BY <1>4, <2>1, <2>2
  <2>4. Len(older) + Len(younger) = n - 1
    BY <1>1, <1>3, <1>4
  <2>5. WriterAt(i) = older \o younger
    BY DEF WriterAt, older, younger, n
  <2> QED
    BY <2>1, <2>3, <2>4, <2>5
<1>6. CASE n = 1
  BY <1>1, <1>5, <1>6, EmptySeq DEF Youngest
<1>7. CASE n # 1
  BY <1>1, <1>5, <1>7 DEF Youngest
<1> QED
  BY <1>6, <1>7

(* A change asked for is what the youngest thread writes, and nothing has   *)
(* befallen it.                                                             *)
LEMMA Spawned ==
    ASSUME writers \in Seq(BOOLEAN), NEW disabled \in BOOLEAN, Spawn(disabled)
    PROVE  writers' \in Seq(BOOLEAN) /\ Wanted' = disabled /\ causes' = {}
<1>1. writers' = Append(writers, disabled)
  BY DEF Spawn
<1>2. /\ writers' \in Seq(BOOLEAN)
      /\ Len(writers') = Len(writers) + 1
      /\ writers'[Len(writers) + 1] = disabled
  BY <1>1, AppendProperties
<1>3. writers' # <<>>
  BY <1>2
<1> QED
  BY <1>2, <1>3 DEF Wanted, Spawn

(* Types of a step that asks for a change of the policy or for none.        *)
LEMMA SpawnTypes ==
    ASSUME TypeOK, SpawnNothing \/ Spawn(TRUE) \/ Spawn(FALSE)
    PROVE  /\ writers' \in Seq(BOOLEAN)
           /\ causes' \subseteq {"crash", "reordered", "failed", "died"}
<1>1. CASE SpawnNothing
  BY <1>1 DEF SpawnNothing, TypeOK
<1>2. CASE Spawn(TRUE)
  BY <1>2, Spawned DEF TypeOK
<1>3. CASE Spawn(FALSE)
  BY <1>3, Spawned DEF TypeOK
<1> QED
  BY <1>1, <1>2, <1>3

(* Nothing is running, read or wanted at first.                             *)
LEMMA InitInv == Init => LockScreenInv
<1> SUFFICES ASSUME Init PROVE LockScreenInv
  OBVIOUS
<1> USE LockScreenAssumption DEF Init
<1>1. TypeOK
  <2>1. writers \in Seq(BOOLEAN)
    BY EmptySeq
  <2>2. NoCheckIn \in CheckIns
    BY DEF CheckIns, NoCheckIn
  <2>3. disk \in [at : CheckIns, locked : BOOLEAN]
        /\ seen \in [at : CheckIns, locked : BOOLEAN]
    BY <2>2 DEF Unreadable
  <2>4. ui \in [pc : {"off", "created", "idle", "sync", "draw"}, enforced : BOOLEAN,
                 remote : BOOLEAN, override : CheckIns, started : BOOLEAN,
                 pending : BOOLEAN, keys : BOOLEAN]
    BY <2>2 DEF Off
  <2>5. policy \in BOOLEAN
    OBVIOUS
  <2>6. starts \in 0 .. MaxStarts /\ submits \in 0 .. MaxSubmits /\ faults \in 0 .. MaxFaults
    OBVIOUS
  <2>7. /\ hook \in {"absent", "installed", "failed"}
        /\ released \subseteq CheckIns /\ freed \subseteq CheckIns
        /\ causes \subseteq {"crash", "reordered", "failed", "died"}
    OBVIOUS
  <2> QED
    BY <2>1, <2>3, <2>4, <2>5, <2>6, <2>7 DEF TypeOK
<1>2. /\ OffIsFresh /\ FileIsNumbered /\ OverrideIsReleased /\ StartedIsLocked
      /\ KeysFollowLock /\ ReadIsObeyed /\ FreedIsPast /\ LockedIsNotFreed
      /\ FreedIsOverridden /\ WindowFollowsLock
  BY DEF OffIsFresh, FileIsNumbered, OverrideIsReleased, StartedIsLocked, Running,
         KeysFollowLock, ReadIsObeyed, FreedIsPast, LockedIsNotFreed,
         FreedIsOverridden, WindowFollowsLock, Drawn, Off, NoCheckIn, Locked
<1>3. WantedFollows
  BY DEF WantedFollows, Wanted, Off
<1> QED
  BY <1>1, <1>2, <1>3 DEF LockScreenInv

(* The types, whatever the step.                                            *)
LEMMA TypesKept ==
    ASSUME LockScreenInv, Next
    PROVE  TypeOK'
<1> USE LockScreenAssumption DEF LockScreenInv, TypeOK, vars, bounds, histories, Fault
<1>0. NoCheckIn \in CheckIns /\ Unreadable \in [at : CheckIns, locked : BOOLEAN]
  BY DEF CheckIns, NoCheckIn, Unreadable
<1>1. CASE CheckIn
  BY <1>1 DEF CheckIn, CheckIns, NoCheckIn
<1>2. CASE Start
  <2>1. PICK enforced \in BOOLEAN, state \in {disk, Unreadable} :
          /\ Reads(state)
          /\ ui' = [Off EXCEPT !.pc = "created", !.enforced = enforced,
                               !.remote = state.locked]
          /\ seen' = state
    BY <1>2 DEF Start
  <2>2. faults' \in 0 .. MaxFaults
    BY <2>1 DEF Reads
  <2>3. state \in [at : CheckIns, locked : BOOLEAN]
    BY <1>0
  <2>4. ui' \in [pc : {"off", "created", "idle", "sync", "draw"}, enforced : BOOLEAN,
                 remote : BOOLEAN, override : CheckIns, started : BOOLEAN,
                 pending : BOOLEAN, keys : BOOLEAN]
    BY <1>0, <2>1, <2>3 DEF Off
  <2>5. starts' \in 0 .. MaxStarts
    BY <1>2 DEF Start
  <2> QED
    BY <1>2, <2>1, <2>2, <2>3, <2>4, <2>5 DEF Start
<1>3. CASE HookInstalls
  BY <1>3 DEF HookInstalls
<1>4. CASE Close
  BY <1>0, <1>4 DEF Close, Off
<1>5. CASE Crash
  BY <1>0, <1>5 DEF Crash, Off
<1>6. CASE PollNothing \/ PollRefused
  BY <1>6 DEF PollNothing, PollRefused, Frame
<1>7. CASE PollAccepted
  <2>1. PICK state \in {disk, Unreadable} :
          /\ Reads(state)
          /\ ui' = [Release(ui, state) EXCEPT !.pc = "sync", !.pending = FALSE]
          /\ released' = released \cup {seen.at, state.at}
          /\ freed' = freed \cup ({state.at} \ {NoCheckIn})
    BY <1>7 DEF PollAccepted
  <2>2. faults' \in 0 .. MaxFaults
    BY <2>1 DEF Reads
  <2>3. state \in [at : CheckIns, locked : BOOLEAN]
    BY <1>0
  <2>4. /\ writers' \in Seq(BOOLEAN)
        /\ causes' \subseteq {"crash", "reordered", "failed", "died"}
    BY <1>7, SpawnTypes DEF PollAccepted
  <2>5. released' \subseteq CheckIns /\ freed' \subseteq CheckIns
    BY <2>1, <2>3
  <2>6. ui' \in [pc : {"off", "created", "idle", "sync", "draw"}, enforced : BOOLEAN,
                 remote : BOOLEAN, override : CheckIns, started : BOOLEAN,
                 pending : BOOLEAN, keys : BOOLEAN]
    BY <2>1, <2>3 DEF Release, EndBlueScreen
  <2> QED
    BY <1>7, <2>2, <2>4, <2>5, <2>6 DEF PollAccepted
<1>8. CASE SyncEarly \/ SyncUnreadable
  BY <1>8 DEF SyncEarly, SyncUnreadable, Frame, Reads
<1>9. CASE SyncRead
  <2>1. /\ writers' \in Seq(BOOLEAN)
        /\ causes' \subseteq {"crash", "reordered", "failed", "died"}
    BY <1>9, SpawnTypes DEF SyncRead
  <2>2. ui' \in [pc : {"off", "created", "idle", "sync", "draw"}, enforced : BOOLEAN,
                 remote : BOOLEAN, override : CheckIns, started : BOOLEAN,
                 pending : BOOLEAN, keys : BOOLEAN]
    BY <1>0, <1>9 DEF SyncRead, EndBlueScreen
  <2> QED
    BY <1>9, <2>1, <2>2 DEF SyncRead
<1>10. CASE DrawOpen
  BY <1>10 DEF DrawOpen
<1>11. CASE DrawLocked
  <2>1. /\ writers' \in Seq(BOOLEAN)
        /\ causes' \subseteq {"crash", "reordered", "failed", "died"}
    BY <1>11, SpawnTypes DEF DrawLocked
  <2>2. PICK submit \in BOOLEAN :
          /\ Submits(submit)
          /\ ui' = [ui EXCEPT !.pc = "idle", !.keys = TRUE, !.started = TRUE,
                              !.pending = ui.pending \/ submit]
    BY <1>11 DEF DrawLocked
  <2>3. submits' \in 0 .. MaxSubmits
    BY <2>2 DEF Submits
  <2>4. ui' \in [pc : {"off", "created", "idle", "sync", "draw"}, enforced : BOOLEAN,
                 remote : BOOLEAN, override : CheckIns, started : BOOLEAN,
                 pending : BOOLEAN, keys : BOOLEAN]
    BY <2>2
  <2> QED
    BY <1>11, <2>1, <2>3, <2>4 DEF DrawLocked
<1>12. CASE Writer
  <2>1. PICK i \in DOMAIN writers : WriterDone(i) \/ WriterFails(i) \/ WriterDies(i)
    BY <1>12 DEF Writer
  <2>2. WriterAt(i) \in Seq(BOOLEAN)
    BY RemovalType
  <2>3. writers[i] \in BOOLEAN
    OBVIOUS
  <2>4. CASE WriterDone(i)
    <3>1. policy' \in BOOLEAN
      BY <2>3, <2>4 DEF WriterDone
    <3> QED
      BY <2>2, <2>4, <3>1 DEF WriterDone
  <2>5. CASE WriterFails(i)
    BY <2>2, <2>5 DEF WriterFails
  <2>6. CASE WriterDies(i)
    BY <2>2, <2>6 DEF WriterDies
  <2> QED
    BY <2>1, <2>4, <2>5, <2>6
<1> QED
  BY <1>1, <1>2, <1>3, <1>4, <1>5, <1>6, <1>7, <1>8, <1>9, <1>10, <1>11, <1>12
     DEF Next, Poll, Sync, Draw

(* The override names the check-in on disk: the locked one is not obeyed    *)
(* once more, and none but a freed one is hidden.                           *)
LEMMA FreedIsHidden ==
    ASSUME LockScreenInv, SyncRead, disk.locked, disk.at \in freed
    PROVE  Overridden(ui, disk)
BY DEF LockScreenInv, FreedIsOverridden, Running, SyncRead, Overridden

(* What the registry threads will leave follows the screen, whatever the    *)
(* step.                                                                    *)
LEMMA WantedKept ==
    ASSUME LockScreenInv, Next
    PROVE  WantedFollows'
<1> USE DEF LockScreenInv, TypeOK, WantedFollows, vars, bounds, histories
<1>1. CASE CheckIn \/ HookInstalls \/ PollNothing \/ PollRefused \/ SyncEarly
             \/ SyncUnreadable \/ DrawOpen
  BY <1>1 DEF CheckIn, HookInstalls, PollNothing, PollRefused, SyncEarly,
              SyncUnreadable, DrawOpen, Frame, Wanted
<1>2. CASE Start
  BY <1>2 DEF Start, OffIsFresh, Running, Off, Wanted
<1>3. CASE Close
  BY <1>3 DEF Close, Off, Wanted
<1>4. CASE Crash
  BY <1>4 DEF Crash, Off, Wanted
<1>5. CASE PollAccepted
  <2>1. Wanted' = FALSE
    BY <1>5, Spawned DEF PollAccepted
  <2>2. ui'.started = FALSE
    BY <1>5 DEF PollAccepted, Release, EndBlueScreen
  <2> QED
    BY <2>1, <2>2
<1>6. CASE SyncRead
  <2> DEFINE opens == ~Overridden(ui, disk) /\ ui.remote /\ ~disk.locked
  <2>1. CASE opens
    <3>1. Wanted' = FALSE
      BY <1>6, <2>1, Spawned DEF SyncRead
    <3>2. ui'.started = FALSE
      BY <1>6, <2>1 DEF SyncRead, EndBlueScreen
    <3> QED
      BY <3>1, <3>2
  <2>2. CASE ~opens
    <3>1. ui'.started = ui.started
      BY <1>6, <2>2 DEF SyncRead
    <3> QED
      BY <1>6, <2>2, <3>1 DEF SyncRead, SpawnNothing, Wanted
  <2> QED
    BY <2>1, <2>2
<1>7. CASE DrawLocked
  <2>1. ui'.started = TRUE
    BY <1>7 DEF DrawLocked
  <2>2. CASE ui.started
    BY <1>7, <2>1, <2>2 DEF DrawLocked, SpawnNothing, Wanted
  <2>3. CASE ~ui.started
    BY <1>7, <2>1, <2>3, Spawned DEF DrawLocked
  <2> QED
    BY <2>2, <2>3
<1>8. CASE Writer
  <2>1. PICK i \in DOMAIN writers : WriterDone(i) \/ WriterFails(i) \/ WriterDies(i)
    BY <1>8 DEF Writer
  <2>2. ASSUME ~Youngest(i) PROVE Wanted' = ui'.started \/ causes' # {}
    <3>1. causes' = causes /\ ui' = ui /\ writers' = WriterAt(i)
      BY <2>1, <2>2 DEF WriterDone, WriterFails, WriterDies
    <3>2. Wanted' = Wanted
      BY <2>2, <3>1, YoungestStays DEF Wanted
    <3> QED
      BY <3>1, <3>2
  <2>3. CASE Youngest(i) /\ (WriterFails(i) \/ WriterDies(i))
    BY <2>3 DEF WriterFails, WriterDies
  <2>4. ASSUME Youngest(i), WriterDone(i), causes' = {} PROVE Wanted' = ui'.started
    <3>1. i = 1 /\ writers # <<>> /\ Len(writers) = 1
      BY <2>4 DEF WriterDone, Youngest
    <3>2. Wanted = ui.started /\ ui' = ui
      BY <2>4, <3>1 DEF WriterDone
    <3> QED
      BY <2>4, <3>1, <3>2, YoungestStays DEF WriterDone, Wanted
  <2> QED
    BY <2>1, <2>2, <2>3, <2>4
<1> QED
  BY <1>1, <1>2, <1>3, <1>4, <1>5, <1>6, <1>7, <1>8 DEF Next, Poll, Sync, Draw

(* The other parts, whatever the step.                                      *)
LEMMA ScreenKept ==
    ASSUME LockScreenInv, Next
    PROVE  /\ OffIsFresh' /\ FileIsNumbered'
           /\ OverrideIsReleased' /\ StartedIsLocked' /\ KeysFollowLock' /\ ReadIsObeyed'
           /\ FreedIsPast' /\ LockedIsNotFreed' /\ FreedIsOverridden'
           /\ WindowFollowsLock'
<1> USE DEF LockScreenInv, TypeOK, vars, bounds, histories,
            OffIsFresh, Running, FileIsNumbered, OverrideIsReleased, StartedIsLocked,
            KeysFollowLock, ReadIsObeyed, FreedIsPast, LockedIsNotFreed,
            FreedIsOverridden, WindowFollowsLock, Drawn, Locked, Swallows
<1>0. disk.at \in Nat /\ freed \subseteq Nat /\ ui.override \in Nat /\ seen.at \in Nat
  BY LockScreenAssumption DEF CheckIns, NoCheckIn
<1>1. CASE CheckIn
  <2>1. \A n \in freed : n < disk'.at
    BY <1>0, <1>1 DEF CheckIn
  <2>2. disk'.at # NoCheckIn /\ disk'.at \notin freed
    BY <1>0, <1>1, <2>1 DEF CheckIn, NoCheckIn
  <2>3. \A n \in freed' : n <= disk'.at
    BY <1>0, <1>1, <2>1 DEF CheckIn
  <2> QED
    BY <1>1, <2>2, <2>3 DEF CheckIn
<1>2. CASE Start
  <2>1. PICK enforced \in BOOLEAN, state \in {disk, Unreadable} :
          /\ ui' = [Off EXCEPT !.pc = "created", !.enforced = enforced,
                               !.remote = state.locked]
          /\ seen' = state
    BY <1>2 DEF Start
  <2>2. /\ ui'.pc = "created" /\ ui'.override = NoCheckIn /\ ~ui'.started
        /\ ~ui'.pending /\ ui'.remote = state.locked
    BY <2>1 DEF Off
  <2> QED
    BY <1>2, <2>1, <2>2 DEF Start
<1>3. CASE HookInstalls
  BY <1>3 DEF HookInstalls
<1>4. CASE Close
  BY <1>4 DEF Close, Off
<1>5. CASE Crash
  BY <1>5 DEF Crash, Off
<1>6. CASE PollNothing \/ PollRefused \/ SyncEarly \/ SyncUnreadable
  <2>1. /\ UNCHANGED <<disk, hook, seen, released, freed>>
        /\ ui.pc # "off" /\ ui'.pc \in {"sync", "draw"}
        /\ ui'.override = ui.override /\ ui'.remote = ui.remote
        /\ ui'.enforced = ui.enforced /\ ui'.started = ui.started
        /\ ui'.pending => ui.pending
    <3>1. CASE PollNothing
      BY <3>1 DEF PollNothing, Frame
    <3>2. CASE PollRefused
      BY <3>2 DEF PollRefused
    <3>3. CASE SyncEarly \/ SyncUnreadable
      BY <3>3 DEF SyncEarly, SyncUnreadable, Frame
    <3> QED
      BY <1>6, <3>1, <3>2, <3>3
  <2> QED
    BY <2>1
<1>7. CASE PollAccepted
  <2>1. PICK state \in {disk, Unreadable} :
          /\ ui' = [Release(ui, state) EXCEPT !.pc = "sync", !.pending = FALSE]
          /\ released' = released \cup {seen.at, state.at}
          /\ freed' = freed \cup ({state.at} \ {NoCheckIn})
    BY <1>7 DEF PollAccepted
  <2>2. /\ ui'.pc = "sync" /\ ui'.override = state.at /\ ~ui'.started
        /\ ~ui'.pending /\ ~ui'.remote /\ ~ui'.enforced
    BY <2>1 DEF Release, EndBlueScreen
  <2>3. disk.at \notin freed /\ disk' = disk /\ seen' = seen
    BY <1>7 DEF PollAccepted
  <2>4. FreedIsPast' /\ FreedIsOverridden'
    <3>1. state = disk \/ state.at = NoCheckIn
      BY DEF Unreadable
    <3> QED
      BY <1>0, <2>1, <2>2, <2>3, <3>1
  <2> QED
    BY <1>7, <2>1, <2>2, <2>3, <2>4 DEF PollAccepted
<1>8. CASE SyncRead
  <2>0. disk.locked => disk.at # NoCheckIn
    BY DEF Unreadable
  <2>1. CASE Overridden(ui, disk)
    <3>1. /\ ui' = [ui EXCEPT !.pc = "draw", !.remote = FALSE]
          /\ seen' = disk /\ UNCHANGED <<disk, hook, bounds, released, freed>>
      BY <1>8, <2>1 DEF SyncRead
    <3>2. disk.locked /\ ui.override = disk.at /\ ui.override # NoCheckIn
      BY <2>0, <2>1 DEF Overridden
    <3>3. /\ ui'.pc = "draw" /\ ui'.override = ui.override /\ ~ui'.remote
          /\ ui'.started = ui.started /\ ui'.enforced = ui.enforced
          /\ ui'.pending = ui.pending
      BY <3>1
    <3> QED
      BY <3>1, <3>2, <3>3
  <2>2. CASE ~Overridden(ui, disk) /\ ui.remote /\ ~disk.locked
    <3>1. /\ ui' = EndBlueScreen([ui EXCEPT !.pc = "draw", !.override = NoCheckIn,
                                            !.remote = disk.locked])
          /\ seen' = disk /\ UNCHANGED <<disk, hook, bounds, released, freed>>
      BY <1>8, <2>2 DEF SyncRead
    <3>2. /\ ui'.pc = "draw" /\ ui'.override = NoCheckIn /\ ~ui'.remote
          /\ ~ui'.started /\ ~ui'.enforced /\ ui'.pending = ui.pending
      BY <2>2, <3>1 DEF EndBlueScreen
    <3> QED
      BY <2>2, <3>1, <3>2
  <2>3. CASE ~Overridden(ui, disk) /\ ~(ui.remote /\ ~disk.locked)
    <3>1. /\ ui' = [ui EXCEPT !.pc = "draw", !.override = NoCheckIn,
                              !.remote = disk.locked]
          /\ seen' = disk /\ UNCHANGED <<disk, hook, bounds, released, freed>>
      BY <1>8, <2>3 DEF SyncRead
    <3>2. /\ ui'.pc = "draw" /\ ui'.override = NoCheckIn /\ ui'.remote = disk.locked
          /\ ui'.started = ui.started /\ ui'.enforced = ui.enforced
          /\ ui'.pending = ui.pending
      BY <3>1
    <3>3. disk.locked => disk.at \notin freed
      BY <1>8, <2>3, FreedIsHidden
    <3> QED
      BY <2>3, <3>1, <3>2, <3>3
  <2> QED
    BY <2>1, <2>2, <2>3
<1>9. CASE DrawOpen
  BY <1>9 DEF DrawOpen
<1>10. CASE DrawLocked
  <2>1. PICK submit \in BOOLEAN :
          ui' = [ui EXCEPT !.pc = "idle", !.keys = TRUE, !.started = TRUE,
                           !.pending = ui.pending \/ submit]
    BY <1>10 DEF DrawLocked
  <2>2. /\ ui'.pc = "idle" /\ ui'.keys = TRUE /\ ui'.started = TRUE
        /\ ui'.override = ui.override /\ ui'.remote = ui.remote
        /\ ui'.enforced = ui.enforced
    BY <2>1
  <2> QED
    BY <1>10, <2>2 DEF DrawLocked
<1>11. CASE Writer
  <2>1. UNCHANGED <<disk, ui, hook, seen, released, freed>>
    BY <1>11 DEF Writer, WriterDone, WriterFails, WriterDies
  <2> QED
    BY <2>1
<1> QED
  BY <1>1, <1>2, <1>3, <1>4, <1>5, <1>6, <1>7, <1>8, <1>9, <1>10, <1>11
     DEF Next, Poll, Sync, Draw

(* The inductive invariant holds in every reachable state.                  *)
THEOREM LockScreenInvariant == Spec => []LockScreenInv
<1>1. LockScreenInv /\ [Next]_vars => LockScreenInv'
  <2> SUFFICES ASSUME LockScreenInv, [Next]_vars PROVE LockScreenInv'
    OBVIOUS
  <2>1. CASE Next
    BY <2>1, TypesKept, WantedKept, ScreenKept DEF LockScreenInv
  <2>2. CASE UNCHANGED vars
    BY <2>2 DEF vars, bounds, histories, LockScreenInv, TypeOK, OffIsFresh, Running,
                FileIsNumbered, OverrideIsReleased, StartedIsLocked, KeysFollowLock,
                ReadIsObeyed, FreedIsPast, LockedIsNotFreed, FreedIsOverridden,
                WantedFollows, Wanted, WindowFollowsLock, Drawn, Locked, Swallows
  <2> QED
    BY <2>1, <2>2
<1> QED
  BY <1>1, InitInv, PTL DEF Spec

(* No path out of the lock skips end_blue_screen: each drawn frame has the  *)
(* window, the Task Manager request and the keyboard of its lock.           *)
THEOREM WindowsFollow == Spec => []WindowFollowsLock
<1>1. LockScreenInv => WindowFollowsLock
  BY DEF LockScreenInv
<1> QED
  BY <1>1, LockScreenInvariant, PTL

(* A LOCK the UI has read is obeyed until a token releases it, and a        *)
(* release does not outlive the next check-in.                              *)
THEOREM LocksAreObeyed == Spec => []LockIsObeyed
<1>1. LockScreenInv => LockIsObeyed
  BY DEF LockScreenInv, LockIsObeyed, ReadIsObeyed, Running, Drawn, Locked
<1> QED
  BY <1>1, LockScreenInvariant, PTL

(* Task Manager follows the screen, but for threads that overtake, fail or  *)
(* die, and a UI that crashes while locked.                                 *)
THEOREM TaskManagerFollows == Spec => []TaskManagerIsExplained
<1>1. LockScreenInv => TaskManagerIsExplained
  BY DEF LockScreenInv, TaskManagerIsExplained, WantedFollows, Wanted
<1> QED
  BY <1>1, LockScreenInvariant, PTL

(* No step locks a running UI for a check-in that a token freed.            *)
THEOREM ReleasesHold == Spec => ReleaseHolds
<1> DEFINE Held == (ui.pc # "off" /\ ~ui.remote /\ ui'.remote) => seen'.at \notin freed
<1>1. LockScreenInv /\ [Next]_vars => [Held]_vars
  <2> SUFFICES ASSUME LockScreenInv, Next, ui.pc # "off", ~ui.remote, ui'.remote
               PROVE  seen'.at \notin freed
    OBVIOUS
  <2> USE DEF LockScreenInv, TypeOK, vars, bounds, histories
  <2>1. CASE CheckIn \/ HookInstalls \/ Writer
    BY <2>1 DEF CheckIn, HookInstalls, Writer, WriterDone, WriterFails, WriterDies
  <2>2. CASE Start
    BY <2>2 DEF Start
  <2>3. CASE Close \/ Crash
    BY <2>3 DEF Close, Crash, Off
  <2>4. CASE Poll
    BY <2>4 DEF Poll, PollNothing, PollRefused, PollAccepted, Frame, Release, EndBlueScreen
  <2>5. CASE SyncEarly \/ SyncUnreadable
    BY <2>5 DEF SyncEarly, SyncUnreadable, Frame
  <2>6. CASE SyncRead
    <3>1. disk.locked /\ ~Overridden(ui, disk)
      BY <2>6 DEF SyncRead, EndBlueScreen
    <3>2. seen' = disk
      BY <2>6 DEF SyncRead
    <3> QED
      BY <2>6, <3>1, <3>2, FreedIsHidden
  <2>7. CASE Draw
    BY <2>7 DEF Draw, DrawOpen, DrawLocked
  <2> QED
    BY <2>1, <2>2, <2>3, <2>4, <2>5, <2>6, <2>7 DEF Next, Sync
<1> QED
  BY <1>1, LockScreenInvariant, PTL DEF Spec, ReleaseHolds

(* What a step of the UI is to the abstract policy, when the check-ins that *)
(* the override names and those a token lifted agree.                       *)
LEMMA PolicyStep ==
    ASSUME LockScreenInv, Next
    PROVE  [Policy!Next]_(Policy!policyVars)
<1> USE DEF LockScreenInv, TypeOK, vars, bounds, histories, Policy!Next, Policy!policyVars,
            Policy!Nothing, Running
<1>1. CASE CheckIn
  BY <1>1 DEF CheckIn, Policy!Publish
<1>2. CASE Start
  <2>1. PICK enforced \in BOOLEAN, state \in {disk, Unreadable} :
          /\ ui' = [Off EXCEPT !.pc = "created", !.enforced = enforced,
                               !.remote = state.locked]
          /\ seen' = state
    BY <1>2 DEF Start
  <2>2. ui'.pc = "created" /\ ui'.remote = state.locked
    BY <2>1 DEF Off
  <2>3. ui.pc = "off" /\ disk' = disk /\ freed' = {}
    BY <1>2 DEF Start
  <2>4. seen' \in {disk, [at |-> 0, locked |-> FALSE]} /\ ui'.remote = seen'.locked
    BY <2>1, <2>2 DEF Unreadable, NoCheckIn
  <2>5. Policy!Start
    BY <2>2, <2>3, <2>4 DEF Policy!Start
  <2> QED
    BY <2>5
<1>3. CASE Close \/ Crash
  <2>1. /\ ui.pc # "off" /\ ui' = Off /\ UNCHANGED <<disk, seen, freed>>
    BY <1>3 DEF Close, Crash
  <2>2. ui'.pc = "off" /\ ui'.remote = FALSE
    BY <2>1 DEF Off
  <2>3. Policy!End
    BY <2>1, <2>2 DEF Policy!End
  <2> QED
    BY <2>3
<1>4. CASE HookInstalls \/ Writer
  <2>1. UNCHANGED <<disk, ui, seen, freed>>
    BY <1>4 DEF HookInstalls, Writer, WriterDone, WriterFails, WriterDies
  <2> QED
    BY <2>1
<1>5. CASE PollNothing \/ PollRefused \/ SyncEarly \/ SyncUnreadable \/ Draw
  <2>1. /\ UNCHANGED <<disk, seen, freed>>
        /\ ui.pc # "off" /\ ui'.pc # "off"
        /\ ui'.remote = ui.remote
    <3>1. CASE PollNothing
      BY <3>1 DEF PollNothing, Frame
    <3>2. CASE PollRefused
      BY <3>2 DEF PollRefused
    <3>3. CASE SyncEarly \/ SyncUnreadable
      BY <3>3 DEF SyncEarly, SyncUnreadable, Frame
    <3>4. CASE DrawOpen
      BY <3>4 DEF DrawOpen
    <3>5. CASE DrawLocked
      BY <3>5 DEF DrawLocked
    <3> QED
      BY <1>5, <3>1, <3>2, <3>3, <3>4, <3>5 DEF Draw
  <2> QED
    BY <2>1
<1>6. CASE PollAccepted
  <2>1. PICK state \in {disk, Unreadable} :
          /\ ui' = [Release(ui, state) EXCEPT !.pc = "sync", !.pending = FALSE]
          /\ freed' = freed \cup ({state.at} \ {NoCheckIn})
    BY <1>6 DEF PollAccepted
  <2>2. ui'.pc = "sync" /\ ui'.remote = FALSE
    BY <2>1 DEF Release, EndBlueScreen
  <2>3. freed' \in {freed, freed \cup ({disk.at} \ {0})}
    BY <2>1 DEF Unreadable, NoCheckIn
  <2>4. ui.pc # "off" /\ UNCHANGED <<disk, seen>>
    BY <1>6 DEF PollAccepted
  <2>5. Policy!Lift
    BY <2>2, <2>3, <2>4 DEF Policy!Lift
  <2> QED
    BY <2>5
<1>7. CASE SyncRead
  <2>1. /\ ui.pc # "off" /\ disk # [at |-> 0, locked |-> FALSE]
        /\ seen' = disk /\ UNCHANGED <<disk, freed>>
    BY <1>7 DEF SyncRead, Unreadable, NoCheckIn
  <2>2. Overridden(ui, disk) <=> disk.locked /\ disk.at \in freed
    <3>1. disk.locked => disk.at # NoCheckIn
      BY DEF FileIsNumbered, Unreadable
    <3>2. ui.override # NoCheckIn => ui.override \in freed
      BY DEF OverrideIsReleased
    <3> QED
      BY <1>7, <3>1, <3>2, FreedIsHidden DEF Overridden
  <2>3. /\ ui'.pc # "off"
        /\ ui'.remote <=> disk.locked /\ disk.at \notin freed
    <3>1. CASE Overridden(ui, disk)
      <4>1. ui' = [ui EXCEPT !.pc = "draw", !.remote = FALSE]
        BY <1>7, <3>1 DEF SyncRead
      <4> QED
        BY <2>2, <3>1, <4>1
    <3>2. CASE ~Overridden(ui, disk) /\ ui.remote /\ ~disk.locked
      <4>1. ui' = EndBlueScreen([ui EXCEPT !.pc = "draw", !.override = NoCheckIn,
                                           !.remote = disk.locked])
        BY <1>7, <3>2 DEF SyncRead
      <4> QED
        BY <2>2, <3>2, <4>1 DEF EndBlueScreen
    <3>3. CASE ~Overridden(ui, disk) /\ ~(ui.remote /\ ~disk.locked)
      <4>1. ui' = [ui EXCEPT !.pc = "draw", !.override = NoCheckIn, !.remote = disk.locked]
        BY <1>7, <3>3 DEF SyncRead
      <4>2. ui'.pc = "draw" /\ ui'.remote = disk.locked
        BY <4>1
      <4> QED
        BY <2>2, <3>3, <4>2
    <3> QED
      BY <3>1, <3>2, <3>3
  <2>4. ui'.remote \in BOOLEAN
    BY <1>7, TypesKept DEF Next, Sync
  <2>5. Policy!Obey
    BY <2>1, <2>3, <2>4 DEF Policy!Obey
  <2> QED
    BY <2>5
<1> QED
  BY <1>1, <1>2, <1>3, <1>4, <1>5, <1>6, <1>7 DEF Next, Poll, Sync

(* The UI implements the policy: a token lifts the latest check-in only,    *)
(* and every other one it takes up is obeyed.                               *)
THEOREM LockScreenImplementsPolicy == Spec => ImplementsLockPolicy
<1>1. Init => Policy!Init
  BY DEF Init, Policy!Init, Policy!Nothing, Running, Off, Unreadable, NoCheckIn
<1>2. LockScreenInv /\ [Next]_vars => [Policy!Next]_(Policy!policyVars)
  <2>1. ASSUME UNCHANGED vars PROVE UNCHANGED Policy!policyVars
    BY <2>1 DEF vars, histories, Policy!policyVars, Running
  <2>2. ASSUME LockScreenInv, Next PROVE [Policy!Next]_(Policy!policyVars)
    BY <2>2, PolicyStep
  <2> QED
    BY <2>1, <2>2
<1> QED
  BY <1>1, <1>2, LockScreenInvariant, PTL DEF Spec, ImplementsLockPolicy
=============================================================================
