--------------------------- MODULE SessionUiProofs ---------------------------
(***************************************************************************)
(* Proofs about SessionUi, for any processes, sessions and bounds.         *)
(***************************************************************************)
EXTENDS SessionUi, TLAPS

Process == [pc : Positions, session : Sessions \cup {Nobody},
            elevated : BOOLEAN, holds : BOOLEAN, failed : BOOLEAN]

(* The mutex part of the invariant: everything but the bounds and the       *)
(* keeper.                                                                  *)
MutexInv ==
    /\ proc \in [Slots -> Process]
    /\ acl \in [Sessions -> {"none", "standard", "elevated"}]
    /\ ProcessHasSession /\ NewHoldsNothing /\ HeldExists
    /\ HolderIsAlone /\ PastHolds

(* The invariant has the part about the mutex.                              *)
LEMMA InvHasMutexInv == SessionUiInv => MutexInv
BY DEF SessionUiInv, MutexInv, TypeOK, Process

(* Types of the states a process is in.                                     *)
LEMMA ConstantTypes ==
    /\ Free \in Process
    /\ Past \subseteq Positions /\ "free" \notin Past
    /\ "starting" \notin Past /\ "redundant" \notin Past
BY DEF Free, Process, Positions, Past, Drawing

(* No process runs at first.                                               *)
LEMMA InitInv == Init => SessionUiInv
<1> SUFFICES ASSUME Init PROVE SessionUiInv
  OBVIOUS
<1>1. \A p \in Slots : proc[p] = Free
  BY DEF Init
<1>2. TypeOK
  <2>1. proc \in [Slots -> Process]
    BY ConstantTypes DEF Init
  <2>2. acl \in [Sessions -> {"none", "standard", "elevated"}]
    BY DEF Init
  <2>3. launches \in 0 .. MaxLaunches /\ faults \in 0 .. MaxFaults
    BY SessionUiAssumption DEF Init
  <2>4. locked \in BOOLEAN
    BY DEF Init
  <2> QED
    BY <2>1, <2>2, <2>3, <2>4 DEF Init, TypeOK, Process
<1>3. ProcessHasSession /\ NewHoldsNothing /\ HeldExists /\ HolderIsAlone /\ PastHolds
  BY <1>1, ConstantTypes DEF ProcessHasSession, NewHoldsNothing, HeldExists,
     HolderIsAlone, PastHolds, Free
<1> QED
  BY <1>2, <1>3 DEF SessionUiInv

(* A new process holds nothing yet.                                         *)
LEMMA BeginKeeps ==
    ASSUME MutexInv, NEW s \in Sessions, NEW elevated \in BOOLEAN,
           Begin(s, elevated), acl' = acl
    PROVE  MutexInv'
<1> DEFINE new == [pc |-> "starting", session |-> s, elevated |-> elevated,
                   holds |-> FALSE, failed |-> FALSE]
<1>1. PICK p \in Slots : proc' = [proc EXCEPT ![p] = new] /\ proc[p].pc = "free"
  BY DEF Begin, FreeSlots
<1>2. new \in Process
  BY DEF Process, Positions
<1>3. proc' \in [Slots -> Process] /\ proc'[p] = new
  BY <1>1, <1>2 DEF MutexInv
<1>4. \A q \in Slots : q # p => proc'[q] = proc[q]
  BY <1>1 DEF MutexInv
<1> QED
  BY <1>3, <1>4, ConstantTypes
     DEF MutexInv, ProcessHasSession, NewHoldsNothing, HeldExists, HolderIsAlone, PastHolds

(* Where a process ends, the mutex lives on with every handle left.         *)
LEMMA EndKeeps ==
    ASSUME MutexInv, NEW ps, End(ps)
    PROVE  MutexInv'
<1>1. \A q \in Slots : proc'[q] = IF q \in ps THEN Free ELSE proc[q]
  BY DEF End
<1>2. proc' \in [Slots -> Process]
  BY ConstantTypes DEF End, MutexInv
<1>3. acl' \in [Sessions -> {"none", "standard", "elevated"}]
  BY DEF End, MutexInv
<1>4. HeldExists'
  <2> SUFFICES ASSUME NEW q \in Slots, proc'[q].holds
               PROVE  acl'[proc'[q].session] # "none"
    BY DEF HeldExists
  <2>1. q \notin ps /\ proc'[q] = proc[q]
    BY <1>1 DEF Free
  <2>2. proc[q].pc # "free" /\ proc[q].session \in Sessions
    BY <2>1 DEF MutexInv, NewHoldsNothing, ProcessHasSession
  <2>3. q \in Running(proc[q].session) \ ps
    BY <2>1, <2>2 DEF Running
  <2>4. acl'[proc[q].session] = acl[proc[q].session]
    BY <2>1, <2>2, <2>3 DEF End
  <2> QED
    BY <2>1, <2>4 DEF MutexInv, HeldExists
<1>5. ProcessHasSession' /\ NewHoldsNothing' /\ HolderIsAlone' /\ PastHolds'
  BY <1>1, ConstantTypes DEF MutexInv, ProcessHasSession, NewHoldsNothing, HolderIsAlone,
                             PastHolds, Free
<1> QED
  BY <1>2, <1>3, <1>4, <1>5 DEF MutexInv

(* A process past already_running that only changes its position keeps its  *)
(* handle.                                                                  *)
LEMMA MoveKeeps ==
    ASSUME MutexInv, NEW p \in Slots, NEW to \in Past, Move(p, to), acl' = acl,
           proc[p].pc \in Past
    PROVE  MutexInv'
<1> DEFINE new == [proc[p] EXCEPT !.pc = to]
<1>1. proc' = [proc EXCEPT ![p] = new]
  BY DEF Move
<1>2. new \in Process
  BY ConstantTypes DEF MutexInv, Process
<1>3. proc' \in [Slots -> Process] /\ proc'[p] = new
  BY <1>1, <1>2 DEF MutexInv
<1>4. /\ new.session = proc[p].session /\ new.holds = proc[p].holds
      /\ new.failed = proc[p].failed /\ new.pc = to
  BY DEF MutexInv, Process
<1>5. \A q \in Slots : q # p => proc'[q] = proc[q]
  BY <1>1 DEF MutexInv
<1> HIDE DEF new
<1>6. ProcessHasSession' /\ NewHoldsNothing' /\ HeldExists'
  BY <1>3, <1>4, <1>5, ConstantTypes
     DEF MutexInv, ProcessHasSession, NewHoldsNothing, HeldExists
<1>7. HolderIsAlone'
  <2>1. \A q \in Slots : proc'[q].holds /\ proc'[q].pc \in Past =>
                            /\ proc[q].holds /\ proc[q].pc \in Past
                            /\ proc'[q].session = proc[q].session
    BY <1>3, <1>4, <1>5
  <2> QED
    BY <2>1 DEF MutexInv, HolderIsAlone
<1>8. PastHolds'
  BY <1>3, <1>4, <1>5 DEF MutexInv, PastHolds
<1> QED
  BY <1>3, <1>6, <1>7, <1>8 DEF MutexInv

(* already_running: the first process makes the mutex, a later one opens it *)
(* and leaves.                                                              *)
LEMMA AlreadyRunningKeeps ==
    ASSUME SessionUiInv, NEW p \in Slots, AlreadyRunning(p)
    PROVE  MutexInv'
<1>0. MutexInv
  BY InvHasMutexInv
<1>1. CASE First(p)
  <2> DEFINE new == [proc[p] EXCEPT !.pc = "loading", !.holds = TRUE]
  <2>1. /\ proc' = [proc EXCEPT ![p] = new]
        /\ acl' = [acl EXCEPT ![proc[p].session] =
                      IF proc[p].elevated THEN "elevated" ELSE "standard"]
        /\ acl[proc[p].session] = "none" /\ proc[p].pc = "starting"
    BY <1>1 DEF First
  <2>2. proc[p].session \in Sessions
    BY <1>0, <2>1 DEF MutexInv, ProcessHasSession
  <2>3. /\ new \in Process /\ new.session = proc[p].session
        /\ new.pc = "loading" /\ new.holds /\ new.failed = proc[p].failed
    BY <1>0 DEF MutexInv, Process, Positions, Past
  <2> HIDE DEF new
  <2>4. /\ proc' \in [Slots -> Process] /\ proc'[p] = new
        /\ \A q \in Slots : q # p => proc'[q] = proc[q]
    BY <1>0, <2>1, <2>3 DEF MutexInv
  <2>5. acl' \in [Sessions -> {"none", "standard", "elevated"}]
    BY <1>0, <2>1 DEF MutexInv
  <2>6. /\ acl'[proc[p].session] # "none"
        /\ \A s \in Sessions : s # proc[p].session => acl'[s] = acl[s]
    BY <1>0, <2>1, <2>2 DEF MutexInv
  <2>7. \A q \in Slots : proc[q].holds => proc[q].session # proc[p].session
    BY <1>0, <2>1 DEF MutexInv, HeldExists
  <2>8. ProcessHasSession' /\ NewHoldsNothing' /\ PastHolds'
    BY ConstantTypes, <1>0, <2>1, <2>2, <2>3, <2>4 DEF MutexInv, ProcessHasSession, NewHoldsNothing, PastHolds
  <2>9. HeldExists'
    BY <1>0, <2>3, <2>4, <2>6 DEF MutexInv, HeldExists, ProcessHasSession, NewHoldsNothing
  <2>10. HolderIsAlone'
    BY <1>0, <2>3, <2>4, <2>7 DEF MutexInv, HolderIsAlone
  <2> QED
    BY <2>4, <2>5, <2>8, <2>9, <2>10 DEF MutexInv
<1>2. CASE Second(p)
  <2> DEFINE new == [proc[p] EXCEPT !.pc = "redundant", !.holds = TRUE]
  <2>1. /\ proc' = [proc EXCEPT ![p] = new] /\ acl' = acl
        /\ acl[proc[p].session] # "none" /\ proc[p].pc = "starting"
    BY <1>2 DEF Second
  <2>2. /\ new \in Process /\ new.session = proc[p].session
        /\ new.pc = "redundant" /\ new.holds
    BY <1>0 DEF MutexInv, Process, Positions
  <2> HIDE DEF new
  <2>3. /\ proc' \in [Slots -> Process] /\ proc'[p] = new
        /\ \A q \in Slots : q # p => proc'[q] = proc[q]
    BY <1>0, <2>1, <2>2 DEF MutexInv
  <2>4. ProcessHasSession' /\ NewHoldsNothing' /\ HeldExists'
    BY <1>0, <2>1, <2>2, <2>3 DEF MutexInv, ProcessHasSession, NewHoldsNothing, HeldExists
  <2>5. HolderIsAlone' /\ PastHolds'
    BY <1>0, <2>1, <2>2, <2>3, ConstantTypes DEF MutexInv, HolderIsAlone, PastHolds
  <2> QED
    BY <1>0, <2>1, <2>3, <2>4, <2>5 DEF MutexInv
<1>3. CASE Refused(p) \/ Leaves(p)
  BY <1>0, <1>3, EndKeeps DEF Refused, Leaves
<1>4. CASE FailsOpen(p)
  <2> DEFINE new == [proc[p] EXCEPT !.pc = "loading", !.failed = TRUE]
  <2>1. proc' = [proc EXCEPT ![p] = new] /\ acl' = acl /\ proc[p].pc = "starting"
    BY <1>4 DEF FailsOpen
  <2>2. /\ new \in Process /\ new.session = proc[p].session
        /\ new.pc = "loading" /\ new.holds = proc[p].holds /\ new.failed
    BY <1>0 DEF MutexInv, Process, Positions, Past
  <2> HIDE DEF new
  <2>3. /\ proc' \in [Slots -> Process] /\ proc'[p] = new
        /\ \A q \in Slots : q # p => proc'[q] = proc[q]
    BY <1>0, <2>1, <2>2 DEF MutexInv
  <2>4. ~new.holds
    BY <1>0, <2>1, <2>2 DEF MutexInv, NewHoldsNothing
  <2>5. ProcessHasSession' /\ NewHoldsNothing' /\ HeldExists'
    BY <1>0, <2>1, <2>2, <2>3, <2>4 DEF MutexInv, ProcessHasSession, NewHoldsNothing, HeldExists
  <2>6. HolderIsAlone' /\ PastHolds'
    BY <1>0, <2>1, <2>2, <2>3, <2>4, ConstantTypes DEF MutexInv, HolderIsAlone, PastHolds
  <2> QED
    BY <1>0, <2>1, <2>3, <2>5, <2>6 DEF MutexInv
<1> QED
  BY <1>1, <1>2, <1>3, <1>4 DEF AlreadyRunning

(* Every step of a process, of the sessions, of a check-in or the launcher. *)
LEMMA MutexKept ==
    ASSUME SessionUiInv, Next
    PROVE  MutexInv'
<1>0. MutexInv
  BY InvHasMutexInv
<1>1. CASE Launch
  <2>1. PICK s \in user, elevated \in BOOLEAN : Begin(s, elevated)
    BY <1>1 DEF Launch
  <2>2. s \in Sessions
    BY DEF SessionUiInv, TypeOK
  <2> QED
    BY <1>0, <1>1, <2>1, <2>2, BeginKeeps DEF Launch
<1>2. CASE Starts
  <2>1. keeper.session \in Sessions
    BY <1>2 DEF Starts, SessionUiInv, TypeOK
  <2> QED
    BY <1>0, <1>2, <2>1, BeginKeeps DEF Starts
<1>3. CASE \/ Switch \/ Looks \/ GivesUp \/ Stops \/ Restarts \/ StartsAgain
           \/ \E s \in Sessions : SignIn(s)
  <2>1. UNCHANGED <<proc, acl>>
    BY <1>3 DEF Switch, Looks, GivesUp, Stops, Restarts, StartsAgain, SignIn
  <2> QED
    BY <1>0, <2>1 DEF MutexInv, ProcessHasSession, NewHoldsNothing, HeldExists,
                      HolderIsAlone, PastHolds
<1>4. CASE CheckIn
  <2>1. \A p \in Slots :
          /\ proc'[p] \in Process
          /\ proc'[p].session = proc[p].session /\ proc'[p].holds = proc[p].holds
          /\ proc'[p].failed = proc[p].failed
          /\ proc'[p].pc \in Past <=> proc[p].pc \in Past
          /\ proc'[p].pc \in {"free", "starting"} <=> proc[p].pc \in {"free", "starting"}
          /\ proc'[p].pc = "free" <=> proc[p].pc = "free"
    <3> SUFFICES ASSUME NEW p \in Slots PROVE
          /\ proc'[p] \in Process
          /\ proc'[p].session = proc[p].session /\ proc'[p].holds = proc[p].holds
          /\ proc'[p].failed = proc[p].failed
          /\ proc'[p].pc \in Past <=> proc[p].pc \in Past
          /\ proc'[p].pc \in {"free", "starting"} <=> proc[p].pc \in {"free", "starting"}
          /\ proc'[p].pc = "free" <=> proc[p].pc = "free"
      OBVIOUS
    <3>1. proc'[p] = IF proc[p].pc = "released" THEN [proc[p] EXCEPT !.pc = "open"]
                                                ELSE proc[p]
      BY <1>4 DEF CheckIn
    <3>2. proc[p] \in Process
      BY <1>0 DEF MutexInv
    <3>3. CASE proc[p].pc = "released"
      BY <3>1, <3>2, <3>3 DEF Process, Positions, Past, Drawing
    <3> QED
      BY <3>1, <3>2, <3>3
  <2>2. proc' \in [Slots -> Process]
    BY <1>4, <2>1 DEF CheckIn
  <2>3. acl' = acl
    BY <1>4 DEF CheckIn
  <2> QED
    BY <1>0, <2>1, <2>2, <2>3 DEF MutexInv, ProcessHasSession, NewHoldsNothing,
       HeldExists, HolderIsAlone, PastHolds
<1>5. ASSUME NEW s \in Sessions, SignOut(s) PROVE MutexInv'
  BY <1>0, <1>5, EndKeeps DEF SignOut
<1>6. ASSUME NEW p \in Slots, Ui(p) PROVE MutexInv'
  <2>1. CASE AlreadyRunning(p)
    BY <2>1, AlreadyRunningKeeps
  <2>2. CASE Loads(p)
    BY <1>0, <2>2, MoveKeeps DEF Loads, Past, Drawing
  <2>3. CASE Breaks(p)
    BY <1>0, <2>3, MoveKeeps DEF Breaks, Past, Drawing
  <2>4. CASE Follows(p)
    BY <1>0, <2>4, MoveKeeps DEF Follows, Past, Drawing
  <2>5. CASE Releases(p)
    BY <1>0, <2>5, MoveKeeps DEF Releases, Past, Drawing
  <2>6. CASE Closes(p) \/ Crashes(p)
    BY <1>0, <2>6, EndKeeps DEF Closes, Crashes
  <2> QED
    BY <1>6, <2>1, <2>2, <2>3, <2>4, <2>5, <2>6 DEF Ui
<1> QED
  BY <1>1, <1>2, <1>3, <1>4, <1>5, <1>6 DEF Next, Keeper

(* The bounds, the sessions and the launcher's step.                        *)
LEMMA BoundsKept ==
    ASSUME SessionUiInv, Next
    PROVE  /\ user' \subseteq Sessions
           /\ console' \in Sessions \cup {Nobody}
           /\ locked' \in BOOLEAN
           /\ keeper' \in {Idle, Failed, Stopped} \cup [pc : {"launch"}, session : Sessions]
           /\ launches' \in 0 .. MaxLaunches
           /\ faults' \in 0 .. MaxFaults
<1> USE SessionUiAssumption DEF SessionUiInv, TypeOK, Fault
<1>1. CASE Launch \/ Switch \/ CheckIn
  <2>1. CASE Launch \/ Switch
    BY <2>1 DEF Launch, Switch
  <2>2. CASE CheckIn
    <3>1. locked' \in BOOLEAN
      BY <2>2 DEF CheckIn
    <3> QED
      BY <2>2, <3>1 DEF CheckIn
  <2> QED
    BY <1>1, <2>1, <2>2
<1>2. CASE Keeper
  <2>1. CASE Looks
    <3>1. keeper' \in [pc : {"launch"}, session : Sessions]
      BY <2>1 DEF Looks
    <3> QED
      BY <2>1, <3>1 DEF Looks
  <2>2. CASE GivesUp
    BY <2>2 DEF GivesUp
  <2>3. CASE Starts \/ Restarts \/ StartsAgain
    BY <2>3 DEF Starts, Restarts, StartsAgain
  <2>4. CASE Stops
    BY <2>4 DEF Stops
  <2> QED
    BY <1>2, <2>1, <2>2, <2>3, <2>4 DEF Keeper
<1>3. ASSUME NEW p \in Slots, Ui(p)
      PROVE  /\ UNCHANGED <<user, console, locked, keeper, launches>>
             /\ faults' \in 0 .. MaxFaults
  BY <1>3 DEF Ui, AlreadyRunning, First, Second, Refused, FailsOpen, Leaves, Loads,
              Breaks, Follows, Releases, Closes, Crashes
<1>4. ASSUME NEW s \in Sessions, SignIn(s) \/ SignOut(s)
      PROVE  /\ UNCHANGED <<console, locked, keeper, launches, faults>>
             /\ user' \subseteq Sessions
  BY <1>4 DEF SignIn, SignOut
<1> QED
  BY <1>1, <1>2, <1>3, <1>4 DEF Next

(* The inductive invariant holds in every reachable state.                  *)
THEOREM SessionUiInvariant == Spec => []SessionUiInv
<1>1. SessionUiInv /\ [Next]_vars => SessionUiInv'
  <2> SUFFICES ASSUME SessionUiInv, [Next]_vars PROVE SessionUiInv'
    OBVIOUS
  <2>1. CASE Next
    BY <2>1, MutexKept, BoundsKept DEF MutexInv, SessionUiInv, TypeOK, Process
  <2>2. CASE UNCHANGED vars
    BY <2>2 DEF vars, SessionUiInv, TypeOK, ProcessHasSession, NewHoldsNothing,
                HeldExists, HolderIsAlone, PastHolds
  <2> QED
    BY <2>1, <2>2
<1> QED
  BY <1>1, InitInv, PTL DEF Spec

(* However many launches race, a session shows at most one screen, unless a *)
(* process there could not make or open the mutex at all: one whose access  *)
(* to it was denied leaves.                                                 *)
THEOREM OneScreenEach == Spec => []OneScreenPerSession
<1>1. SessionUiInv => OneScreenPerSession
  <2> SUFFICES ASSUME SessionUiInv, NEW s \in Sessions,
                      NEW p \in Showing(s), NEW q \in Showing(s), p # q,
                      ~proc[p].failed, ~proc[q].failed
               PROVE  FALSE
    BY DEF OneScreenPerSession
  <2>1. /\ p \in Slots /\ q \in Slots
        /\ proc[p].pc \in Past /\ proc[q].pc \in Past
        /\ proc[p].session = proc[q].session
    BY DEF Showing, Running, Past
  <2>2. proc[p].holds /\ proc[q].holds
    BY <2>1 DEF SessionUiInv, PastHolds
  <2> QED
    BY <2>1, <2>2 DEF SessionUiInv, HolderIsAlone
<1> QED
  BY <1>1, SessionUiInvariant, PTL
=============================================================================
