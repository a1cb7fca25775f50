----------------------------- MODULE LockPolicy -----------------------------
(***************************************************************************)
(* What the lock screen promises of the server's lock, with no frames,     *)
(* threads, keyboard or override: a running UI is locked by a check-in     *)
(* because the last one it took up says LOCKED.  A recovery token ends     *)
(* that, and lifts the check-in that is then published and no other.       *)
(***************************************************************************)
EXTENDS Naturals

VARIABLES published,    \* the latest check-in: its number, LOCKED or not
          running,      \* the UI runs
          remote,       \* it is locked by a check-in
          taken,        \* the check-in the last UI took up last
          lifted        \* the check-ins a token lifted for it

policyVars == <<published, running, remote, taken, lifted>>

Nothing == [at |-> 0, locked |-> FALSE]

Init ==
    /\ published = Nothing
    /\ ~running /\ ~remote
    /\ taken = Nothing
    /\ lifted = {}

Publish ==
    /\ \E locked \in BOOLEAN : published' = [at |-> published.at + 1, locked |-> locked]
    /\ UNCHANGED <<running, remote, taken, lifted>>

(* A new process knows of no token; it may not be able to read the check-in. *)
Start ==
    /\ ~running /\ running'
    /\ taken' \in {published, Nothing}
    /\ remote' = taken'.locked
    /\ lifted' = {}
    /\ UNCHANGED published

(* The latest check-in is obeyed unless it is lifted.                       *)
Obey ==
    /\ running
    /\ published # Nothing
    /\ taken' = published
    /\ remote' = (published.locked /\ published.at \notin lifted)
    /\ UNCHANGED <<published, running, lifted>>

(* A token: it lifts no check-in if none can be read.                       *)
Lift ==
    /\ running
    /\ ~remote'
    /\ lifted' \in {lifted, lifted \cup ({published.at} \ {0})}
    /\ UNCHANGED <<published, running, taken>>

End ==
    /\ running /\ ~running'
    /\ ~remote'
    /\ UNCHANGED <<published, taken, lifted>>

Next == Publish \/ Start \/ Obey \/ Lift \/ End

Spec == Init /\ [][Next]_policyVars
=============================================================================
