---------------------------- MODULE UnlockLedger ----------------------------
(***************************************************************************)
(* What offline recovery promises, with no files, locks or processes: an   *)
(* unlock counter is spent by one request, counters are spent in           *)
(* increasing order, and a lock screen is released at most once for a      *)
(* request, only after that request was granted.                           *)
(***************************************************************************)
EXTENDS Naturals

CONSTANTS RequestIds,   \* the request UUIDs the sessions draw from
          Counters      \* the counters tokens are minted with

VARIABLES highest,      \* the highest counter spent so far
          granted,      \* the [id, counter] pairs granted
          released      \* the request ids a session was released for

ledgerVars == <<highest, granted, released>>

Init ==
    /\ highest = 0
    /\ granted = {}
    /\ released = {}

Grant(id, c) ==
    /\ c > highest
    /\ highest' = c
    /\ granted' = granted \cup {[id |-> id, counter |-> c]}
    /\ UNCHANGED released

Release(id) ==
    /\ \E g \in granted : g.id = id
    /\ id \notin released
    /\ released' = released \cup {id}
    /\ UNCHANGED <<highest, granted>>

Next ==
    \/ \E id \in RequestIds, c \in Counters : Grant(id, c)
    \/ \E id \in RequestIds : Release(id)

Spec == Init /\ [][Next]_ledgerVars
=============================================================================
