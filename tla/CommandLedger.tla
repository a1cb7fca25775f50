---------------------------- MODULE CommandLedger ----------------------------
(***************************************************************************)
(* What the durable anti-replay state of a device promises about signed    *)
(* commands, with no network, files or processes: a patch version is spent *)
(* by one message, versions are spent in increasing order, and a nonce is  *)
(* never spent twice.  Applying a spent message again is no step.          *)
(***************************************************************************)
EXTENDS Naturals

CONSTANT Messages     \* the signed messages; each has .version and .nonce

VARIABLES highest,    \* the highest version spent so far
          spent,      \* the nonces spent so far
          applied     \* the messages applied

ledgerVars == <<highest, spent, applied>>

Init ==
    /\ highest = 0
    /\ spent = {}
    /\ applied = {}

Apply(m) ==
    /\ m.version > highest
    /\ m.nonce \notin spent
    /\ highest' = m.version
    /\ spent' = spent \cup {m.nonce}
    /\ applied' = applied \cup {m}

Next == \E m \in Messages : Apply(m)

Spec == Init /\ [][Next]_ledgerVars
=============================================================================
