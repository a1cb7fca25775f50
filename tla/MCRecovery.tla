----------------------------- MODULE MCRecovery -----------------------------
(* Constants for model checking Recovery. *)
EXTENDS Recovery, TLC

CONSTANTS s1, s2, k1, k2, lab, nokey, me, other

MCSessions == {s1, s2}
MCKeys     == {k1, k2, lab}
MCDevices  == {me, other}

Mint(key, device, counter, expires) ==
    [signer |-> key, device |-> device, counter |-> counter, expires |-> expires]

(* A good token, and a later one of the rotated key that expires early.     *)
MCTokens == {Mint(k1, me, 1, 9), Mint(k2, me, 2, 4)}

(* For liveness one token is enough: a second request replays it.           *)
LiveTokens == {Mint(k1, me, 1, 9)}

SessionSymmetry == Permutations(MCSessions)
=============================================================================
