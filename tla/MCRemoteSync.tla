---------------------------- MODULE MCRemoteSync ----------------------------
(* Constants for model checking RemoteSync. *)
EXTENDS RemoteSync

CONSTANTS service, desktop

MCProcesses == {service, desktop}

\* Two generations of the key with id 1.
Old == [id |-> 1, material |-> "old"]
New == [id |-> 1, material |-> "new"]
MCKeys == {Old, New}

Command(id, action, nonce, expires) ==
    [id |-> id, action |-> action, nonce |-> nonce, expires |-> expires]

Patch(id, command, version, key, over, sound) ==
    [id |-> id, command |-> command.id, version |-> version,
     action |-> command.action, expires |-> 3,
     key |-> key, over |-> over, sound |-> sound]

Lock1   == Command(1, "LOCK", "a", 3)
Unlock2 == Command(2, "UNLOCK", "b", 2)
Reused3 == Command(3, "UNINSTALL", "a", 3)

\* A command, its successor, an equal-version substitution, a reused nonce
\* under a higher version, and a signature by a retired key.
MCCommands == {Lock1, Unlock2, Reused3}
MCPatches  ==
    {Patch(1, Lock1, 1, New, Lock1, TRUE),
     Patch(2, Unlock2, 2, New, Unlock2, TRUE),
     Patch(3, Unlock2, 1, New, Unlock2, TRUE),
     Patch(4, Lock1, 2, New, Lock1, TRUE),
     Patch(5, Unlock2, 2, Old, Unlock2, TRUE),
     Patch(6, Reused3, 3, New, Reused3, TRUE)}
=============================================================================
