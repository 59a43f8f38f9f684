--------------------------- MODULE MCBackupSlot ---------------------------
(***************************************************************************)
(* Instances of BackupSlot for TLC: a user who backs up once beside one who *)
(* backs up twice, the second time with a shorter ciphertext; and a second *)
(* backup of the same number of words.  Full and partial batches occur.    *)
(***************************************************************************)
EXTENDS BackupSlot

CONSTANTS u1, u2, b1, b2, b3, r1

McOwner == [b \in {b1, b2, b3} |-> IF b = b2 THEN u2 ELSE u1]

McSize == [b \in {b1, b2, b3} |-> CASE b = b1 -> 2 [] b = b2 -> 3 [] b = b3 -> 1]

RestoreOnce == [r \in {r1} |-> u2]

AgainOwner == [b \in {b1, b3} |-> u1]

AgainSize == [b \in {b1, b3} |-> 3]

RestoreAgain == [r \in {r1} |-> u1]
===========================================================================
