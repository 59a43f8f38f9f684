-------------------------- MODULE BackupRegister --------------------------
(***************************************************************************)
(* What the on-chain backup promises a user who backs up once: a register  *)
(* that is written atomically and whose reader gets nothing or the whole   *)
(* backup.  A reader may be working on a copy from before the write.       *)
(***************************************************************************)
CONSTANTS Users,      \* account owners, the (prefix, suffix) of the keys
          Backups,    \* ciphertexts
          Owner,      \* whose ciphertext it is
          Readers,    \* backup_read processes
          Wants,      \* the user each reader restores
          NoBackup    \* nothing stored

VARIABLES register,   \* the backup each user has
          result      \* what each reader printed, a set of backups

registerVars == <<register, result>>

Init ==
  /\ register = [u \in Users |-> NoBackup]
  /\ result = [r \in Readers |-> {}]

Write(b) ==
  /\ register[Owner[b]] = NoBackup
  /\ register' = [register EXCEPT ![Owner[b]] = b]
  /\ UNCHANGED result

Read(r) ==
  /\ result[r] = {}
  /\ \E b \in {NoBackup, register[Wants[r]]} : result' = [result EXCEPT ![r] = {b}]
  /\ UNCHANGED register

Next == (\E b \in Backups : Write(b)) \/ (\E r \in Readers : Read(r))

Spec == Init /\ [][Next]_registerVars
===========================================================================
