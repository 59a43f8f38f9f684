---------------------------- MODULE BackupSlot ----------------------------
(***************************************************************************)
(* Encrypted backups in the controller's slot-10 map.  backup_write splits *)
(* a ciphertext into words, writes them in transactions of PerTx words and *)
(* writes the meta word (byte length, number of words) in a last one;      *)
(* backup_read takes the meta word and that many words out of the local    *)
(* copy of the controller.  All processes use the relay's HOME; others     *)
(* move the same NoAuth controller meanwhile.                              *)
(***************************************************************************)
EXTENDS Integers, FiniteSets

CONSTANTS Users,      \* account owners, the (prefix, suffix) of the keys
          Backups,    \* ciphertexts, one backup_write process for each
          Owner,      \* whose ciphertext it is
          Size,       \* its number of words
          Readers,    \* backup_read processes
          Wants,      \* the user each reader restores
          NoBackup,   \* the value of a word never written
          PerTx,      \* set_map_item calls per transaction
          MaxTraffic  \* bound: transactions of the controller's other users

ASSUME BackupAssumption ==
  /\ Owner \in [Backups -> Users]
  /\ Size \in [Backups -> Nat \ {0}]
  /\ Wants \in [Readers -> Users]
  /\ NoBackup \notin Backups
  /\ PerTx \in Nat \ {0}
  /\ MaxTraffic \in Nat

\* A word's content is known by the ciphertext it was cut from: its index is
\* the key.  The meta word holds the number of words (and the byte length),
\* not which ciphertext they belong to; 0 is a key never written.
Indices == UNION {0..(Size[b] - 1) : b \in Backups}

VARIABLES chain,     \* the node's state of the controller
          store,     \* the relay's local copy of it
          marker,    \* .backup_read_synced is younger than FRESH_SECS
          writer,    \* the backup_write process of each backup
          reader,    \* the backup_read processes
          traffic    \* transactions of other users so far

vars == <<chain, store, marker, writer, reader, traffic>>

NoTx == {}

Init ==
  /\ chain = [nonce |-> 0,
              words |-> [u \in Users |-> [i \in Indices |-> NoBackup]],
              meta  |-> [u \in Users |-> 0]]
  /\ store = chain
  /\ marker = FALSE
  /\ writer = [b \in Backups |-> [phase |-> "idle", script |-> 0, tx |-> NoTx,
                                  alone |-> TRUE]]
  /\ reader = [r \in Readers |-> [phase |-> "idle", result |-> {}]]
  /\ traffic = 0

---------------------------------------------------------------------------
(* Scripts *)

\* Mutant of Batches: the last, partial batch is forgotten.
BatchesFullOnly(b) == Size[b] \div PerTx

\* Full or partial batches of chunks; the meta script has the next number.
Batches(b) == (Size[b] + PerTx - 1) \div PerTx

InBatch(b, k, i) == i < Size[b] /\ i \div PerTx = k

\* Mutant of RunBackupScript: the meta word is written first.
RunBackupScriptMetaFirst(b, k, acct) ==
  IF k > 0
  THEN [acct EXCEPT !.nonce = @ + 1,
                    !.words[Owner[b]] =
                      [i \in Indices |-> IF InBatch(b, k - 1, i) THEN b ELSE @[i]]]
  ELSE [acct EXCEPT !.nonce = @ + 1, !.meta[Owner[b]] = Size[b]]

\* The controller after script k of backup b, executed on acct.
RunBackupScript(b, k, acct) ==
  IF k < Batches(b)
  THEN [acct EXCEPT !.nonce = @ + 1,
                    !.words[Owner[b]] =
                      [i \in Indices |-> IF InBatch(b, k, i) THEN b ELSE @[i]]]
  ELSE [acct EXCEPT !.nonce = @ + 1, !.meta[Owner[b]] = Size[b]]

---------------------------------------------------------------------------
(* backup_write *)

Active(b) == writer[b].phase \in {"ready", "executed", "submitted"}

\* The processes after the one of b went on.
Moved(b, phase, script, tx) ==
  [writer EXCEPT ![b] = [phase |-> phase, script |-> script, tx |-> tx,
                         alone |-> writer[b].alone]]

Rivals(b) == {c \in Backups \ {b} : Owner[c] = Owner[b]}

\* sync_state, then the scripts are built.  "alone" is a history variable: no
\* other process has written a backup of this user since this one started.
WriteStart(b) ==
  /\ writer[b].phase = "idle"
  /\ store' = chain
  /\ writer' = [c \in Backups |->
       IF c = b
       THEN [phase |-> "ready", script |-> 0, tx |-> NoTx,
             alone |-> \A d \in Rivals(b) : ~ Active(d)]
       ELSE [writer[c] EXCEPT !.alone = @ /\ c \notin Rivals(b)]]
  /\ UNCHANGED <<chain, marker, reader, traffic>>

WriteExecute(b) ==
  /\ writer[b].phase = "ready"
  /\ writer' = Moved(b, "executed", writer[b].script, {store})
  /\ UNCHANGED <<chain, store, marker, reader, traffic>>

\* The node accepts a transaction only on top of the state it executed on.
WriteSubmit(b) ==
  /\ writer[b].phase = "executed"
  /\ writer[b].tx = {chain}
  /\ chain' = RunBackupScript(b, writer[b].script, chain)
  /\ writer' = Moved(b, "submitted", writer[b].script, writer[b].tx)
  /\ UNCHANGED <<store, marker, reader, traffic>>

\* Mutant of WriteApply: the loop runs once more than there are scripts.
WriteApplyOneMore(b) ==
  /\ writer[b].phase = "submitted"
  /\ \E base \in writer[b].tx :
       store' = RunBackupScript(b, writer[b].script, base)
  /\ writer' = Moved(b, IF writer[b].script = Batches(b) + 1 THEN "ok" ELSE "ready",
                      writer[b].script + 1, NoTx)
  /\ UNCHANGED <<chain, marker, reader, traffic>>

\* apply_transaction; a copy that a sync made newer may be kept.
WriteApply(b) ==
  /\ writer[b].phase = "submitted"
  /\ \E base \in writer[b].tx :
       LET final == RunBackupScript(b, writer[b].script, base)
       IN store' \in {final} \cup (IF store.nonce > final.nonce THEN {store} ELSE {})
  /\ writer' = Moved(b, IF writer[b].script = Batches(b) THEN "ok" ELSE "ready",
                      writer[b].script + 1, NoTx)
  /\ UNCHANGED <<chain, marker, reader, traffic>>

\* Any `?` ends the process, a refused submission too; so does its death.
WriteStop(b) ==
  /\ Active(b)
  /\ writer' = Moved(b, "failed", writer[b].script, NoTx)
  /\ UNCHANGED <<chain, store, marker, reader, traffic>>

---------------------------------------------------------------------------
(* backup_read *)

\* With a fresh marker the process may skip the sync, otherwise it syncs and
\* touches the marker.
ReadStart(r) ==
  /\ reader[r].phase = "idle"
  /\ \/ marker /\ UNCHANGED <<store, marker>>
     \/ store' = chain /\ marker' = TRUE
  /\ reader' = [reader EXCEPT ![r].phase = "ready"]
  /\ UNCHANGED <<chain, writer, traffic>>

\* BACKUP_READ_WARM: the process leaves after the sync.
ReadWarm(r) ==
  /\ reader[r].phase = "ready"
  /\ reader' = [reader EXCEPT ![r].phase = "idle"]
  /\ UNCHANGED <<chain, store, marker, writer, traffic>>

\* What the meta word makes of an account state: nothing, or its first words.
Restored(u, acct) ==
  IF acct.meta[u] = 0 THEN {NoBackup}
                      ELSE {acct.words[u][i] : i \in 0..(acct.meta[u] - 1)}

ReadAccount(r) ==
  /\ reader[r].phase = "ready"
  /\ reader' = [reader EXCEPT ![r] = [phase  |-> "done",
                                      result |-> Restored(Wants[r], store)]]
  /\ UNCHANGED <<chain, store, marker, writer, traffic>>

MarkerExpires ==
  /\ marker
  /\ marker' = FALSE
  /\ UNCHANGED <<chain, store, writer, reader, traffic>>

---------------------------------------------------------------------------
(* The controller's other users: consume_deposits from the relay's HOME, or *)
(* a flow binary from another one, whose transactions the copy misses.      *)

OtherTransaction ==
  /\ traffic < MaxTraffic
  /\ traffic' = traffic + 1
  /\ chain' = [chain EXCEPT !.nonce = @ + 1]
  /\ store' \in {store, chain'}
  /\ UNCHANGED <<marker, writer, reader>>

---------------------------------------------------------------------------
WriteStep(b) ==
  WriteStart(b) \/ WriteExecute(b) \/ WriteSubmit(b) \/ WriteApply(b) \/ WriteStop(b)

ReadStep(r) == ReadStart(r) \/ ReadWarm(r) \/ ReadAccount(r)

Next ==
  \/ \E b \in Backups : WriteStep(b)
  \/ \E r \in Readers : ReadStep(r)
  \/ MarkerExpires
  \/ OtherTransaction

Spec == Init /\ [][Next]_vars

---------------------------------------------------------------------------
(* Properties *)

TypeOK ==
  /\ {chain.nonce, store.nonce} \subseteq Nat
  /\ {chain.words, store.words} \subseteq [Users -> [Indices -> Backups \cup {NoBackup}]]
  /\ {chain.meta, store.meta} \subseteq [Users -> {0} \cup {Size[b] : b \in Backups}]
  /\ marker \in BOOLEAN
  /\ \A b \in Backups :
       /\ writer[b].phase \in {"idle", "ready", "executed", "submitted", "ok", "failed"}
       /\ writer[b].script \in 0..(Batches(b) + 1)
  /\ \A r \in Readers : reader[r].result \subseteq Backups \cup {NoBackup}
  /\ traffic \in 0..MaxTraffic

\* Exactly the words of b, and the meta word that describes it.
Stored(b, acct) ==
  /\ acct.meta[Owner[b]] = Size[b]
  /\ \A i \in 0..(Size[b] - 1) : acct.words[Owner[b]][i] = b

\* {"ok":true} is true: when a backup_write that ran without a rival for the
\* same user reports success, its whole ciphertext is on the chain, whatever
\* an earlier process that died half-way left in the slot.
OkMeansStored ==
  [][\A b \in Backups :
       /\ writer[b].phase = "submitted" /\ writer[b].alone
       /\ writer'[b].phase = "ok"
       => Stored(b, chain')]_vars

\* The users of a single backup, and what is theirs.
Once == {u \in Users : \A b, c \in Backups : Owner[b] = u /\ Owner[c] = u => b = c}

OwnedOnce == {b \in Backups : Owner[b] \in Once}

WantsOnce == {r \in Readers : Wants[r] \in Once}

\* Users who back up once see an atomic register, although the words arrive in
\* many transactions, other users' backups run between them and any of the
\* processes may die.
Register ==
  INSTANCE BackupRegister
    WITH Users    <- Once,
         Backups  <- OwnedOnce,
         Owner    <- [b \in OwnedOnce |-> Owner[b]],
         Readers  <- WantsOnce,
         Wants    <- [r \in WantsOnce |-> Wants[r]],
         register <- [u \in Once |->
                        IF \E b \in OwnedOnce : Owner[b] = u /\ Stored(b, chain)
                        THEN CHOOSE b \in OwnedOnce : Owner[b] = u
                        ELSE NoBackup],
         result   <- [r \in WantsOnce |-> reader[r].result]

ImplementsRegister == Register!Spec

\* backup_write.rs:103 "chunk batches, then meta LAST (partial write never
\* looks complete)": what a reader restores is one whole ciphertext, or none.
ReadsComplete ==
  \A r \in Readers :
    reader[r].phase = "done" =>
      \/ reader[r].result = {NoBackup}
      \/ \E b \in Backups : reader[r].result = {b}
===========================================================================
