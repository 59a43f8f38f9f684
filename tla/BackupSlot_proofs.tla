------------------------- MODULE BackupSlot_proofs -------------------------
(***************************************************************************)
(* Proofs about BackupSlot for any number of users, backups, readers and   *)
(* words per transaction: its types, that a writer without a rival reports *)
(* the truth, and that the slot implements BackupRegister for every user   *)
(* who backs up once.                                                      *)
(***************************************************************************)
EXTENDS BackupSlot, TLAPS

---------------------------------------------------------------------------
(* The inductive invariant *)

AccountState ==
  [nonce : Nat,
   words : [Users -> [Indices -> Backups \cup {NoBackup}]],
   meta  : [Users -> {0} \cup {Size[b] : b \in Backups}]]

Phases == {"idle", "ready", "executed", "submitted", "ok", "failed"}

Writer == [phase : Phases, script : Nat, tx : SUBSET AccountState, alone : BOOLEAN]

Reader == [phase : {"idle", "ready", "done"}, result : SUBSET (Backups \cup {NoBackup})]

TypeInv ==
  /\ chain \in AccountState /\ store \in AccountState
  /\ marker \in BOOLEAN
  /\ writer \in [Backups -> Writer]
  /\ reader \in [Readers -> Reader]
  /\ traffic \in 0..MaxTraffic

\* A running process is at one of its scripts, one that has ended is past it.
ScriptInv ==
  \A b \in Backups : /\ writer[b].script <= Batches(b) + 1
                     /\ Active(b) => writer[b].script <= Batches(b)

\* Two writers of one user do not run side by side and both count as alone.
LoneInv ==
  \A b \in Backups : \A c \in Rivals(b) : Active(b) /\ Active(c) => ~ writer[b].alone

\* Everything b's scripts before number k have to write.
Written(b, k, acct) ==
  /\ \A i \in 0..(Size[b] - 1) : i \div PerTx < k => acct.words[Owner[b]][i] = b
  /\ k > Batches(b) => acct.meta[Owner[b]] = Size[b]

\* The scripts of b that the node has executed.
Executed(b) == IF writer[b].phase = "submitted" THEN writer[b].script + 1
                                                ELSE writer[b].script

ProgressInv ==
  \A b \in Backups : Active(b) /\ writer[b].alone => Written(b, Executed(b), chain)

\* The meta script of b is not on the chain yet.
MetaAhead(b) ==
  \/ writer[b].phase \in {"idle", "ready", "executed"}
  \/ writer[b].phase = "submitted" /\ writer[b].script < Batches(b)

\* Who backs up once has no rival, and no meta word before the last script.
OnceInv ==
  \A b \in OwnedOnce : /\ Active(b) => writer[b].alone
                       /\ MetaAhead(b) => chain.meta[Owner[b]] = 0

\* A state of the controller that shows a user's backup whole or not at all,
\* and none that the present state does not show.
Sound(acct, now) ==
  \A u \in Once :
    \/ acct.meta[u] = 0
    \/ \E b \in Backups : Owner[b] = u /\ Stored(b, acct) /\ Stored(b, now)

\* The states that are, or may become, the relay's copy.
SoundInv ==
  /\ Sound(chain, chain) /\ Sound(store, chain)
  /\ \A b \in Backups : writer[b].phase = "submitted" =>
       \A base \in writer[b].tx : Sound(RunBackupScript(b, writer[b].script, base), chain)

ReaderInv == \A r \in Readers : reader[r].phase # "done" => reader[r].result = {}

IInv ==
  /\ TypeInv /\ ScriptInv /\ LoneInv /\ ProgressInv /\ OnceInv /\ SoundInv /\ ReaderInv

---------------------------------------------------------------------------
(* Scripts *)

LEMMA BackupFacts ==
  ASSUME NEW b \in Backups
  PROVE  /\ Owner[b] \in Users /\ Size[b] \in Nat /\ Size[b] > 0
         /\ \A i \in 0..(Size[b] - 1) : i \in Indices
         /\ Batches(b) \in Nat
         /\ \A i \in 0..(Size[b] - 1) : i \div PerTx \in Nat /\ i \div PerTx < Batches(b)
<1>1. Owner[b] \in Users /\ Size[b] \in Nat /\ Size[b] > 0 /\ PerTx \in Nat /\ PerTx > 0
  BY BackupAssumption
<1>2. \A i \in 0..(Size[b] - 1) : i \in Indices
  BY DEF Indices
<1>3. \A n \in Nat : n \div PerTx \in Nat
  BY <1>1
<1>4. Batches(b) \in Nat
  <2>1. Size[b] + PerTx - 1 \in Nat
    BY <1>1
  <2> QED
    BY <1>3, <2>1 DEF Batches
<1>5. ASSUME NEW i \in 0..(Size[b] - 1)
      PROVE  i \div PerTx < Batches(b)
  <2> DEFINE q == i \div PerTx
             m == Size[b] + PerTx - 1
             k == m \div PerTx
  <2>1. i \in Nat /\ m \in Nat /\ i + PerTx <= m
    BY <1>1
  <2>2. q \in Nat /\ i = PerTx * q + (i % PerTx) /\ (i % PerTx) \in 0..(PerTx - 1)
    BY <1>1, <1>3, <2>1
  <2>3. k \in Nat /\ m = PerTx * k + (m % PerTx) /\ (m % PerTx) \in 0..(PerTx - 1)
    BY <1>1, <1>3, <2>1
  <2> HIDE DEF q, k, m
  <2>4. PerTx * q + PerTx < PerTx * k + PerTx
    BY <1>1, <2>1, <2>2, <2>3
  <2>5. ASSUME k <= q
        PROVE  FALSE
    <3>1. PerTx * k <= PerTx * q /\ PerTx * k \in Nat /\ PerTx * q \in Nat
      BY <1>1, <2>2, <2>3, <2>5
    <3> QED
      BY <1>1, <2>4, <3>1
  <2>6. q < k
    BY <2>2, <2>3, <2>5
  <2> QED
    BY <2>6 DEF q, k, m, Batches
<1>6. \A i \in 0..(Size[b] - 1) : i \div PerTx \in Nat
  BY <1>1, <1>3
<1> QED
  BY <1>1, <1>2, <1>4, <1>5, <1>6

\* What a script changes: the words of one batch, or the meta word.
LEMMA ScriptFacts ==
  ASSUME NEW b \in Backups, NEW k \in Nat, NEW acct \in AccountState
  PROVE  LET new == RunBackupScript(b, k, acct)
         IN /\ new \in AccountState
            /\ new.nonce = acct.nonce + 1
            /\ k < Batches(b) =>
                 /\ new.meta = acct.meta
                 /\ \A u \in Users, i \in Indices :
                      new.words[u][i] = IF u = Owner[b] /\ InBatch(b, k, i)
                                        THEN b ELSE acct.words[u][i]
            /\ ~ (k < Batches(b)) =>
                 /\ new.words = acct.words
                 /\ \A u \in Users :
                      new.meta[u] = IF u = Owner[b] THEN Size[b] ELSE acct.meta[u]
<1> DEFINE o == Owner[b]
           new == RunBackupScript(b, k, acct)
           batch == [i \in Indices |-> IF InBatch(b, k, i) THEN b ELSE acct.words[o][i]]
<1>1. o \in Users
  BY BackupFacts
<1>2. /\ acct = [nonce |-> acct.nonce, words |-> acct.words, meta |-> acct.meta]
      /\ acct.nonce \in Nat
      /\ acct.words \in [Users -> [Indices -> Backups \cup {NoBackup}]]
      /\ acct.meta \in [Users -> {0} \cup {Size[c] : c \in Backups}]
  BY DEF AccountState
<1>3. CASE k < Batches(b)
  <2>1. new = [nonce |-> acct.nonce + 1,
               words |-> [acct.words EXCEPT ![o] = batch],
               meta  |-> acct.meta]
    BY <1>2, <1>3 DEF RunBackupScript
  <2>2. batch \in [Indices -> Backups \cup {NoBackup}]
    BY <1>1, <1>2
  <2>3. [acct.words EXCEPT ![o] = batch] \in [Users -> [Indices -> Backups \cup {NoBackup}]]
    BY <1>2, <2>2
  <2>4. new \in AccountState
    BY <1>2, <2>1, <2>3 DEF AccountState
  <2>5. new.words = [acct.words EXCEPT ![o] = batch] /\ new.meta = acct.meta
        /\ new.nonce = acct.nonce + 1
    BY <2>1
  <2>6. \A u \in Users, i \in Indices :
          new.words[u][i] = IF u = o /\ InBatch(b, k, i) THEN b ELSE acct.words[u][i]
    BY <1>1, <1>2, <2>5
  <2> QED
    BY <1>3, <2>4, <2>5, <2>6
<1>4. CASE ~ (k < Batches(b))
  <2>1. new = [nonce |-> acct.nonce + 1,
               words |-> acct.words,
               meta  |-> [acct.meta EXCEPT ![o] = Size[b]]]
    BY <1>2, <1>4 DEF RunBackupScript
  <2>2. [acct.meta EXCEPT ![o] = Size[b]] \in [Users -> {0} \cup {Size[c] : c \in Backups}]
    BY <1>2
  <2> QED
    BY <1>1, <1>2, <1>4, <2>1, <2>2 DEF AccountState
<1> QED
  BY <1>3, <1>4

\* Script k adds its part to what the scripts before it wrote.
LEMMA WrittenStep ==
  ASSUME NEW b \in Backups, NEW k \in Nat, NEW acct \in AccountState,
         k <= Batches(b), Written(b, k, acct)
  PROVE  Written(b, k + 1, RunBackupScript(b, k, acct))
<1> DEFINE new == RunBackupScript(b, k, acct)
<1>1. /\ Owner[b] \in Users /\ Batches(b) \in Nat
      /\ \A i \in 0..(Size[b] - 1) : /\ i \in Indices
                                     /\ i \div PerTx \in Nat /\ i \div PerTx < Batches(b)
  BY BackupFacts
<1>2. CASE k < Batches(b)
  <2>1. \A i \in Indices : new.words[Owner[b]][i] = IF InBatch(b, k, i)
                                                    THEN b ELSE acct.words[Owner[b]][i]
    BY <1>1, <1>2, ScriptFacts
  <2>2. ASSUME NEW i \in 0..(Size[b] - 1), i \div PerTx < k + 1
        PROVE  new.words[Owner[b]][i] = b
    <3>1. i < Size[b]
      BY BackupFacts
    <3>2. i \div PerTx = k \/ i \div PerTx < k
      BY <1>1, <2>2
    <3>3. i \div PerTx = k => InBatch(b, k, i)
      BY <3>1 DEF InBatch
    <3>4. i \div PerTx < k => acct.words[Owner[b]][i] = b
      BY DEF Written
    <3> HIDE DEF new
    <3> QED
      BY <1>1, <2>1, <3>2, <3>3, <3>4
  <2>3. ~ (k + 1 > Batches(b))
    BY <1>1, <1>2
  <2> QED
    BY <2>2, <2>3 DEF Written
<1>3. CASE k = Batches(b)
  <2>1. new.words = acct.words /\ new.meta[Owner[b]] = Size[b]
    <3>1. ~ (k < Batches(b))
      BY <1>1, <1>3
    <3> QED
      BY <1>1, <3>1, ScriptFacts
  <2>2. \A i \in 0..(Size[b] - 1) : acct.words[Owner[b]][i] = b
    BY <1>1, <1>3 DEF Written
  <2> HIDE DEF new
  <2>3. Written(b, k + 1, new)
    BY <2>1, <2>2 DEF Written
  <2> QED
    BY <2>3 DEF new
<1> QED
  BY <1>1, <1>2, <1>3

\* A backup of somebody else does not touch what b wrote.
LEMMA WrittenOther ==
  ASSUME NEW b \in Backups, NEW c \in Backups, Owner[b] # Owner[c],
         NEW k \in Nat, NEW j \in Nat, NEW acct \in AccountState
  PROVE  /\ Written(b, k, acct) => Written(b, k, RunBackupScript(c, j, acct))
         /\ RunBackupScript(c, j, acct).meta[Owner[b]] = acct.meta[Owner[b]]
<1> DEFINE new == RunBackupScript(c, j, acct)
<1>1. Owner[b] \in Users /\ \A i \in 0..(Size[b] - 1) : i \in Indices
  BY BackupFacts
<1>2. /\ \A i \in Indices : new.words[Owner[b]][i] = acct.words[Owner[b]][i]
      /\ new.meta[Owner[b]] = acct.meta[Owner[b]]
  <2>1. CASE j < Batches(c)
    BY <1>1, <2>1, ScriptFacts
  <2>2. CASE ~ (j < Batches(c))
    BY <1>1, <2>2, ScriptFacts
  <2> QED
    BY <2>1, <2>2
<1> HIDE DEF new
<1>3. Written(b, k, acct) => Written(b, k, new)
  BY <1>1, <1>2 DEF Written
<1> QED
  BY <1>2, <1>3 DEF new

\* When all scripts have run the backup is stored.
LEMMA WrittenStored ==
  ASSUME NEW b \in Backups, NEW acct
  PROVE  Written(b, Batches(b) + 1, acct) <=> Stored(b, acct)
<1>1. /\ Batches(b) \in Nat
      /\ \A i \in 0..(Size[b] - 1) : i \div PerTx \in Nat /\ i \div PerTx < Batches(b)
  BY BackupFacts
<1>2. Batches(b) + 1 > Batches(b) /\ \A i \in 0..(Size[b] - 1) : i \div PerTx < Batches(b) + 1
  BY <1>1
<1> QED
  BY <1>2 DEF Written, Stored

LEMMA OnceFacts ==
  /\ \A b \in OwnedOnce : b \in Backups /\ Owner[b] \in Once /\ Rivals(b) = {}
  /\ \A b \in OwnedOnce : \A c \in Backups : Owner[c] = Owner[b] => c = b
  /\ \A b \in Backups : \A u \in Once : Owner[b] = u => b \in OwnedOnce
BY DEF OwnedOnce, Once, Rivals

---------------------------------------------------------------------------
(* Steps *)

\* What a step leaves of a writer's place in its scripts.
LEMMA ActiveFacts ==
  ASSUME TypeInv, NEW b \in Backups
  PROVE  /\ writer[b] \in Writer
         /\ writer[b].phase \in Phases /\ writer[b].script \in Nat
         /\ writer[b].alone \in BOOLEAN /\ writer[b].tx \subseteq AccountState
         /\ Executed(b) \in Nat
BY DEF TypeInv, Writer, Executed

\* Readers and the marker: the copy may become the chain's state.
LEMMA QuietStep ==
  ASSUME IInv, TypeInv', ReaderInv', UNCHANGED <<chain, writer>>, store' \in {store, chain}
  PROVE  IInv'
<1>1. ScriptInv' /\ LoneInv' /\ ProgressInv' /\ OnceInv'
  BY DEF IInv, ScriptInv, LoneInv, ProgressInv, OnceInv, Active, Executed, MetaAhead
<1>2. SoundInv'
  BY DEF IInv, SoundInv
<1> QED
  BY <1>1, <1>2 DEF IInv

\* A transaction of another user moves the nonce only.
LEMMA OtherStep ==
  ASSUME IInv, OtherTransaction
  PROVE  IInv'
<1>1. /\ chain.nonce \in Nat
      /\ chain.words \in [Users -> [Indices -> Backups \cup {NoBackup}]]
      /\ chain.meta \in [Users -> {0} \cup {Size[b] : b \in Backups}]
      /\ chain' = [nonce |-> chain.nonce + 1, words |-> chain.words, meta |-> chain.meta]
  BY DEF IInv, TypeInv, AccountState, OtherTransaction
<1>2. chain' \in AccountState /\ chain'.words = chain.words /\ chain'.meta = chain.meta
  BY <1>1 DEF AccountState
<1>3. traffic' \in 0..MaxTraffic
  BY BackupAssumption DEF IInv, TypeInv, OtherTransaction
<1>4. TypeInv'
  BY <1>2, <1>3 DEF IInv, TypeInv, OtherTransaction
<1>5. /\ \A b : Stored(b, chain') <=> Stored(b, chain)
      /\ \A b, k : Written(b, k, chain') <=> Written(b, k, chain)
  BY <1>2 DEF Stored, Written
<1>6. /\ \A acct : Sound(acct, chain') <=> Sound(acct, chain)
      /\ Sound(chain', chain') <=> Sound(chain, chain)
  BY <1>2, <1>5 DEF Sound
<1>7. writer' = writer /\ reader' = reader /\ store' \in {store, chain'}
  BY DEF OtherTransaction
<1>8. ScriptInv' /\ LoneInv' /\ ReaderInv'
  BY <1>7 DEF IInv, ScriptInv, LoneInv, ReaderInv, Active
<1>9. ProgressInv'
  BY <1>5, <1>7 DEF IInv, ProgressInv, Active, Executed
<1>10. OnceInv'
  BY <1>2, <1>7 DEF IInv, OnceInv, Active, MetaAhead
<1>11. SoundInv'
  BY <1>6, <1>7 DEF IInv, SoundInv
<1> QED
  BY <1>4, <1>8, <1>9, <1>10, <1>11 DEF IInv

\* The other invariants a writer's step keeps, whatever it does to the accounts.
LEMMA WriterStep ==
  ASSUME IInv, NEW b \in Backups, NEW w \in Writer,
         writer' = [writer EXCEPT ![b] = w], w.alone = writer[b].alone,
         Active(b) \/ w.phase \notin {"ready", "executed", "submitted"},
         w.script <= Batches(b) + 1,
         w.phase \in {"ready", "executed", "submitted"} => w.script <= Batches(b)
  PROVE  /\ writer' \in [Backups -> Writer]
         /\ writer'[b] = w
         /\ \A c \in Backups \ {b} : writer'[c] = writer[c]
         /\ ScriptInv' /\ LoneInv'
<1>1. writer \in [Backups -> Writer]
  BY DEF IInv, TypeInv
<1>2. /\ writer' \in [Backups -> Writer]
      /\ writer'[b] = w
      /\ \A c \in Backups \ {b} : writer'[c] = writer[c]
  BY <1>1
<1>3. ScriptInv'
  BY <1>2 DEF IInv, ScriptInv, Active
<1>4. /\ \A c \in Backups : Active(c)' => Active(c)
      /\ \A c \in Backups : writer'[c].alone = writer[c].alone
  BY <1>2 DEF Active
<1>5. LoneInv'
  BY <1>4 DEF IInv, LoneInv, Rivals
<1> QED
  BY <1>2, <1>3, <1>5

\* A new process is alone if nobody else writes a backup of the user, and
\* nobody else stays so.
LEMMA StartStep ==
  ASSUME IInv, NEW b \in Backups, WriteStart(b)
  PROVE  IInv'
<1>1. /\ writer \in [Backups -> Writer] /\ chain \in AccountState
      /\ writer[b].phase = "idle"
  BY DEF IInv, TypeInv, WriteStart
<1>2. writer'[b] = [phase |-> "ready", script |-> 0, tx |-> NoTx,
                    alone |-> \A d \in Rivals(b) : ~ Active(d)]
  BY DEF WriteStart
<1>3. \A c \in Backups \ {b} :
        /\ writer'[c].phase = writer[c].phase /\ writer'[c].script = writer[c].script
        /\ writer'[c].tx = writer[c].tx
        /\ writer'[c].alone = (writer[c].alone /\ c \notin Rivals(b))
        /\ writer'[c] \in Writer
  <2> SUFFICES ASSUME NEW c \in Backups \ {b}
               PROVE  /\ writer'[c].phase = writer[c].phase
                      /\ writer'[c].script = writer[c].script
                      /\ writer'[c].tx = writer[c].tx
                      /\ writer'[c].alone = (writer[c].alone /\ c \notin Rivals(b))
                      /\ writer'[c] \in Writer
    OBVIOUS
  <2> DEFINE alone == writer[c].alone /\ c \notin Rivals(b)
  <2>1. writer'[c] = [writer[c] EXCEPT !.alone = alone]
    BY DEF WriteStart
  <2>2. writer[c] \in Writer /\ alone \in BOOLEAN
    BY <1>1
  <2> HIDE DEF alone
  <2>3. /\ writer'[c].phase = writer[c].phase
        /\ writer'[c].script = writer[c].script
        /\ writer'[c].tx = writer[c].tx
        /\ writer'[c].alone = alone
        /\ writer'[c] \in Writer
    BY <2>1, <2>2 DEF Writer
  <2> QED
    BY <2>3 DEF alone
<1>4. writer'[b] \in Writer
  BY <1>2 DEF Writer, Phases, NoTx
<1>5. writer' \in [Backups -> Writer]
  <2>1. \A c \in Backups : writer'[c] \in Writer
    BY <1>3, <1>4
  <2>2. writer' = [c \in Backups |-> writer'[c]]
    BY DEF WriteStart
  <2> QED
    BY <2>1, <2>2
<1>6. TypeInv'
  BY <1>5 DEF IInv, TypeInv, WriteStart
<1>7. /\ \A c \in Backups \ {b} : Active(c)' <=> Active(c)
      /\ \A c \in Backups \ {b} : MetaAhead(c)' <=> MetaAhead(c)
      /\ \A c \in Backups \ {b} : Executed(c)' = Executed(c)
      /\ MetaAhead(b)
  BY <1>1, <1>3 DEF Active, MetaAhead, Executed
<1>8. ScriptInv'
  <2>1. Batches(b) \in Nat
    BY BackupFacts
  <2>2. 0 <= Batches(b) /\ 0 <= Batches(b) + 1
    BY <2>1
  <2> QED
    BY <1>2, <1>3, <1>7, <2>2 DEF IInv, ScriptInv
<1>9. LoneInv'
  <2> SUFFICES ASSUME NEW c \in Backups, NEW d \in Rivals(c), Active(c)', Active(d)'
               PROVE  ~ writer'[c].alone
    BY DEF LoneInv
  <2>1. CASE c = b
    BY <1>2, <1>7, <2>1 DEF Rivals
  <2>2. CASE c # b /\ d = b
    BY <1>3, <2>2 DEF Rivals
  <2>3. CASE c # b /\ d # b
    BY <1>3, <1>7, <2>3 DEF IInv, LoneInv, Rivals
  <2> QED
    BY <2>1, <2>2, <2>3
<1>10. chain' = chain /\ store' = chain /\ reader' = reader
  BY DEF WriteStart
<1>11. ProgressInv'
  <2> SUFFICES ASSUME NEW c \in Backups, Active(c)', writer'[c].alone
               PROVE  Written(c, Executed(c)', chain)
    BY <1>10 DEF ProgressInv
  <2>1. CASE c = b
    <3>1. Executed(c)' = 0
      BY <1>2, <2>1 DEF Executed
    <3>2. Batches(c) \in Nat /\ \A i \in 0..(Size[c] - 1) : i \div PerTx \in Nat
      BY BackupFacts
    <3> QED
      BY <3>1, <3>2 DEF Written
  <2>2. CASE c # b
    BY <1>3, <1>7, <2>2 DEF IInv, ProgressInv
  <2> QED
    BY <2>1, <2>2
<1>12. OnceInv'
  <2> SUFFICES ASSUME NEW c \in OwnedOnce
               PROVE  /\ Active(c)' => writer'[c].alone
                      /\ MetaAhead(c)' => chain.meta[Owner[c]] = 0
    BY <1>10 DEF OnceInv
  <2>1. c \in Backups /\ Rivals(c) = {} /\ (c # b => c \notin Rivals(b))
    BY OnceFacts DEF Rivals
  <2>2. CASE c = b
    BY <1>2, <1>7, <2>1, <2>2 DEF IInv, OnceInv
  <2>3. CASE c # b
    BY <1>3, <1>7, <2>1, <2>3 DEF IInv, OnceInv
  <2> QED
    BY <2>2, <2>3
<1>13. SoundInv'
  BY <1>2, <1>3, <1>10 DEF IInv, SoundInv
<1>14. ReaderInv'
  BY <1>10 DEF IInv, ReaderInv
<1> QED
  BY <1>6, <1>8, <1>9, <1>11, <1>12, <1>13, <1>14 DEF IInv

LEMMA ExecuteStep ==
  ASSUME IInv, NEW b \in Backups, WriteExecute(b)
  PROVE  IInv'
<1> DEFINE w == [phase |-> "executed", script |-> writer[b].script, tx |-> {store},
                 alone |-> writer[b].alone]
<1>1. TypeInv /\ chain' = chain /\ store' = store /\ reader' = reader
      /\ writer[b].phase = "ready" /\ Active(b)
  BY DEF IInv, WriteExecute, Active
<1>2. w \in Writer
  BY <1>1, ActiveFacts DEF TypeInv, Writer, Phases
<1>3. writer' = [writer EXCEPT ![b] = w]
  BY DEF WriteExecute, Moved
<1>4. writer[b].script <= Batches(b) + 1 /\ writer[b].script <= Batches(b)
  BY <1>1 DEF IInv, ScriptInv
<1>5. w.phase = "executed" /\ w.script = writer[b].script /\ w.alone = writer[b].alone
  OBVIOUS
<1> HIDE DEF w
<1>6. /\ writer' \in [Backups -> Writer]
      /\ writer'[b] = w
      /\ \A c \in Backups \ {b} : writer'[c] = writer[c]
      /\ ScriptInv' /\ LoneInv'
  BY <1>1, <1>2, <1>3, <1>4, <1>5, WriterStep
<1>7. TypeInv'
  BY <1>6 DEF TypeInv, IInv, WriteExecute
<1>8. \A c \in Backups : /\ Active(c)' <=> Active(c)
                         /\ MetaAhead(c)' <=> MetaAhead(c)
                         /\ Executed(c)' = Executed(c)
                         /\ writer'[c].alone = writer[c].alone
                         /\ writer'[c].phase = "submitted" => writer'[c] = writer[c]
  BY <1>1, <1>5, <1>6 DEF Active, MetaAhead, Executed
<1>9. ProgressInv' /\ OnceInv'
  BY <1>1, <1>8, OnceFacts DEF IInv, ProgressInv, OnceInv
<1>10. SoundInv' /\ ReaderInv'
  BY <1>1, <1>8 DEF IInv, SoundInv, ReaderInv
<1> QED
  BY <1>6, <1>7, <1>9, <1>10 DEF IInv

LEMMA StopStep ==
  ASSUME IInv, NEW b \in Backups, WriteStop(b)
  PROVE  IInv'
<1> DEFINE w == [phase |-> "failed", script |-> writer[b].script, tx |-> NoTx,
                 alone |-> writer[b].alone]
<1>1. TypeInv /\ chain' = chain /\ store' = store /\ reader' = reader
  BY DEF IInv, WriteStop
<1>2. w \in Writer
  BY <1>1, ActiveFacts DEF Writer, Phases, NoTx
<1>3. writer' = [writer EXCEPT ![b] = w]
  BY DEF WriteStop, Moved
<1>4. writer[b].script <= Batches(b) + 1
  BY <1>1 DEF IInv, ScriptInv
<1>5. w.phase = "failed" /\ w.script = writer[b].script /\ w.alone = writer[b].alone
  OBVIOUS
<1> HIDE DEF w
<1>6. /\ writer' \in [Backups -> Writer]
      /\ writer'[b] = w
      /\ \A c \in Backups \ {b} : writer'[c] = writer[c]
      /\ ScriptInv' /\ LoneInv'
  BY <1>1, <1>2, <1>3, <1>4, <1>5, WriterStep
<1>7. TypeInv'
  BY <1>6 DEF TypeInv, IInv, WriteStop
<1>8. /\ \A c \in Backups \ {b} : /\ Active(c)' <=> Active(c)
                                  /\ MetaAhead(c)' <=> MetaAhead(c)
                                  /\ Executed(c)' = Executed(c)
      /\ ~ Active(b)' /\ ~ MetaAhead(b)' /\ writer'[b].phase # "submitted"
  BY <1>1, <1>5, <1>6 DEF Active, MetaAhead, Executed
<1>9. ProgressInv' /\ OnceInv'
  BY <1>1, <1>6, <1>8, OnceFacts DEF IInv, ProgressInv, OnceInv
<1>10. SoundInv' /\ ReaderInv'
  BY <1>1, <1>6, <1>8 DEF IInv, SoundInv, ReaderInv
<1> QED
  BY <1>6, <1>7, <1>9, <1>10 DEF IInv

\* What the node accepts keeps every stored backup of a user with one backup,
\* and completes one at most.
LEMMA SubmitFacts ==
  ASSUME IInv, NEW b \in Backups, WriteSubmit(b)
  PROVE  /\ chain' = RunBackupScript(b, writer[b].script, chain) /\ chain' \in AccountState
         /\ Active(b) /\ MetaAhead(b) /\ writer[b].script \in 0..Batches(b)
         /\ writer[b].alone =>
              Written(b, writer[b].script + 1, chain')
         /\ \A c \in OwnedOnce : Stored(c, chain) => Stored(c, chain')
         /\ \A c \in Backups : Owner[c] # Owner[b] =>
              /\ chain'.meta[Owner[c]] = chain.meta[Owner[c]]
              /\ \A k \in Nat : Written(c, k, chain) => Written(c, k, chain')
         /\ \A u \in Users : u # Owner[b] => chain'.meta[u] = chain.meta[u]
         /\ writer[b].script < Batches(b) => chain'.meta = chain.meta
<1> DEFINE k == writer[b].script
<1>1. /\ TypeInv /\ chain \in AccountState /\ writer[b].phase = "executed"
      /\ chain' = RunBackupScript(b, k, chain)
      /\ Active(b) /\ MetaAhead(b)
  BY DEF IInv, TypeInv, WriteSubmit, Active, MetaAhead
<1>2. k \in Nat /\ Batches(b) \in Nat /\ k <= Batches(b)
  BY <1>1, ActiveFacts, BackupFacts DEF IInv, ScriptInv
<1>3. /\ chain' \in AccountState
      /\ k < Batches(b) => chain'.meta = chain.meta
      /\ \A u \in Users : u # Owner[b] => chain'.meta[u] = chain.meta[u]
  BY <1>1, <1>2, ScriptFacts
<1>4. \A c \in Backups : Owner[c] # Owner[b] =>
        /\ chain'.meta[Owner[c]] = chain.meta[Owner[c]]
        /\ \A j \in Nat : Written(c, j, chain) => Written(c, j, chain')
  BY <1>1, <1>2, WrittenOther
<1>5. writer[b].alone => Written(b, k + 1, chain')
  <2> SUFFICES ASSUME writer[b].alone PROVE Written(b, k + 1, chain')
    OBVIOUS
  <2>1. Written(b, k, chain)
    BY <1>1 DEF IInv, ProgressInv, Executed
  <2> QED
    BY <1>1, <1>2, <2>1, WrittenStep
<1>6. ASSUME NEW c \in OwnedOnce, Stored(c, chain)
      PROVE  Stored(c, chain')
  <2>1. c # b
    <3>1. chain.meta[Owner[c]] = Size[c] /\ Size[c] > 0
      BY <1>6, BackupFacts, OnceFacts DEF Stored
    <3>2. MetaAhead(c) => chain.meta[Owner[c]] = 0
      BY DEF IInv, OnceInv
    <3>3. ~ (0 > 0)
      OBVIOUS
    <3> QED
      BY <1>1, <3>1, <3>2, <3>3
  <2>2. c \in Backups /\ Owner[c] # Owner[b]
    BY <2>1, OnceFacts
  <2>3. Batches(c) + 1 \in Nat
    BY <2>2, BackupFacts
  <2>4. Written(c, Batches(c) + 1, chain)
    BY <1>6, <2>2, WrittenStored
  <2>5. Written(c, Batches(c) + 1, chain')
    BY <1>4, <2>2, <2>3, <2>4
  <2> QED
    BY <2>2, <2>5, WrittenStored
<1>7. k \in 0..Batches(b)
  BY <1>2
<1> QED
  BY <1>1, <1>3, <1>4, <1>5, <1>6, <1>7

LEMMA SubmitStep ==
  ASSUME IInv, NEW b \in Backups, WriteSubmit(b)
  PROVE  IInv'
<1> DEFINE k == writer[b].script
           w == [phase |-> "submitted", script |-> k, tx |-> writer[b].tx,
                 alone |-> writer[b].alone]
<1>1. TypeInv /\ store' = store /\ reader' = reader
      /\ writer[b].phase = "executed" /\ writer[b].tx = {chain}
  BY DEF IInv, WriteSubmit
<1>2. w \in Writer
  BY <1>1, ActiveFacts DEF Writer, Phases
<1>3. writer' = [writer EXCEPT ![b] = w]
  BY DEF WriteSubmit, Moved
<1>4. k \in 0..Batches(b) /\ Batches(b) \in Nat /\ Active(b) /\ MetaAhead(b)
  BY SubmitFacts, BackupFacts
<1>5. k \in Nat /\ k <= Batches(b) /\ k <= Batches(b) + 1
  BY <1>4
<1>6. /\ w.phase = "submitted" /\ w.script = k /\ w.alone = writer[b].alone
      /\ w.tx = {chain}
  BY <1>1
<1> HIDE DEF w
<1>7. /\ writer' \in [Backups -> Writer]
      /\ writer'[b] = w
      /\ \A c \in Backups \ {b} : writer'[c] = writer[c]
      /\ ScriptInv' /\ LoneInv'
  BY <1>2, <1>3, <1>4, <1>5, <1>6, WriterStep
<1>8. TypeInv'
  <2>1. chain' \in AccountState
    BY SubmitFacts
  <2> QED
    BY <1>7, <2>1 DEF TypeInv, IInv, WriteSubmit
<1>9. /\ \A c \in Backups : Active(c)' <=> Active(c)
      /\ \A c \in Backups : writer'[c].alone = writer[c].alone
      /\ \A c \in Backups \ {b} : /\ MetaAhead(c)' <=> MetaAhead(c)
                                  /\ Executed(c)' = Executed(c)
      /\ MetaAhead(b)' => k < Batches(b)
      /\ Executed(b)' = k + 1
  BY <1>1, <1>4, <1>6, <1>7 DEF Active, MetaAhead, Executed
<1>10. ProgressInv'
  <2> SUFFICES ASSUME NEW c \in Backups, Active(c), writer[c].alone
               PROVE  Written(c, Executed(c)', chain')
    BY <1>9 DEF ProgressInv
  <2>1. CASE c = b
    BY <1>9, <2>1, SubmitFacts
  <2>2. CASE c # b
    <3>1. Owner[c] # Owner[b]
      BY <1>4, <2>2 DEF IInv, LoneInv, Rivals
    <3>2. Written(c, Executed(c), chain) /\ Executed(c) \in Nat
      BY <1>1, ActiveFacts DEF IInv, ProgressInv
    <3> QED
      BY <1>9, <2>2, <3>1, <3>2, SubmitFacts
  <2> QED
    BY <2>1, <2>2
<1>11. OnceInv'
  <2> SUFFICES ASSUME NEW c \in OwnedOnce
               PROVE  /\ Active(c)' => writer'[c].alone
                      /\ MetaAhead(c)' => chain'.meta[Owner[c]] = 0
    BY DEF OnceInv
  <2>1. c \in Backups /\ (c # b => Owner[c] # Owner[b])
    BY OnceFacts
  <2>2. CASE c = b
    BY <1>4, <1>9, <2>1, <2>2, SubmitFacts DEF IInv, OnceInv
  <2>3. CASE c # b
    BY <1>9, <2>1, <2>3, SubmitFacts DEF IInv, OnceInv
  <2> QED
    BY <2>2, <2>3
<1>12. ASSUME NEW acct, Sound(acct, chain)
       PROVE  Sound(acct, chain')
  <2>1. \A u \in Once : \A c \in Backups : Owner[c] = u /\ Stored(c, chain) => Stored(c, chain')
    BY SubmitFacts, OnceFacts
  <2> QED
    BY <1>12, <2>1 DEF Sound
<1>13. Sound(chain', chain')
  <2> SUFFICES ASSUME NEW u \in Once
               PROVE  \/ chain'.meta[u] = 0
                      \/ \E c \in Backups : Owner[c] = u /\ Stored(c, chain')
    BY DEF Sound
  <2>1. CASE Owner[b] = u
    <3>1. b \in OwnedOnce
      BY <2>1, OnceFacts
    <3>2. writer[b].alone /\ chain.meta[u] = 0
      BY <1>4, <2>1, <3>1 DEF IInv, OnceInv
    <3>3. CASE k < Batches(b)
      BY <2>1, <3>2, <3>3, SubmitFacts
    <3>4. CASE k = Batches(b)
      <4>1. Written(b, Batches(b) + 1, chain')
        BY <3>2, <3>4, SubmitFacts
      <4>2. Stored(b, chain')
        BY <4>1, WrittenStored
      <4> QED
        BY <2>1, <4>2
    <3> QED
      BY <1>4, <3>3, <3>4
  <2>2. CASE Owner[b] # u
    <3>1. chain'.meta[u] = chain.meta[u]
      BY <2>2, SubmitFacts DEF Once
    <3>2. \/ chain.meta[u] = 0
          \/ \E c \in Backups : Owner[c] = u /\ Stored(c, chain)
      BY DEF IInv, SoundInv, Sound
    <3> QED
      BY <3>1, <3>2, SubmitFacts, OnceFacts
  <2> QED
    BY <2>1, <2>2
<1>14. SoundInv'
  <2>1. Sound(store, chain) /\ Sound(store', chain')
    BY <1>1, <1>12 DEF IInv, SoundInv
  <2> SUFFICES ASSUME NEW c \in Backups, writer'[c].phase = "submitted",
                      NEW base \in writer'[c].tx
               PROVE  Sound(RunBackupScript(c, writer'[c].script, base), chain')
    BY <1>13, <2>1 DEF SoundInv
  <2>2. CASE c = b
    <3>1. base = chain /\ writer'[c].script = k
      BY <1>6, <1>7, <2>2
    <3>2. RunBackupScript(c, writer'[c].script, base) = chain'
      BY <2>2, <3>1, SubmitFacts
    <3> QED
      BY <1>13, <3>2
  <2>3. CASE c # b
    BY <1>7, <1>12, <2>3 DEF IInv, SoundInv
  <2> QED
    BY <2>2, <2>3
<1>15. ReaderInv'
  BY <1>1 DEF IInv, ReaderInv
<1> QED
  BY <1>7, <1>8, <1>10, <1>11, <1>14, <1>15 DEF IInv

LEMMA ApplyStep ==
  ASSUME IInv, NEW b \in Backups, WriteApply(b)
  PROVE  IInv'
<1> DEFINE k == writer[b].script
           w == [phase |-> IF k = Batches(b) THEN "ok" ELSE "ready",
                 script |-> k + 1, tx |-> NoTx, alone |-> writer[b].alone]
<1>1. TypeInv /\ chain' = chain /\ reader' = reader /\ writer[b].phase = "submitted" /\ Active(b)
  BY DEF IInv, WriteApply, Active
<1>2. k \in Nat /\ Batches(b) \in Nat /\ k <= Batches(b)
  BY <1>1, ActiveFacts, BackupFacts DEF IInv, ScriptInv
<1>3. w \in Writer
  BY <1>1, <1>2, ActiveFacts DEF Writer, Phases, NoTx
<1>4. writer' = [writer EXCEPT ![b] = w]
  BY DEF WriteApply, Moved
<1>5. /\ w.phase = IF k = Batches(b) THEN "ok" ELSE "ready"
      /\ w.script = k + 1 /\ w.alone = writer[b].alone
  OBVIOUS
<1>6. k + 1 <= Batches(b) + 1 /\ (k # Batches(b) => k < Batches(b) /\ k + 1 <= Batches(b))
  BY <1>2
<1> HIDE DEF w, k
<1>7. /\ writer' \in [Backups -> Writer]
      /\ writer'[b] = w
      /\ \A c \in Backups \ {b} : writer'[c] = writer[c]
      /\ ScriptInv' /\ LoneInv'
  BY <1>1, <1>3, <1>4, <1>5, <1>6, WriterStep
<1>8. /\ store' \in AccountState /\ Sound(store', chain)
  <2>1. PICK base \in writer[b].tx :
          store' = RunBackupScript(b, k, base) \/ store' = store
    BY DEF WriteApply, k
  <2>2. base \in AccountState
    BY <1>1, <2>1, ActiveFacts
  <2>3. RunBackupScript(b, k, base) \in AccountState
    BY <1>2, <2>2, ScriptFacts
  <2>4. Sound(RunBackupScript(b, k, base), chain) /\ Sound(store, chain) /\ store \in AccountState
    BY <1>1, <2>1 DEF IInv, TypeInv, SoundInv, k
  <2> QED
    BY <2>1, <2>3, <2>4
<1>9. TypeInv'
  BY <1>7, <1>8 DEF TypeInv, IInv, WriteApply
<1>10. /\ \A c \in Backups : Active(c)' => Active(c)
       /\ \A c \in Backups : writer'[c].alone = writer[c].alone
       /\ \A c \in Backups : MetaAhead(c)' => MetaAhead(c)
       /\ \A c \in Backups : Active(c) => Executed(c)' = Executed(c)
       /\ \A c \in Backups : writer'[c].phase = "submitted" => writer'[c] = writer[c]
  BY <1>1, <1>5, <1>6, <1>7 DEF Active, MetaAhead, Executed, k
<1>11. ProgressInv' /\ OnceInv'
  BY <1>1, <1>10, OnceFacts DEF IInv, ProgressInv, OnceInv
<1>12. SoundInv' /\ ReaderInv'
  BY <1>1, <1>8, <1>10 DEF IInv, SoundInv, ReaderInv
<1> QED
  BY <1>7, <1>9, <1>11, <1>12 DEF IInv

\* A reader's step from one phase to another leaves what it restored.
LEMMA ReaderMoves ==
  ASSUME TypeInv, NEW r \in Readers, NEW p \in {"idle", "ready", "done"},
         reader' = [reader EXCEPT ![r].phase = p]
  PROVE  /\ reader' \in [Readers -> Reader]
         /\ reader'[r].phase = p
         /\ \A s \in Readers : reader'[s].result = reader[s].result
         /\ \A s \in Readers \ {r} : reader'[s] = reader[s]
<1>1. reader \in [Readers -> Reader]
  BY DEF TypeInv
<1>2. reader[r] \in Reader /\ [reader[r] EXCEPT !.phase = p] \in Reader
  BY <1>1 DEF Reader
<1>3. /\ [reader[r] EXCEPT !.phase = p].phase = p
      /\ [reader[r] EXCEPT !.phase = p].result = reader[r].result
  BY <1>2 DEF Reader
<1>4. reader' = [reader EXCEPT ![r] = [reader[r] EXCEPT !.phase = p]]
  OBVIOUS
<1> DEFINE n == [reader[r] EXCEPT !.phase = p]
<1> HIDE DEF n
<1>5. n \in Reader /\ n.phase = p /\ n.result = reader[r].result
  BY <1>2, <1>3 DEF n
<1>6. reader' = [reader EXCEPT ![r] = n]
  BY <1>4 DEF n
<1> QED
  BY <1>1, <1>5, <1>6

LEMMA RestoredType ==
  ASSUME NEW u \in Users, NEW acct \in AccountState
  PROVE  Restored(u, acct) \subseteq Backups \cup {NoBackup}
<1>1. CASE acct.meta[u] = 0
  BY <1>1 DEF Restored
<1>2. CASE acct.meta[u] # 0
  <2>1. PICK b \in Backups : acct.meta[u] = Size[b]
    BY <1>2 DEF AccountState
  <2>2. \A i \in 0..(Size[b] - 1) : i \in Indices
    BY BackupFacts
  <2>3. \A i \in 0..(Size[b] - 1) : acct.words[u][i] \in Backups \cup {NoBackup}
    BY <2>2 DEF AccountState
  <2>4. Restored(u, acct) = {acct.words[u][i] : i \in 0..(Size[b] - 1)}
    BY <1>2, <2>1 DEF Restored
  <2> QED
    BY <2>3, <2>4
<1> QED
  BY <1>1, <1>2

\* A copy that is sound restores a user's only backup, or nothing.
LEMMA RestoredSound ==
  ASSUME NEW u \in Once, NEW acct, NEW now, Sound(acct, now)
  PROVE  \/ Restored(u, acct) = {NoBackup}
         \/ \E b \in OwnedOnce : Owner[b] = u /\ Stored(b, now) /\ Restored(u, acct) = {b}
<1>1. CASE acct.meta[u] = 0
  BY <1>1 DEF Restored
<1>2. CASE acct.meta[u] # 0
  <2>1. PICK b \in Backups : Owner[b] = u /\ Stored(b, acct) /\ Stored(b, now)
    BY <1>2 DEF Sound
  <2>2. /\ \A i \in 0..(Size[b] - 1) : acct.words[u][i] = b
        /\ acct.meta[u] = Size[b]
    BY <2>1 DEF Stored
  <2>3. 0 \in 0..(Size[b] - 1)
    BY BackupFacts
  <2>4. Restored(u, acct) = {acct.words[u][i] : i \in 0..(Size[b] - 1)}
    BY <1>2, <2>2 DEF Restored
  <2>5. Restored(u, acct) = {b}
    BY <2>2, <2>3, <2>4
  <2> QED
    BY <2>1, <2>5, OnceFacts
<1> QED
  BY <1>1, <1>2

LEMMA ReadStepInv ==
  ASSUME IInv, NEW r \in Readers, ReadStep(r)
  PROVE  IInv'
<1>1. TypeInv /\ ReaderInv /\ UNCHANGED <<chain, writer, traffic>> /\ store' \in {store, chain}
  BY DEF IInv, ReadStep, ReadStart, ReadWarm, ReadAccount
<1>2. marker' \in BOOLEAN
  BY DEF IInv, TypeInv, ReadStep, ReadStart, ReadWarm, ReadAccount
<1>3. reader' \in [Readers -> Reader] /\ ReaderInv'
  <2>1. CASE ReadStart(r) \/ ReadWarm(r)
    <3>1. PICK p \in {"idle", "ready"} : reader' = [reader EXCEPT ![r].phase = p]
      BY <2>1 DEF ReadStart, ReadWarm
    <3>2. reader[r].phase # "done"
      BY <2>1 DEF ReadStart, ReadWarm
    <3>3. /\ reader' \in [Readers -> Reader]
          /\ \A s \in Readers : reader'[s].result = reader[s].result
          /\ \A s \in Readers \ {r} : reader'[s] = reader[s]
      BY <1>1, <3>1, ReaderMoves
    <3> QED
      BY <1>1, <3>2, <3>3 DEF ReaderInv
  <2>2. CASE ReadAccount(r)
    <3>1. Restored(Wants[r], store) \in SUBSET (Backups \cup {NoBackup})
      BY <1>1, RestoredType, BackupAssumption DEF TypeInv
    <3> DEFINE n == [phase |-> "done", result |-> Restored(Wants[r], store)]
    <3>2. n \in Reader /\ n.phase = "done"
      BY <3>1 DEF Reader
    <3>3. reader' = [reader EXCEPT ![r] = n]
      BY <2>2 DEF ReadAccount
    <3> HIDE DEF n
    <3> QED
      BY <1>1, <3>2, <3>3 DEF TypeInv, ReaderInv
  <2> QED
    BY <2>1, <2>2 DEF ReadStep
<1>4. TypeInv'
  BY <1>1, <1>2, <1>3 DEF TypeInv
<1> QED
  BY <1>1, <1>3, <1>4, QuietStep

---------------------------------------------------------------------------
(* The invariant *)

LEMMA InitInv == Init => IInv
<1> SUFFICES ASSUME Init PROVE IInv
  OBVIOUS
<1>1. chain \in AccountState /\ store = chain /\ \A u \in Users : chain.meta[u] = 0
  BY DEF Init, AccountState
<1>2. /\ \A b \in Backups : writer[b] = [phase |-> "idle", script |-> 0, tx |-> NoTx,
                                         alone |-> TRUE]
      /\ writer \in [Backups -> Writer]
  BY DEF Init, Writer, Phases, NoTx
<1>3. reader \in [Readers -> Reader] /\ ReaderInv
  BY DEF Init, Reader, ReaderInv
<1>4. TypeInv
  <2>1. traffic = 0 /\ marker = FALSE /\ MaxTraffic \in Nat
    BY BackupAssumption DEF Init
  <2>2. traffic \in 0..MaxTraffic
    BY <2>1
  <2> QED
    BY <1>1, <1>2, <1>3, <2>1, <2>2 DEF TypeInv
<1>5. \A b \in Backups : ~ Active(b)
  BY <1>2 DEF Active
<1>6. ScriptInv
  <2>1. \A b \in Backups : Batches(b) \in Nat
    BY BackupFacts
  <2>2. \A b \in Backups : 0 <= Batches(b) + 1
    BY <2>1
  <2> QED
    BY <1>2, <1>5, <2>2 DEF ScriptInv
<1>7. LoneInv /\ ProgressInv /\ OnceInv
  BY <1>1, <1>5, OnceFacts DEF LoneInv, ProgressInv, OnceInv, Once
<1>8. SoundInv
  BY <1>1, <1>2 DEF SoundInv, Sound, Once
<1> QED
  BY <1>3, <1>4, <1>6, <1>7, <1>8 DEF IInv

LEMMA StepInv == IInv /\ [Next]_vars => IInv'
<1> SUFFICES ASSUME IInv, [Next]_vars PROVE IInv'
  OBVIOUS
<1>1. ASSUME NEW b \in Backups, WriteStep(b) PROVE IInv'
  BY <1>1, StartStep, ExecuteStep, SubmitStep, ApplyStep, StopStep DEF WriteStep
<1>2. ASSUME NEW r \in Readers, ReadStep(r) PROVE IInv'
  BY <1>2, ReadStepInv
<1>3. CASE MarkerExpires \/ UNCHANGED vars
  <2>1. TypeInv' /\ ReaderInv' /\ UNCHANGED <<chain, writer>> /\ store' \in {store, chain}
    BY <1>3 DEF IInv, TypeInv, ReaderInv, MarkerExpires, vars
  <2> QED
    BY <2>1, QuietStep
<1>4. CASE OtherTransaction
  BY <1>4, OtherStep
<1> QED
  BY <1>1, <1>2, <1>3, <1>4 DEF Next

---------------------------------------------------------------------------
(* Theorems *)

\* The invariant holds in every behaviour, however many writers, readers and
\* foreign transactions interleave, and whichever of them die.
THEOREM SlotInvariance == Spec => []IInv
BY InitInv, StepInv, PTL DEF Spec

\* Every variable keeps its type; a writer's loop ends after the meta script.
THEOREM SlotTypes == Spec => []TypeOK
<1>1. IInv => TypeOK
  <2> SUFFICES ASSUME IInv PROVE TypeOK
    OBVIOUS
  <2>1. /\ {chain.nonce, store.nonce} \subseteq Nat
        /\ {chain.words, store.words} \subseteq [Users -> [Indices -> Backups \cup {NoBackup}]]
        /\ {chain.meta, store.meta} \subseteq [Users -> {0} \cup {Size[b] : b \in Backups}]
    BY DEF IInv, TypeInv, AccountState
  <2>2. ASSUME NEW b \in Backups
        PROVE  /\ writer[b].phase \in Phases
               /\ writer[b].script \in 0..(Batches(b) + 1)
    BY ActiveFacts, BackupFacts DEF IInv, ScriptInv
  <2>3. \A r \in Readers : reader[r].result \subseteq Backups \cup {NoBackup}
    BY DEF IInv, TypeInv, Reader
  <2> QED
    BY <2>1, <2>2, <2>3 DEF TypeOK, IInv, TypeInv, Phases
<1> QED
  BY <1>1, SlotInvariance, PTL

\* Only its own last application makes a process say ok.
LEMMA OkComesLast ==
  ASSUME IInv, [Next]_vars, NEW b \in Backups,
         writer[b].phase = "submitted", writer'[b].phase = "ok"
  PROVE  WriteApply(b) /\ writer[b].script = Batches(b)
<1>1. writer \in [Backups -> Writer]
  BY DEF IInv, TypeInv
<1>2. CASE \E c \in Backups \ {b} : WriteStep(c)
  <2>1. PICK c \in Backups \ {b} : WriteStep(c)
    BY <1>2
  <2>2. CASE WriteStart(c)
    <3>1. writer'[b] = [writer[b] EXCEPT !.alone = @ /\ b \notin Rivals(c)]
      BY <2>2 DEF WriteStart
    <3>2. writer[b] \in [phase : Phases, script : Nat, tx : SUBSET AccountState, alone : BOOLEAN]
      BY <1>1 DEF Writer
    <3>3. writer'[b].phase = writer[b].phase
      BY <3>1, <3>2
    <3> QED
      BY <3>3
  <2>3. CASE WriteExecute(c) \/ WriteSubmit(c) \/ WriteApply(c) \/ WriteStop(c)
    <3>1. writer'[b] = writer[b]
      BY <1>1, <2>3 DEF WriteExecute, WriteSubmit, WriteApply, WriteStop, Moved
    <3> QED
      BY <3>1
  <2> QED
    BY <2>1, <2>2, <2>3 DEF WriteStep
<1>3. CASE WriteStep(b)
  <2>1. WriteApply(b)
    BY <1>1, <1>3 DEF WriteStep, WriteStart, WriteExecute, WriteSubmit, WriteStop, Moved
  <2>2. writer'[b].phase = IF writer[b].script = Batches(b) THEN "ok" ELSE "ready"
    BY <1>1, <2>1 DEF WriteApply, Moved
  <2> QED
    BY <2>1, <2>2
<1>4. CASE (\E r \in Readers : ReadStep(r)) \/ MarkerExpires \/ OtherTransaction \/ UNCHANGED vars
  <2>1. writer' = writer
    BY <1>4 DEF ReadStep, ReadStart, ReadWarm, ReadAccount, MarkerExpires, OtherTransaction, vars
  <2> QED
    BY <2>1
<1> QED
  BY <1>2, <1>3, <1>4 DEF Next

\* A backup_write that ran without a rival and says ok has its whole ciphertext
\* on the chain, whatever an earlier process left half-written in the slot.
THEOREM OkIsTrue == Spec => OkMeansStored
<1>1. IInv /\ [Next]_vars =>
        [\A b \in Backups :
           /\ writer[b].phase = "submitted" /\ writer[b].alone
           /\ writer'[b].phase = "ok"
           => Stored(b, chain')]_vars
  <2> SUFFICES ASSUME IInv, [Next]_vars, NEW b \in Backups,
                      writer[b].phase = "submitted", writer[b].alone, writer'[b].phase = "ok"
               PROVE  Stored(b, chain')
    BY DEF vars
  <2>1. WriteApply(b) /\ writer[b].script = Batches(b)
    BY OkComesLast
  <2>2. chain' = chain /\ Written(b, Batches(b) + 1, chain)
    BY <2>1 DEF WriteApply, IInv, ProgressInv, Active, Executed
  <2> QED
    BY <2>2, WrittenStored
<1> QED
  BY <1>1, SlotInvariance, PTL DEF Spec, OkMeansStored

---------------------------------------------------------------------------
(* The register *)

\* The backup of each user as the mapping of Register reads it off a state.
RegisterOf(acct) ==
  [u \in Once |-> IF \E b \in OwnedOnce : Owner[b] = u /\ Stored(b, acct)
                  THEN CHOOSE b \in OwnedOnce : Owner[b] = u
                  ELSE NoBackup]

Results == [r \in WantsOnce |-> reader[r].result]

LEMMA RegisterFacts ==
  ASSUME NEW acct
  PROVE  /\ \A b \in OwnedOnce :
              RegisterOf(acct)[Owner[b]] = IF Stored(b, acct) THEN b ELSE NoBackup
         /\ \A u \in Once : (\A b \in OwnedOnce : Owner[b] # u) => RegisterOf(acct)[u] = NoBackup
<1>1. ASSUME NEW b \in OwnedOnce
      PROVE  RegisterOf(acct)[Owner[b]] = IF Stored(b, acct) THEN b ELSE NoBackup
  <2>1. Owner[b] \in Once /\ \A c \in OwnedOnce : Owner[c] = Owner[b] => c = b
    BY OnceFacts
  <2>2. (CHOOSE c \in OwnedOnce : Owner[c] = Owner[b]) = b
    BY <2>1
  <2>3. RegisterOf(acct)[Owner[b]] = IF \E c \in OwnedOnce : Owner[c] = Owner[b] /\ Stored(c, acct)
                                     THEN CHOOSE c \in OwnedOnce : Owner[c] = Owner[b]
                                     ELSE NoBackup
    BY <2>1 DEF RegisterOf
  <2> QED
    BY <2>1, <2>2, <2>3
<1>2. ASSUME NEW u \in Once, \A b \in OwnedOnce : Owner[b] # u
      PROVE  RegisterOf(acct)[u] = NoBackup
  BY <1>2 DEF RegisterOf
<1> QED
  BY <1>1, <1>2

\* States that store the same backups show the same register.
LEMMA RegisterSame ==
  ASSUME NEW acct, NEW new, \A b \in OwnedOnce : Stored(b, acct) <=> Stored(b, new)
  PROVE  RegisterOf(new) = RegisterOf(acct)
BY DEF RegisterOf

\* A step of the chain that no submission makes.
LEMMA RegisterQuiet ==
  ASSUME chain'.words = chain.words, chain'.meta = chain.meta
  PROVE  RegisterOf(chain') = RegisterOf(chain)
<1>1. \A b \in OwnedOnce : Stored(b, chain) <=> Stored(b, chain')
  BY DEF Stored
<1> QED
  BY <1>1, RegisterSame

\* The last script of a backup writes the register, every other one nothing.
LEMMA RegisterSubmit ==
  ASSUME IInv, NEW b \in Backups, WriteSubmit(b)
  PROVE  \/ RegisterOf(chain') = RegisterOf(chain)
         \/ /\ b \in OwnedOnce
            /\ RegisterOf(chain)[Owner[b]] = NoBackup
            /\ RegisterOf(chain') = [RegisterOf(chain) EXCEPT ![Owner[b]] = b]
<1>1. \A c \in OwnedOnce : Stored(c, chain) => Stored(c, chain')
  BY SubmitFacts
<1>2. ASSUME NEW c \in OwnedOnce, c # b, Stored(c, chain')
      PROVE  Stored(c, chain)
  <2>1. c \in Backups /\ Owner[c] # Owner[b] /\ Owner[c] \in Users
    BY <1>2, OnceFacts, BackupFacts
  <2>2. chain'.meta[Owner[c]] = Size[c] /\ Size[c] > 0
    BY <1>2, <2>1, BackupFacts DEF Stored
  <2>3. chain.meta[Owner[c]] = Size[c]
    BY <2>1, <2>2, SubmitFacts
  <2>4. Owner[c] \in Once /\ Sound(chain, chain)
    BY OnceFacts DEF IInv, SoundInv
  <2>5. chain.meta[Owner[c]] # 0
    BY <2>2, <2>3
  <2>6. PICK d \in Backups : Owner[d] = Owner[c] /\ Stored(d, chain)
    BY <2>4, <2>5 DEF Sound
  <2> QED
    BY <2>6, OnceFacts
<1>3. CASE b \notin OwnedOnce \/ ~ Stored(b, chain')
  <2>1. \A c \in OwnedOnce : Stored(c, chain) <=> Stored(c, chain')
    BY <1>1, <1>2, <1>3
  <2> QED
    BY <2>1, RegisterSame
<1>4. CASE b \in OwnedOnce /\ Stored(b, chain')
  <2>1. ~ Stored(b, chain)
    <3>1. chain.meta[Owner[b]] = 0 /\ Size[b] > 0
      BY <1>4, SubmitFacts, BackupFacts DEF IInv, OnceInv
    <3>2. ~ (0 > 0)
      OBVIOUS
    <3> QED
      BY <3>1, <3>2 DEF Stored
  <2>2. RegisterOf(chain)[Owner[b]] = NoBackup /\ RegisterOf(chain')[Owner[b]] = b
    BY <1>4, <2>1, RegisterFacts
  <2>3. ASSUME NEW u \in Once, u # Owner[b]
        PROVE  RegisterOf(chain')[u] = RegisterOf(chain)[u]
    <3>1. CASE \E c \in OwnedOnce : Owner[c] = u
      <4>1. PICK c \in OwnedOnce : Owner[c] = u
        BY <3>1
      <4>2. Stored(c, chain) <=> Stored(c, chain')
        BY <1>1, <1>2, <2>3, <4>1
      <4> QED
        BY <4>1, <4>2, RegisterFacts
    <3>2. CASE ~ \E c \in OwnedOnce : Owner[c] = u
      BY <3>2, RegisterFacts
    <3> QED
      BY <3>1, <3>2
  <2>4. /\ RegisterOf(chain) = [u \in Once |-> RegisterOf(chain)[u]]
        /\ RegisterOf(chain') = [u \in Once |-> RegisterOf(chain')[u]]
    BY DEF RegisterOf
  <2>5. RegisterOf(chain') = [RegisterOf(chain) EXCEPT ![Owner[b]] = b]
    BY <1>4, <2>2, <2>3, <2>4, OnceFacts
  <2> QED
    BY <1>4, <2>2, <2>5
<1> QED
  BY <1>3, <1>4

\* The mapped variables of Register.
RegisterVars == <<RegisterOf(chain), Results>>

LEMMA InitRegister == Init => Register!Init
<1> SUFFICES ASSUME Init PROVE Register!Init
  OBVIOUS
<1>1. \A b \in OwnedOnce : ~ Stored(b, chain)
  <2> SUFFICES ASSUME NEW b \in OwnedOnce PROVE ~ Stored(b, chain)
    OBVIOUS
  <2>1. Owner[b] \in Users /\ Size[b] \in Nat /\ Size[b] > 0
    BY OnceFacts, BackupFacts
  <2>2. chain.meta[Owner[b]] = 0
    BY <2>1 DEF Init
  <2>3. Size[b] # 0
    BY <2>1
  <2> QED
    BY <2>2, <2>3 DEF Stored
<1>2. RegisterOf(chain) = [u \in Once |-> NoBackup]
  BY <1>1 DEF RegisterOf
<1>3. Results = [r \in WantsOnce |-> {}]
  BY DEF Init, Results, WantsOnce
<1> QED
  BY <1>2, <1>3 DEF Register!Init, RegisterOf, Results

\* A step that is not a submission or a restoration leaves the register alone.
LEMMA RegisterStutter ==
  ASSUME chain'.words = chain.words, chain'.meta = chain.meta,
         \A r \in WantsOnce : reader'[r].result = reader[r].result
  PROVE  UNCHANGED RegisterVars
<1>1. RegisterOf(chain') = RegisterOf(chain)
  BY RegisterQuiet
<1>2. Results' = Results
  BY DEF Results
<1> QED
  BY <1>1, <1>2 DEF RegisterVars

LEMMA RegisterRead ==
  ASSUME IInv, NEW r \in Readers, ReadAccount(r)
  PROVE  Register!Next \/ UNCHANGED RegisterVars
<1>1. /\ reader \in [Readers -> Reader] /\ chain' = chain
      /\ reader' = [reader EXCEPT ![r] = [phase  |-> "done",
                                          result |-> Restored(Wants[r], store)]]
      /\ reader[r].result = {}
  BY DEF IInv, TypeInv, ReaderInv, ReadAccount
<1>2. /\ reader'[r].result = Restored(Wants[r], store)
      /\ \A s \in Readers \ {r} : reader'[s].result = reader[s].result
  BY <1>1
<1>3. CASE r \notin WantsOnce
  <2>1. \A s \in WantsOnce : reader'[s].result = reader[s].result
    BY <1>2, <1>3 DEF WantsOnce
  <2> QED
    BY <1>1, <2>1, RegisterStutter
<1>4. CASE r \in WantsOnce
  <2> DEFINE u == Wants[r]
  <2>1. u \in Once /\ Sound(store, chain)
    BY <1>4 DEF WantsOnce, IInv, SoundInv
  <2>2. \E x \in {NoBackup, RegisterOf(chain)[u]} : Restored(u, store) = {x}
    <3>1. CASE Restored(u, store) = {NoBackup}
      BY <3>1
    <3>2. CASE \E b \in OwnedOnce : Owner[b] = u /\ Stored(b, chain) /\ Restored(u, store) = {b}
      <4>1. PICK b \in OwnedOnce : Owner[b] = u /\ Stored(b, chain) /\ Restored(u, store) = {b}
        BY <3>2
      <4>2. RegisterOf(chain)[u] = b
        BY <4>1, RegisterFacts
      <4> QED
        BY <4>1, <4>2
    <3> QED
      BY <2>1, <3>1, <3>2, RestoredSound
  <2>3. Results[r] = {}
    BY <1>1, <1>4 DEF Results
  <2>4. Results' = [Results EXCEPT ![r] = Restored(u, store)]
    BY <1>2, <1>4 DEF Results, WantsOnce
  <2>5. RegisterOf(chain') = RegisterOf(chain)
    BY <1>1
  <2>6. Register!Read(r)
    BY <1>4, <2>2, <2>3, <2>4, <2>5 DEF Register!Read, RegisterOf, Results
  <2> QED
    BY <1>4, <2>6 DEF Register!Next
<1> QED
  BY <1>3, <1>4

LEMMA RegisterStep == IInv /\ [Next]_vars => [Register!Next]_RegisterVars
<1> SUFFICES ASSUME IInv, [Next]_vars PROVE Register!Next \/ UNCHANGED RegisterVars
  OBVIOUS
<1>1. ASSUME NEW b \in Backups, WriteSubmit(b)
      PROVE  Register!Next \/ UNCHANGED RegisterVars
  <2>1. reader' = reader
    BY <1>1 DEF WriteSubmit
  <2>2. CASE RegisterOf(chain') = RegisterOf(chain)
    BY <2>1, <2>2 DEF RegisterVars, Results
  <2>3. CASE /\ b \in OwnedOnce
             /\ RegisterOf(chain)[Owner[b]] = NoBackup
             /\ RegisterOf(chain') = [RegisterOf(chain) EXCEPT ![Owner[b]] = b]
    <3>1. Register!Write(b)
      BY <2>1, <2>3 DEF Register!Write, RegisterOf
    <3> QED
      BY <2>3, <3>1 DEF Register!Next
  <2> QED
    BY <1>1, <2>2, <2>3, RegisterSubmit
<1>2. ASSUME NEW b \in Backups,
             WriteStart(b) \/ WriteExecute(b) \/ WriteApply(b) \/ WriteStop(b)
      PROVE  UNCHANGED RegisterVars
  <2>1. chain' = chain /\ reader' = reader
    BY <1>2 DEF WriteStart, WriteExecute, WriteApply, WriteStop
  <2> QED
    BY <2>1, RegisterStutter
<1>3. ASSUME NEW r \in Readers, ReadStart(r) \/ ReadWarm(r)
      PROVE  UNCHANGED RegisterVars
  <2>1. chain' = chain /\ TypeInv
    BY <1>3 DEF IInv, ReadStart, ReadWarm
  <2>2. PICK p \in {"idle", "ready"} : reader' = [reader EXCEPT ![r].phase = p]
    BY <1>3 DEF ReadStart, ReadWarm
  <2>3. \A s \in WantsOnce : reader'[s].result = reader[s].result
    BY <2>1, <2>2, ReaderMoves DEF WantsOnce
  <2> QED
    BY <2>1, <2>3, RegisterStutter
<1>4. CASE MarkerExpires \/ UNCHANGED vars
  <2>1. chain' = chain /\ reader' = reader
    BY <1>4 DEF MarkerExpires, vars
  <2> QED
    BY <2>1, RegisterStutter
<1>5. CASE OtherTransaction
  <2>1. chain'.words = chain.words /\ chain'.meta = chain.meta
    <3>1. /\ chain = [nonce |-> chain.nonce, words |-> chain.words, meta |-> chain.meta]
          /\ chain' = [chain EXCEPT !.nonce = @ + 1]
      BY <1>5 DEF IInv, TypeInv, AccountState, OtherTransaction
    <3> QED
      BY <3>1
  <2>2. reader' = reader
    BY <1>5 DEF OtherTransaction
  <2> QED
    BY <2>1, <2>2, RegisterStutter
<1> QED
  BY <1>1, <1>2, <1>3, <1>4, <1>5, RegisterRead DEF Next, WriteStep, ReadStep

\* For users who back up once the slot is an atomic register: a reader gets
\* nothing or their whole backup, and only what the chain still holds.
THEOREM SlotImplementsRegister == Spec => ImplementsRegister
<1>1. Init => Register!Init
  BY InitRegister
<1>2. IInv /\ [Next]_vars =>
        [Register!Next]_<<[u \in Once |->
                             IF \E b \in OwnedOnce : Owner[b] = u /\ Stored(b, chain)
                             THEN CHOOSE b \in OwnedOnce : Owner[b] = u
                             ELSE NoBackup],
                          [r \in WantsOnce |-> reader[r].result]>>
  BY RegisterStep DEF RegisterVars, RegisterOf, Results
<1> QED
  BY <1>1, <1>2, SlotInvariance, PTL DEF Spec, ImplementsRegister, Register!Spec,
     Register!registerVars
---------------------------------------------------------------------------
(* What a reader prints *)

\* A reader of a user who backs up once prints nothing or a whole backup.
Whole ==
  \A r \in WantsOnce : reader[r].phase = "done" =>
    reader[r].result = {NoBackup} \/ \E b \in Backups : reader[r].result = {b}

LEMMA WholeNext == IInv /\ Whole /\ [Next]_vars => Whole'
<1> SUFFICES ASSUME IInv, Whole, [Next]_vars PROVE Whole'
  OBVIOUS
<1>0. reader \in [Readers -> Reader] /\ WantsOnce \subseteq Readers
  BY DEF IInv, TypeInv, WantsOnce
<1>1. ASSUME NEW r \in Readers, ReadAccount(r)
      PROVE  Whole'
  <2>1. /\ reader'[r].result = Restored(Wants[r], store)
        /\ \A s \in Readers \ {r} : reader'[s] = reader[s]
    BY <1>0, <1>1 DEF ReadAccount
  <2>2. r \in WantsOnce =>
          \/ Restored(Wants[r], store) = {NoBackup}
          \/ \E b \in Backups : Restored(Wants[r], store) = {b}
    BY RestoredSound DEF WantsOnce, IInv, SoundInv, OwnedOnce
  <2> QED
    BY <1>0, <2>1, <2>2 DEF Whole
<1>2. ASSUME NEW r \in Readers, ReadStart(r) \/ ReadWarm(r)
      PROVE  Whole'
  <2>1. PICK p \in {"idle", "ready"} : reader' = [reader EXCEPT ![r].phase = p]
    BY <1>2 DEF ReadStart, ReadWarm
  <2>2. reader'[r].phase # "done" /\ \A s \in Readers \ {r} : reader'[s] = reader[s]
    BY <1>0, <2>1 DEF Reader
  <2> QED
    BY <1>0, <2>2 DEF Whole
<1>3. CASE reader' = reader
  BY <1>3 DEF Whole
<1>4. ASSUME NEW b \in Backups, WriteStep(b)
      PROVE  reader' = reader
  BY <1>4 DEF WriteStep, WriteStart, WriteExecute, WriteSubmit, WriteApply, WriteStop
<1>5. CASE MarkerExpires \/ OtherTransaction \/ UNCHANGED vars
  BY <1>3, <1>5 DEF MarkerExpires, OtherTransaction, vars
<1> QED
  BY <1>1, <1>2, <1>3, <1>4, <1>5 DEF Next, ReadStep

\* The comment of backup_write is true of users who back up once: a partial
\* write never looks complete to them.
THEOREM SingleBackupsReadComplete ==
  ASSUME WantsOnce = Readers
  PROVE  Spec => []ReadsComplete
<1>1. Init => Whole
  BY DEF Init, Whole, WantsOnce
<1>2. Spec => []Whole
  BY <1>1, WholeNext, SlotInvariance, PTL DEF Spec
<1>3. Whole => ReadsComplete
  BY DEF Whole, ReadsComplete
<1> QED
  BY <1>2, <1>3, PTL
============================================================================
