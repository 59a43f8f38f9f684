----------------------- MODULE DepositNetwork_proofs -----------------------
(***************************************************************************)
(* Proofs about DepositNetwork for any number of users, lots, notes, flow  *)
(* binaries and crashes, public or private accounts, shared or separate    *)
(* HOMEs: its types, that no local store forks, and that the clients       *)
(* implement DepositLedger, whose properties it inherits.  The last two    *)
(* parts are about private controllers and about packages without v2.      *)
(***************************************************************************)
EXTENDS DepositNetwork, TLAPS

LedgerProofs ==
  INSTANCE DepositLedger_proofs
    WITH vault    <- [a \in Accounts |-> chain[a].vault],
         position <- chain[Controller].position

---------------------------------------------------------------------------
(* Scripts *)

\* The assumptions of the instance are those of this module.
LEMMA LedgerAssumptions ==
  /\ LedgerProofs!PrimeAssumption /\ LedgerProofs!ExportsAssumption
  /\ LedgerProofs!NotesAssumption /\ LedgerProofs!FundsAssumption
BY PrimeAssumption, ExportsAssumption, NotesAssumption, FundsAssumption
   DEF LedgerProofs!PrimeAssumption, LedgerProofs!ExportsAssumption,
       LedgerProofs!NotesAssumption, LedgerProofs!FundsAssumption,
       LedgerProofs!NoteRecord, NoteRecord, LedgerProofs!Scripts, Scripts,
       LedgerProofs!Procedures, Procedures, LedgerProofs!FeltSet, FeltSet

\* What a note credits is a natural number (QuotientNat of the ledger's proofs).
LEMMA CreditNat ==
  ASSUME NEW n \in Notes, Executable(Note[n]), Credits(Note[n])
  PROVE  Quotient(Note[n]) \in Nat
<1>1. /\ LedgerProofs!Executable(Note[n]) = Executable(Note[n])
      /\ LedgerProofs!Credits(Note[n]) = Credits(Note[n])
      /\ LedgerProofs!Quotient(Note[n]) = Quotient(Note[n])
  BY DEF LedgerProofs!Executable, Executable, LedgerProofs!Credits, Credits,
         LedgerProofs!Quotient, Quotient, LedgerProofs!Calls, Calls,
         LedgerProofs!Divisor, Divisor, LedgerProofs!Dividend, Dividend,
         LedgerProofs!felt_div, felt_div, LedgerProofs!FeltMul, FeltMul
<1>2. LedgerProofs!Executable(Note[n]) /\ LedgerProofs!Credits(Note[n])
  BY <1>1
<1> QED
  BY <1>1, <1>2, LedgerProofs!QuotientNat, LedgerAssumptions

\* Consuming an executable note takes a controller state to a controller state.
LEMMA RunScriptType ==
  ASSUME NEW n \in Notes, Executable(Note[n]), NEW acct \in AccountState
  PROVE  RunScript(Note[n], acct) \in AccountState
<1>1. Note[n].lots \subseteq Lots
  BY NotesAssumption DEF NoteRecord
<1>2. Credits(Note[n]) => Quotient(Note[n]) \in Nat
  BY CreditNat
<1> QED
  BY <1>1, <1>2 DEF RunScript, AccountState

---------------------------------------------------------------------------
(* Transactions *)

\* A transaction is on an account of the system.
LEMMA AccountType ==
  ASSUME NEW step \in Steps, NEW n \in Notes
  PROVE  Account(step, n) \in Accounts
BY NotesAssumption DEF Account, Accounts, NoteRecord

\* A transaction that ran to its end yields an account state, one step older.
LEMMA FinalType ==
  ASSUME NEW tx \in Tx, Runnable(tx.step, tx.note, tx.base)
  PROVE  Final(tx) \in AccountState /\ Final(tx).nonce = tx.base.nonce + 1
<1>1. tx.note \in Notes /\ tx.base \in AccountState /\ tx.step \in Steps
  BY DEF Tx
<1>2. CASE tx.step = "emit"
  <2> DEFINE b == tx.base
  <2>1. Final(tx) = [b EXCEPT !.nonce = b.nonce + 1, !.vault = b.vault \ Note[tx.note].lots]
    BY <1>2 DEF Final
  <2>2. /\ b.nonce \in Nat /\ b.vault \in SUBSET Lots /\ b.position \in [Users -> Nat]
        /\ b = [nonce |-> b.nonce, vault |-> b.vault, position |-> b.position]
    BY <1>1 DEF AccountState
  <2> HIDE DEF b
  <2>3. Final(tx) = [nonce    |-> b.nonce + 1,
                     vault    |-> b.vault \ Note[tx.note].lots,
                     position |-> b.position]
    BY <2>1, <2>2
  <2>4. Final(tx) \in AccountState
    BY <2>2, <2>3 DEF AccountState
  <2> QED
    BY <2>3, <2>4 DEF b
<1>3. CASE tx.step # "emit"
  <2>1. Executable(Note[tx.note])
    BY <1>3 DEF Runnable
  <2>2. RunScript(Note[tx.note], tx.base) \in AccountState
    BY <1>1, <2>1, RunScriptType
  <2> QED
    BY <1>3, <2>2 DEF Final, RunScript
<1> QED
  BY <1>2, <1>3

\* The instanced operators are the ones of NoteScripts.
LEMMA SameScripts ==
  /\ \A n : Ledger!Executable(n) = Executable(n)
  /\ \A n : Ledger!Credits(n) = Credits(n)
  /\ \A n : Ledger!Quotient(n) = Quotient(n)
  /\ Ledger!Accounts = Accounts
BY DEF Ledger!Executable, Executable, Ledger!Credits, Credits, Ledger!Quotient,
       Quotient, Ledger!Accounts, Accounts, Ledger!Calls, Calls, Ledger!Divisor,
       Divisor, Ledger!Dividend, Dividend, Ledger!felt_div, felt_div,
       Ledger!FeltMul, FeltMul

ChainType == chain \in [Accounts -> AccountState]

NoteType == note \in [Notes -> Ledger!NoteStatus]

\* What the node does with a transaction it accepts: its account becomes the
\* transaction's result, and no state that was behind an account gets ahead.
LEMMA CommitStep ==
  ASSUME ChainType, NoteType, NEW tx \in Tx,
         Runnable(tx.step, tx.note, tx.base), Accepted(tx), Commit(tx)
  PROVE  /\ ChainType' /\ NoteType'
         /\ \A a \in Accounts, s \in AccountState : Behind(a, s) => Behind(a, s)'
         /\ chain'[Account(tx.step, tx.note)] = Final(tx)
         /\ note'[tx.note] = IF tx.step = "emit" THEN "committed" ELSE "consumed"
         /\ \A n \in Notes : note[n] = "consumed" => note'[n] = "consumed"
<1> DEFINE a0 == Account(tx.step, tx.note)
<1>1. tx.step \in Steps /\ tx.note \in Notes /\ a0 \in Accounts
  BY AccountType DEF Tx
<1>2. Final(tx) \in AccountState /\ Final(tx).nonce = tx.base.nonce + 1
  BY FinalType
<1>3. chain[a0] = tx.base
  BY DEF Accepted
<1>4. chain' = [chain EXCEPT ![a0] = Final(tx)]
  BY DEF Commit
<1>5. ChainType'
  BY <1>1, <1>2, <1>4 DEF ChainType
<1>6. NoteType'
  BY <1>1 DEF NoteType, Commit, Ledger!NoteStatus
<1>7. ASSUME NEW a \in Accounts, NEW s \in AccountState, Behind(a, s)
      PROVE  Behind(a, s)'
  <2>1. CASE a = a0
    <3>1. chain'[a].nonce = chain[a].nonce + 1 /\ chain[a].nonce \in Nat /\ s.nonce \in Nat
      BY <1>2, <1>3, <1>4, <1>1, <2>1 DEF ChainType, AccountState
    <3> QED
      BY <1>7, <3>1 DEF Behind
  <2>2. CASE a # a0
    BY <1>7, <1>4, <2>2 DEF Behind, ChainType
  <2> QED
    BY <2>1, <2>2
<1>8. chain'[a0] = Final(tx)
  BY <1>1, <1>4 DEF ChainType
<1>9. note'[tx.note] = IF tx.step = "emit" THEN "committed" ELSE "consumed"
  BY <1>1 DEF Commit, NoteType
<1>10. \A n \in Notes : note[n] = "consumed" => note'[n] = "consumed"
  BY <1>1 DEF Commit, NoteType, Accepted
<1> QED
  BY <1>5, <1>6, <1>7, <1>8, <1>9, <1>10

\* ... and it is one atomic step of the ledger.
LEMMA CommitImplements ==
  ASSUME ChainType, NoteType, NEW tx \in Tx,
         Runnable(tx.step, tx.note, tx.base), Accepted(tx), Commit(tx)
  PROVE  Ledger!Next
<1> DEFINE a0 == Account(tx.step, tx.note)
           v  == [a \in Accounts |-> chain[a].vault]
           n  == tx.note
<1>1. tx.step \in Steps /\ n \in Notes /\ a0 \in Accounts /\ Controller \in Accounts
  BY AccountType DEF Tx, Accounts
<1>2. chain' = [chain EXCEPT ![a0] = Final(tx)] /\ chain[a0] = tx.base
  BY DEF Accepted, Commit
<1>3. chain[a0] \in AccountState
  BY <1>1 DEF ChainType
<1>4. CASE tx.step = "emit"
  <2>1. a0 = Note[n].user /\ Note[n].user # Controller /\ Note[n].user \in Accounts
    BY <1>1, <1>4, NotesAssumption DEF Account, NoteRecord
  <2>2. Final(tx) = [chain[a0] EXCEPT !.nonce = @ + 1, !.vault = @ \ Note[n].lots]
    BY <1>2, <1>4 DEF Final
  <2>3. [a \in Accounts |-> chain'[a].vault] = [v EXCEPT ![Note[n].user] = @ \ Note[n].lots]
    <3>1. \A a \in Accounts : chain'[a].vault =
            IF a = Note[n].user THEN chain[a].vault \ Note[n].lots ELSE chain[a].vault
      BY <1>2, <1>3, <2>1, <2>2 DEF ChainType, AccountState
    <3> QED
      BY <2>1, <3>1
  <2>4. chain'[Controller].position = chain[Controller].position
    BY <1>1, <1>2, <2>1 DEF ChainType
  <2>5. note[n] = "unissued" /\ note' = [note EXCEPT ![n] = "committed"]
    BY <1>4 DEF Accepted, Commit
  <2>6. Note[n].lots \subseteq v[Note[n].user]
    BY <1>2, <1>4, <2>1 DEF Runnable
  <2>7. Ledger!Emit(n)
    BY <2>3, <2>4, <2>5, <2>6 DEF Ledger!Emit
  <2> QED
    BY <1>1, <2>7 DEF Ledger!Next
<1>5. CASE tx.step # "emit"
  <2>1. a0 = Controller /\ Executable(Note[n])
    BY <1>5 DEF Account, Runnable
  <2>2. Final(tx) = RunScript(Note[n], chain[Controller])
    BY <1>2, <1>5, <2>1 DEF Final
  <2>3. [a \in Accounts |-> chain'[a].vault] = [v EXCEPT ![Controller] = @ \cup Note[n].lots]
    <3>1. Final(tx).vault = chain[Controller].vault \cup Note[n].lots
      BY <2>2 DEF RunScript
    <3>2. \A a \in Accounts : chain'[a] = IF a = Controller THEN Final(tx) ELSE chain[a]
      BY <1>2, <2>1 DEF ChainType
    <3> QED
      BY <1>1, <3>1, <3>2
  <2>4. chain'[Controller].position =
          IF Credits(Note[n])
          THEN [chain[Controller].position EXCEPT ![Note[n].user] = Quotient(Note[n])]
          ELSE chain[Controller].position
    <3>1. chain'[Controller] = RunScript(Note[n], chain[Controller])
      BY <1>1, <1>2, <2>1, <2>2 DEF ChainType
    <3>2. chain[Controller].position \in [Users -> Nat]
      BY <1>1 DEF ChainType, AccountState
    <3>3. chain'[Controller].position =
            [u \in Users |-> IF Credits(Note[n]) /\ u = Note[n].user
                             THEN Quotient(Note[n]) ELSE chain[Controller].position[u]]
      BY <3>1 DEF RunScript
    <3> QED
      BY <3>2, <3>3
  <2>5. note[n] = "committed" /\ note' = [note EXCEPT ![n] = "consumed"]
    BY <1>5 DEF Accepted, Commit
  <2>6. Ledger!Consume(n)
    BY <2>1, <2>3, <2>4, <2>5, SameScripts DEF Ledger!Consume
  <2> QED
    BY <1>1, <2>6 DEF Ledger!Next
<1> QED
  BY <1>4, <1>5

---------------------------------------------------------------------------
(* The inductive invariant *)

\* A flow binary that was told its consumption is accepted is right about it.
Reported ==
  \A n \in FlowNotes :
    /\ flow[n].phase = "done" => note[n] = "consumed"
    /\ flow[n].phase = "submitted" /\ flow[n].step = "consume" => note[n] = "consumed"

\* A process has at most one transaction in flight.
OneTx ==
  /\ \A n \in FlowNotes : \A s, t \in flow[n].tx : s = t
  /\ \A s, t \in svc.tx : s = t

IInv == TypeOK /\ StoreNeverForks /\ InFlightSound /\ Reported /\ OneTx

ledgerState == <<note, [a \in Accounts |-> chain[a].vault], chain[Controller].position>>

\* What a step may do to the node's state, whoever takes it.
NodeMonotone ==
  /\ ChainType' /\ NoteType'
  /\ \A a \in Accounts, s \in AccountState : Behind(a, s) => Behind(a, s)'
  /\ \A n \in Notes : note[n] = "consumed" => note'[n] = "consumed"

\* The initial state satisfies the invariant.
LEMMA InitIInv == Init => IInv
<1> SUFFICES ASSUME Init
             PROVE  IInv
  OBVIOUS
<1> DEFINE acct0(a) == [nonce    |-> 0,
                        vault    |-> IF a = Controller THEN {} ELSE Funds[a],
                        position |-> [u \in Users |-> 0]]
<1>1. \A a \in Accounts : acct0(a) \in AccountState
  BY NotesAssumption DEF Accounts, AccountState
<1>2. chain = [a \in Accounts |-> acct0(a)] /\ store = [h \in Homes |-> chain]
  BY DEF Init
<1>3. chain \in [Accounts -> AccountState] /\ store \in [Homes -> [Accounts -> AccountState]]
  BY <1>1, <1>2
<1>4. TypeOK
  BY <1>3, NetworkAssumption
     DEF Init, TypeOK, Ledger!NoteStatus, FlowPhase, SvcPhase, Steps, NoTx
<1>5. StoreNeverForks
  BY <1>2, <1>3 DEF StoreNeverForks, Behind, AccountState
<1>6. InFlightSound /\ Reported /\ OneTx
  BY DEF Init, InFlightSound, Reported, OneTx, NoTx
<1> QED
  BY <1>4, <1>5, <1>6 DEF IInv

\* Every step leaves the node alone or commits one transaction that ran.
LEMMA StepKinds ==
  ASSUME TypeOK, InFlightSound, [Next]_vars
  PROVE  \/ UNCHANGED <<chain, note>>
         \/ \E tx \in Tx : /\ Runnable(tx.step, tx.note, tx.base)
                           /\ Accepted(tx)
                           /\ Commit(tx)
<1>1. CASE UNCHANGED vars
  BY <1>1 DEF vars
<1>2. ASSUME NEW n \in FlowNotes, FlowStep(n)
      PROVE  \/ UNCHANGED <<chain, note>>
             \/ \E tx \in Tx : /\ Runnable(tx.step, tx.note, tx.base)
                               /\ Accepted(tx)
                               /\ Commit(tx)
  <2>1. CASE FlowSubmit(n)
    <3>1. PICK tx \in flow[n].tx : Accepted(tx) /\ Commit(tx)
      BY <2>1 DEF FlowSubmit
    <3>2. tx \in Tx /\ Runnable(tx.step, tx.note, tx.base)
      BY <3>1 DEF TypeOK, InFlightSound, Sound
    <3> QED
      BY <3>1, <3>2
  <2>2. CASE FlowStart(n) \/ FlowExecute(n) \/ FlowApply(n) \/ FlowStop(n)
    BY <2>2 DEF FlowStart, FlowExecute, FlowApply, FlowStop
  <2> QED
    BY <1>2, <2>1, <2>2 DEF FlowStep
<1>3. ASSUME NEW n \in Notes, UserEmits(n)
      PROVE  \E tx \in Tx : /\ Runnable(tx.step, tx.note, tx.base)
                            /\ Accepted(tx)
                            /\ Commit(tx)
  <2> DEFINE tx == [step |-> "emit", note |-> n, base |-> chain[Note[n].user]]
  <2>1. Note[n].user \in Accounts
    BY NotesAssumption DEF NoteRecord, Accounts
  <2>2. tx \in Tx
    BY <2>1 DEF Tx, Steps, TypeOK
  <2>3. Runnable(tx.step, tx.note, tx.base) /\ Accepted(tx) /\ Commit(tx)
    BY <1>3 DEF UserEmits
  <2> QED
    BY <2>2, <2>3
<1>4. CASE ServiceSubmit
  <2>1. PICK tx \in svc.tx : Accepted(tx) /\ Commit(tx)
    BY <1>4 DEF ServiceSubmit
  <2>2. tx \in Tx /\ Runnable(tx.step, tx.note, tx.base)
    BY <2>1 DEF TypeOK, InFlightSound, Sound
  <2> QED
    BY <2>1, <2>2
<1>5. CASE \/ ServiceSync \/ ServiceRefused \/ ServiceApply \/ ServiceDone \/ ServiceCrash
           \/ \E n \in Notes : ServiceExecute(n) \/ ServiceSkip(n)
  BY <1>5 DEF ServiceSync, ServiceRefused, ServiceApply, ServiceDone, ServiceCrash,
              ServiceExecute, ServiceSkip
<1> QED
  BY <1>1, <1>2, <1>3, <1>4, <1>5 DEF Next, ServiceStep

\* The node's state only moves forward.
LEMMA NodeStep ==
  ASSUME TypeOK, InFlightSound, [Next]_vars
  PROVE  NodeMonotone
<1>0. ChainType /\ NoteType
  BY DEF TypeOK, ChainType, NoteType
<1>1. CASE UNCHANGED <<chain, note>>
  BY <1>0, <1>1 DEF NodeMonotone, ChainType, NoteType, Behind
<1>2. CASE \E tx \in Tx : /\ Runnable(tx.step, tx.note, tx.base)
                          /\ Accepted(tx)
                          /\ Commit(tx)
  BY <1>0, <1>2, CommitStep DEF NodeMonotone
<1> QED
  BY <1>1, <1>2, StepKinds

\* Every step is a step of the ledger or none.
LEMMA StepImplements ==
  ASSUME TypeOK, InFlightSound, [Next]_vars
  PROVE  Ledger!Next \/ UNCHANGED ledgerState
<1>0. ChainType /\ NoteType
  BY DEF TypeOK, ChainType, NoteType
<1>1. CASE UNCHANGED <<chain, note>>
  BY <1>1 DEF ledgerState
<1>2. CASE \E tx \in Tx : /\ Runnable(tx.step, tx.note, tx.base)
                          /\ Accepted(tx)
                          /\ Commit(tx)
  BY <1>0, <1>2, CommitImplements
<1> QED
  BY <1>1, <1>2, StepKinds

---------------------------------------------------------------------------
(* The clients *)

\* What sync_state leaves in a store is an account state not ahead of the node.
LEMMA SyncedBehind ==
  ASSUME TypeOK, StoreNeverForks, NEW h \in Homes
  PROVE  /\ Synced(h) \in [Accounts -> AccountState]
         /\ \A a \in Accounts : Behind(a, Synced(h)[a])
BY DEF Synced, TypeOK, StoreNeverForks, Behind, AccountState

\* So is what apply_transaction leaves there.
LEMMA ApplyBehind ==
  ASSUME TypeOK, StoreNeverForks, NEW h \in Homes, NEW tx \in Tx,
         Sound(tx, "submitted"), Apply(h, tx)
  PROVE  /\ store' \in [Homes -> [Accounts -> AccountState]]
         /\ \A g \in Homes, a \in Accounts : Behind(a, store'[g][a])
<1> DEFINE a0 == Account(tx.step, tx.note)
<1>1. a0 \in Accounts
  BY AccountType DEF Tx
<1>2. Final(tx) \in AccountState /\ Behind(a0, Final(tx))
  BY FinalType DEF Sound
<1>3. store \in [Homes -> [Accounts -> AccountState]]
  BY DEF TypeOK
<1>4. CASE UNCHANGED store
  BY <1>3, <1>4 DEF StoreNeverForks
<1>5. CASE store' = [store EXCEPT ![h][a0] = Final(tx)]
  <2>1. store' \in [Homes -> [Accounts -> AccountState]]
    BY <1>1, <1>2, <1>3, <1>5
  <2>2. \A g \in Homes, a \in Accounts :
          store'[g][a] = IF g = h /\ a = a0 THEN Final(tx) ELSE store[g][a]
    BY <1>1, <1>3, <1>5
  <2> QED
    BY <1>2, <2>1, <2>2 DEF StoreNeverForks
<1> QED
  BY <1>4, <1>5 DEF Apply

\* Every step leaves the local stores typed and behind the node's old state.
LEMMA StoreStep ==
  ASSUME IInv, [Next]_vars
  PROVE  /\ store' \in [Homes -> [Accounts -> AccountState]]
         /\ \A g \in Homes, a \in Accounts : Behind(a, store'[g][a])
<1> USE DEF IInv
<1>0. store \in [Homes -> [Accounts -> AccountState]]
  BY DEF TypeOK
<1>1. CASE UNCHANGED store
  BY <1>0, <1>1 DEF StoreNeverForks
<1>2. ASSUME NEW h \in Homes, store' = [store EXCEPT ![h] = Synced(h)]
      PROVE  /\ store' \in [Homes -> [Accounts -> AccountState]]
             /\ \A g \in Homes, a \in Accounts : Behind(a, store'[g][a])
  <2>1. /\ Synced(h) \in [Accounts -> AccountState]
        /\ \A a \in Accounts : Behind(a, Synced(h)[a])
    BY SyncedBehind
  <2>2. \A g \in Homes : store'[g] = IF g = h THEN Synced(h) ELSE store[g]
    BY <1>0, <1>2
  <2>3. store' \in [Homes -> [Accounts -> AccountState]]
    BY <1>0, <1>2, <2>1
  <2> QED
    BY <2>1, <2>2, <2>3 DEF StoreNeverForks
<1>3. ASSUME NEW n \in FlowNotes, FlowApply(n)
      PROVE  /\ store' \in [Homes -> [Accounts -> AccountState]]
             /\ \A g \in Homes, a \in Accounts : Behind(a, store'[g][a])
  <2>1. PICK tx \in flow[n].tx : Apply(FlowHome, tx)
    BY <1>3 DEF FlowApply
  <2>2. tx \in Tx /\ Sound(tx, "submitted") /\ FlowHome \in Homes
    BY <1>3 DEF FlowApply, TypeOK, InFlightSound, Homes
  <2> QED
    BY <2>1, <2>2, ApplyBehind
<1>4. CASE ServiceApply
  <2>1. PICK tx \in svc.tx : Apply(RelayHome, tx)
    BY <1>4 DEF ServiceApply
  <2>2. tx \in Tx /\ Sound(tx, "submitted") /\ RelayHome \in Homes
    BY <1>4 DEF ServiceApply, TypeOK, InFlightSound, Homes
  <2> QED
    BY <2>1, <2>2, ApplyBehind
<1>5. ASSUME NEW n \in FlowNotes, FlowStart(n)
      PROVE  UNCHANGED store \/ store' = [store EXCEPT ![FlowHome] = Synced(FlowHome)]
  BY <1>5 DEF FlowStart
<1>6. ASSUME NEW n \in FlowNotes, FlowStep(n)
      PROVE  UNCHANGED store \/ FlowStart(n) \/ FlowApply(n)
  BY <1>6 DEF FlowStep, FlowExecute, FlowSubmit, FlowStop
<1>7. CASE ServiceSync
  BY <1>7, <1>2 DEF ServiceSync, Homes
<1>8. CASE \/ UNCHANGED vars
           \/ \E n \in Notes : UserEmits(n)
           \/ ServiceSubmit \/ ServiceRefused \/ ServiceDone \/ ServiceCrash
           \/ \E n \in Notes : ServiceExecute(n) \/ ServiceSkip(n)
  BY <1>8, <1>1 DEF vars, UserEmits, ServiceSubmit, ServiceRefused, ServiceDone,
                    ServiceCrash, ServiceExecute, ServiceSkip
<1>9. FlowHome \in Homes
  BY DEF Homes
<1> QED
  BY <1>1, <1>2, <1>3, <1>4, <1>5, <1>6, <1>7, <1>8, <1>9 DEF Next, ServiceStep

\* Every step keeps the types.
LEMMA TypeStep ==
  ASSUME IInv, [Next]_vars
  PROVE  TypeOK'
<1> USE DEF IInv
<1>1. chain' \in [Accounts -> AccountState] /\ note' \in [Notes -> Ledger!NoteStatus]
  BY NodeStep DEF NodeMonotone, ChainType, NoteType
<1>2. store' \in [Homes -> [Accounts -> AccountState]]
  BY StoreStep
<1>3. flow' \in [FlowNotes -> [phase : FlowPhase, step : Steps, tx : SUBSET Tx]]
  <2>1. ASSUME NEW n \in FlowNotes, FlowStep(n)
        PROVE  flow' \in [FlowNotes -> [phase : FlowPhase, step : Steps, tx : SUBSET Tx]]
    <3> DEFINE FlowRecord == [phase : FlowPhase, step : Steps, tx : SUBSET Tx]
    <3>1. flow[n] \in FlowRecord /\ n \in Notes
      BY NetworkAssumption DEF TypeOK
    <3>2. CASE FlowExecute(n)
      <4> DEFINE tx == [step |-> flow[n].step, note |-> n,
                        base |-> store[FlowHome][Account(flow[n].step, n)]]
      <4>1. tx \in Tx
        BY <3>1, AccountType DEF Tx, TypeOK, Homes
      <4>2. flow' = [flow EXCEPT ![n].phase = "executed", ![n].tx = {tx}]
        BY <3>2 DEF FlowExecute
      <4> HIDE DEF tx
      <4>3. {tx} \in SUBSET Tx /\ "executed" \in FlowPhase
        BY <4>1 DEF FlowPhase
      <4> QED
        BY <3>1, <4>2, <4>3 DEF TypeOK
    <3>3. CASE FlowApply(n)
      BY <3>1, <3>3 DEF FlowApply, TypeOK, FlowPhase, Steps, NoTx
    <3>4. CASE FlowStart(n) \/ FlowSubmit(n) \/ FlowStop(n)
      <4>1. \E p \in FlowPhase, t \in {flow[n].tx, NoTx} :
              flow' = [flow EXCEPT ![n] = [phase |-> p, step |-> flow[n].step, tx |-> t]]
        BY <3>1, <3>4 DEF FlowStart, FlowSubmit, FlowStop, FlowPhase, TypeOK
      <4> QED
        BY <3>1, <4>1 DEF TypeOK, NoTx
    <3> QED
      BY <2>1, <3>2, <3>3, <3>4 DEF FlowStep
  <2>2. CASE UNCHANGED flow
    BY <2>2 DEF TypeOK
  <2> QED
    BY <2>1, <2>2 DEF Next, vars, UserEmits, ServiceStep, ServiceSync, ServiceSubmit,
                      ServiceRefused, ServiceApply, ServiceDone, ServiceCrash,
                      ServiceExecute, ServiceSkip
<1>4. svc' \in [phase : SvcPhase, todo : SUBSET Notes, tx : SUBSET Tx]
  <2>1. ASSUME NEW n \in Notes, ServiceExecute(n)
        PROVE  svc' \in [phase : SvcPhase, todo : SUBSET Notes, tx : SUBSET Tx]
    <3> DEFINE tx == [step |-> "consume", note |-> n, base |-> store[RelayHome][Controller]]
    <3>1. tx \in Tx
      BY DEF Tx, TypeOK, Homes, Accounts, Steps
    <3>2. svc' = [phase |-> "executed", todo |-> svc.todo \ {n}, tx |-> {tx}]
      BY <2>1 DEF ServiceExecute
    <3> HIDE DEF tx
    <3> QED
      BY <3>1, <3>2 DEF TypeOK, SvcPhase
  <2>2. CASE ServiceSync \/ ServiceRefused \/ ServiceCrash
    <3>1. CASE ServiceSync
      <4>1. PICK kept \in SUBSET ScreenedNotes :
              svc' = [phase |-> "scan", tx |-> NoTx,
                      todo |-> {n \in Tagged \cup kept : note[n] = "committed"}]
        BY <3>1 DEF ServiceSync
      <4>2. {n \in Tagged \cup kept : note[n] = "committed"} \subseteq Notes
        BY NetworkAssumption DEF ScreenedNotes
      <4> QED
        BY <4>1, <4>2 DEF SvcPhase, NoTx
    <3>2. CASE ServiceRefused \/ ServiceCrash
      BY <3>2 DEF ServiceRefused, ServiceCrash, TypeOK, SvcPhase, NoTx
    <3> QED
      BY <2>2, <3>1, <3>2
  <2>3. CASE ServiceSubmit \/ ServiceApply \/ ServiceDone \/ \E n \in Notes : ServiceSkip(n)
    BY <2>3 DEF ServiceSubmit, ServiceApply, ServiceDone, ServiceSkip, TypeOK, SvcPhase, NoTx
  <2>4. CASE UNCHANGED svc
    BY <2>4 DEF TypeOK
  <2> QED
    BY <2>1, <2>2, <2>3, <2>4 DEF Next, vars, ServiceStep, UserEmits, FlowStep, FlowStart,
                                  FlowExecute, FlowSubmit, FlowApply, FlowStop
<1>5. crashes' \in 0..MaxCrashes
  <2>1. CASE ServiceCrash
    BY <2>1, NetworkAssumption DEF ServiceCrash, TypeOK
  <2>2. CASE UNCHANGED crashes
    BY <2>2 DEF TypeOK
  <2> QED
    BY <2>1, <2>2 DEF Next, vars, UserEmits, FlowStep, FlowStart, FlowExecute, FlowSubmit,
                      FlowApply, FlowStop, ServiceStep, ServiceSync, ServiceSubmit,
                      ServiceRefused, ServiceApply, ServiceDone, ServiceExecute, ServiceSkip
<1> QED
  BY <1>1, <1>2, <1>3, <1>4, <1>5 DEF TypeOK

\* A transaction that is not submitted now stays as sound as its account.
LEMMA SoundStable ==
  ASSUME NodeMonotone, NEW tx \in Tx, NEW phase, NEW next,
         Sound(tx, phase), next = "submitted" => phase = "submitted"
  PROVE  Runnable(tx.step, tx.note, tx.base)
         /\ (next = "submitted" => Behind(Account(tx.step, tx.note), Final(tx))')
<1>1. Account(tx.step, tx.note) \in Accounts
  BY AccountType DEF Tx
<1>2. Final(tx) \in AccountState
  BY FinalType DEF Sound
<1> QED
  BY <1>1, <1>2 DEF Sound, NodeMonotone

\* A transaction that the node takes in this step is submitted soundly.
LEMMA SoundCommit ==
  ASSUME ChainType, NoteType, NEW tx \in Tx,
         Runnable(tx.step, tx.note, tx.base), Accepted(tx), Commit(tx)
  PROVE  Behind(Account(tx.step, tx.note), Final(tx))'
<1>1. chain'[Account(tx.step, tx.note)] = Final(tx) /\ Final(tx).nonce \in Nat
  BY CommitStep, FinalType DEF AccountState
<1> QED
  BY <1>1 DEF Behind

\* A flow binary's step changes its own state only.
LEMMA FlowLocal ==
  ASSUME TypeOK, NEW m \in FlowNotes, NEW n \in FlowNotes, FlowStep(m), m # n
  PROVE  flow'[n] = flow[n]
BY DEF TypeOK, FlowStep, FlowStart, FlowExecute, FlowSubmit, FlowApply, FlowStop

FlowSound(n) ==
  \A tx \in flow[n].tx :
    tx.note = n /\ tx.step = flow[n].step /\ Sound(tx, flow[n].phase)

SvcSound == \A tx \in svc.tx : tx.step = "consume" /\ Sound(tx, svc.phase)

\* A flow binary's transaction stays sound through its own and others' steps.
LEMMA FlowSoundStep ==
  ASSUME IInv, [Next]_vars, NEW n \in FlowNotes
  PROVE  FlowSound(n)'
<1>0. /\ NodeMonotone /\ FlowSound(n) /\ ChainType /\ NoteType
      /\ flow \in [FlowNotes -> [phase : FlowPhase, step : Steps, tx : SUBSET Tx]]
  BY NodeStep DEF IInv, InFlightSound, FlowSound, TypeOK, ChainType, NoteType
<1>1. CASE flow'[n] = flow[n]
  BY <1>0, <1>1, SoundStable DEF FlowSound, Sound
<1>2. CASE FlowExecute(n)
  <2> DEFINE t == [step |-> flow[n].step, note |-> n,
                   base |-> store[FlowHome][Account(flow[n].step, n)]]
  <2>1. /\ flow'[n].phase = "executed" /\ flow'[n].step = flow[n].step
        /\ flow'[n].tx = {t} /\ Runnable(t.step, t.note, t.base)
    BY <1>0, <1>2 DEF FlowExecute
  <2> QED
    BY <2>1 DEF FlowSound, Sound
<1>3. CASE FlowSubmit(n)
  <2>1. PICK tx \in flow[n].tx : Accepted(tx) /\ Commit(tx)
    BY <1>3 DEF FlowSubmit
  <2>2. flow'[n].tx = flow[n].tx /\ flow'[n].step = flow[n].step
    BY <1>0, <1>3 DEF FlowSubmit
  <2>3. ASSUME NEW t \in flow[n].tx
        PROVE  t.note = n /\ t.step = flow[n].step
               /\ Runnable(t.step, t.note, t.base)
               /\ Behind(Account(t.step, t.note), Final(t))'
    <3>1. /\ t \in Tx /\ tx \in Tx /\ t.note = tx.note /\ t.step = tx.step
          /\ Runnable(t.step, t.note, t.base)
          /\ Runnable(tx.step, tx.note, tx.base)
      BY <1>0, <2>1, <2>3 DEF FlowSound, Sound
    <3>2. t = tx
      BY <2>1, <2>3 DEF IInv, OneTx
    <3>3. Behind(Account(tx.step, tx.note), Final(tx))'
      BY <1>0, <2>1, <3>1, SoundCommit
    <3> QED
      BY <1>0, <2>3, <3>1, <3>2, <3>3 DEF FlowSound
  <2> QED
    BY <2>2, <2>3 DEF FlowSound, Sound
<1>4. CASE FlowApply(n) \/ FlowStop(n)
  BY <1>0, <1>4 DEF FlowApply, FlowStop, FlowSound, NoTx
<1>5. CASE FlowStart(n)
  BY <1>0, <1>5, SoundStable DEF FlowStart, FlowSound, Sound
<1>6. ASSUME NEW m \in FlowNotes, FlowStep(m), m # n
      PROVE  flow'[n] = flow[n]
  BY <1>6, FlowLocal DEF IInv
<1>7. CASE \E m \in FlowNotes : FlowStep(m)
  BY <1>1, <1>2, <1>3, <1>4, <1>5, <1>6, <1>7 DEF FlowStep
<1>8. CASE UNCHANGED flow
  BY <1>1, <1>8
<1> QED
  BY <1>7, <1>8 DEF Next, vars, UserEmits, ServiceStep, ServiceSync, ServiceSubmit,
                    ServiceRefused, ServiceApply, ServiceDone, ServiceCrash,
                    ServiceExecute, ServiceSkip

\* So does the service's.
LEMMA SvcSoundStep ==
  ASSUME IInv, [Next]_vars
  PROVE  SvcSound'
<1>0. /\ NodeMonotone /\ SvcSound /\ ChainType /\ NoteType
      /\ svc \in [phase : SvcPhase, todo : SUBSET Notes, tx : SUBSET Tx]
  BY NodeStep DEF IInv, InFlightSound, SvcSound, TypeOK, ChainType, NoteType
<1>1. CASE UNCHANGED svc
  BY <1>0, <1>1, SoundStable DEF SvcSound, Sound
<1>2. ASSUME NEW n \in Notes, ServiceExecute(n)
      PROVE  SvcSound'
  <2> DEFINE t == [step |-> "consume", note |-> n, base |-> store[RelayHome][Controller]]
  <2>1. svc'.phase = "executed" /\ svc'.tx = {t} /\ Runnable(t.step, t.note, t.base)
    BY <1>2 DEF ServiceExecute, Runnable
  <2> QED
    BY <2>1 DEF SvcSound, Sound
<1>3. CASE ServiceSubmit
  <2>1. PICK tx \in svc.tx : Accepted(tx) /\ Commit(tx)
    BY <1>3 DEF ServiceSubmit
  <2>2. svc'.tx = svc.tx
    BY <1>3 DEF ServiceSubmit
  <2>3. \A t \in svc.tx : t = tx
    BY <2>1 DEF IInv, OneTx
  <2>4. tx \in Tx /\ tx.step = "consume" /\ Runnable(tx.step, tx.note, tx.base)
    BY <1>0, <2>1 DEF SvcSound, Sound
  <2>5. Behind(Account(tx.step, tx.note), Final(tx))'
    BY <1>0, <2>1, <2>4, SoundCommit
  <2> QED
    BY <2>2, <2>3, <2>4, <2>5 DEF SvcSound, Sound
<1>4. CASE ServiceSync \/ ServiceRefused \/ ServiceApply \/ ServiceCrash
  <2>1. CASE ServiceApply
    <3>1. svc' = [svc EXCEPT !.phase = "scan", !.tx = {}]
      BY <2>1 DEF ServiceApply, NoTx
    <3>2. svc'.tx = {}
      BY <1>0, <3>1
    <3> QED
      BY <3>2 DEF SvcSound
  <2>2. CASE ServiceSync \/ ServiceRefused \/ ServiceCrash
    BY <2>2 DEF ServiceSync, ServiceRefused, ServiceCrash, SvcSound, NoTx
  <2> QED
    BY <1>4, <2>1, <2>2
<1>5. CASE ServiceDone \/ \E n \in Notes : ServiceSkip(n)
  <2>1. svc'.tx = svc.tx /\ (svc'.phase = "submitted" => svc.phase = "submitted")
    BY <1>0, <1>5 DEF ServiceDone, ServiceSkip
  <2> QED
    BY <1>0, <2>1, SoundStable DEF SvcSound, Sound
<1> QED
  BY <1>1, <1>2, <1>3, <1>4, <1>5
     DEF Next, vars, ServiceStep, UserEmits, FlowStep, FlowStart, FlowExecute, FlowSubmit,
         FlowApply, FlowStop

\* No process gets a second transaction in flight.
LEMMA OneTxStep ==
  ASSUME IInv, [Next]_vars
  PROVE  OneTx'
<1>0. /\ flow \in [FlowNotes -> [phase : FlowPhase, step : Steps, tx : SUBSET Tx]]
      /\ OneTx
  BY DEF IInv, TypeOK
<1>1. ASSUME NEW m \in FlowNotes, FlowStep(m), NEW n \in FlowNotes
      PROVE  \A s, t \in flow'[n].tx : s = t
  <2>1. CASE m # n
    <3>1. flow'[n] = flow[n]
      BY <1>1, <2>1, FlowLocal DEF IInv
    <3> QED
      BY <1>0, <3>1 DEF OneTx
  <2>2. CASE m = n
    BY <1>0, <1>1, <2>2
       DEF OneTx, FlowStep, FlowStart, FlowExecute, FlowSubmit, FlowApply, FlowStop, NoTx
  <2> QED
    BY <2>1, <2>2
<1>2. ASSUME ServiceStep \/ ServiceCrash
      PROVE  UNCHANGED flow /\ \A s, t \in svc'.tx : s = t
  <2>0. svc \in [phase : SvcPhase, todo : SUBSET Notes, tx : SUBSET Tx]
    BY DEF IInv, TypeOK
  <2>1. CASE ServiceSync \/ ServiceRefused \/ ServiceApply \/ ServiceCrash
    <3>1. CASE ServiceApply
      <4>1. svc' = [svc EXCEPT !.phase = "scan", !.tx = {}] /\ UNCHANGED flow
        BY <3>1 DEF ServiceApply, NoTx
      <4> QED
        BY <2>0, <4>1
    <3>2. CASE ServiceSync \/ ServiceRefused \/ ServiceCrash
      BY <3>2 DEF ServiceSync, ServiceRefused, ServiceCrash, NoTx
    <3> QED
      BY <2>1, <3>1, <3>2
  <2>2. CASE ServiceSubmit \/ ServiceDone \/ \E n \in Notes : ServiceSkip(n)
    <3>1. svc'.tx = svc.tx /\ UNCHANGED flow
      BY <2>0, <2>2 DEF ServiceSubmit, ServiceDone, ServiceSkip
    <3> QED
      BY <1>0, <3>1 DEF OneTx
  <2>3. ASSUME NEW n \in Notes, ServiceExecute(n)
        PROVE  UNCHANGED flow /\ \A s, t \in svc'.tx : s = t
    <3> DEFINE x == [step |-> "consume", note |-> n, base |-> store[RelayHome][Controller]]
    <3>1. svc'.tx = {x} /\ UNCHANGED flow
      BY <2>3 DEF ServiceExecute
    <3> QED
      BY <3>1
  <2> QED
    BY <1>2, <2>1, <2>2, <2>3 DEF ServiceStep
<1>3. CASE UNCHANGED <<flow, svc>>
  BY <1>0, <1>3 DEF OneTx
<1>4. CASE \E m \in FlowNotes : FlowStep(m)
  <2>1. UNCHANGED svc
    BY <1>4 DEF FlowStep, FlowStart, FlowExecute, FlowSubmit, FlowApply, FlowStop
  <2> QED
    BY <1>0, <1>1, <1>4, <2>1 DEF OneTx
<1>5. CASE ServiceStep \/ ServiceCrash
  BY <1>0, <1>2, <1>5 DEF OneTx
<1> QED
  BY <1>3, <1>4, <1>5 DEF Next, vars, UserEmits

\* A flow binary reports success only after the node consumed its note.
LEMMA ReportedStep ==
  ASSUME IInv, [Next]_vars
  PROVE  Reported'
<1>0. /\ flow \in [FlowNotes -> [phase : FlowPhase, step : Steps, tx : SUBSET Tx]]
      /\ Reported /\ FlowNotes \subseteq Notes
      /\ \A n \in Notes : note[n] = "consumed" => note'[n] = "consumed"
  BY NodeStep, NetworkAssumption DEF IInv, TypeOK, NodeMonotone
<1>1. ASSUME NEW n \in FlowNotes, flow'[n] = flow[n]
      PROVE  /\ flow'[n].phase = "done" => note'[n] = "consumed"
             /\ flow'[n].phase = "submitted" /\ flow'[n].step = "consume"
                => note'[n] = "consumed"
  BY <1>0, <1>1 DEF Reported
<1>2. ASSUME NEW m \in FlowNotes, FlowStep(m), NEW n \in FlowNotes
      PROVE  /\ flow'[n].phase = "done" => note'[n] = "consumed"
             /\ flow'[n].phase = "submitted" /\ flow'[n].step = "consume"
                => note'[n] = "consumed"
  <2>1. CASE m # n
    <3>1. flow'[n] = flow[n]
      BY <1>2, <2>1, FlowLocal DEF IInv
    <3> QED
      BY <1>1, <3>1
  <2>2. CASE m = n /\ FlowSubmit(n)
    <3>1. PICK tx \in flow[n].tx : Accepted(tx) /\ Commit(tx)
      BY <2>2 DEF FlowSubmit
    <3>2. /\ tx \in Tx /\ tx.note = n /\ tx.step = flow[n].step
          /\ Runnable(tx.step, tx.note, tx.base)
      BY <1>0, <3>1 DEF IInv, InFlightSound, Sound
    <3>3. flow[n].step = "consume" => note'[n] = "consumed"
      BY <3>1, <3>2, CommitStep DEF IInv, TypeOK, ChainType, NoteType
    <3> QED
      BY <1>0, <2>2, <3>3 DEF FlowSubmit
  <2>3. CASE m = n /\ FlowApply(n)
    <3>1. flow[n].step \in {"emit", "consume"} /\ flow[n].phase = "submitted"
      BY <1>0, <2>3 DEF FlowApply, Steps
    <3> QED
      BY <1>0, <2>3, <3>1 DEF FlowApply, Reported
  <2>4. CASE m = n /\ (FlowStart(n) \/ FlowExecute(n) \/ FlowStop(n))
    BY <1>0, <2>4 DEF FlowStart, FlowExecute, FlowStop
  <2> QED
    BY <1>2, <2>1, <2>2, <2>3, <2>4 DEF FlowStep
<1>3. CASE \E m \in FlowNotes : FlowStep(m)
  BY <1>2, <1>3 DEF Reported
<1>4. CASE UNCHANGED flow
  BY <1>1, <1>4 DEF Reported
<1> QED
  BY <1>3, <1>4 DEF Next, vars, UserEmits, ServiceStep, ServiceSync, ServiceSubmit,
                    ServiceRefused, ServiceApply, ServiceDone, ServiceCrash,
                    ServiceExecute, ServiceSkip

\* The invariant is inductive.
LEMMA StepIInv == IInv /\ [Next]_vars => IInv'
<1> SUFFICES ASSUME IInv, [Next]_vars
             PROVE  IInv'
  OBVIOUS
<1>1. TypeOK'
  BY TypeStep
<1>2. StoreNeverForks'
  <2>1. NodeMonotone
    BY NodeStep DEF IInv
  <2>2. /\ store' \in [Homes -> [Accounts -> AccountState]]
        /\ \A h \in Homes, a \in Accounts : Behind(a, store'[h][a])
    BY StoreStep
  <2>3. ASSUME NEW h \in Homes, NEW a \in Accounts
        PROVE  Behind(a, store[h][a])'
    <3>1. store'[h][a] \in AccountState /\ Behind(a, store'[h][a])
      BY <2>2
    <3>2. \A s \in AccountState : Behind(a, s) => Behind(a, s)'
      BY <2>1 DEF NodeMonotone
    <3> QED
      BY <3>1, <3>2 DEF Behind
  <2> QED
    BY <2>3 DEF StoreNeverForks
<1>3. InFlightSound'
  BY FlowSoundStep, SvcSoundStep DEF FlowSound, SvcSound, InFlightSound
<1>4. Reported' /\ OneTx'
  BY ReportedStep, OneTxStep
<1> QED
  BY <1>1, <1>2, <1>3, <1>4 DEF IInv

---------------------------------------------------------------------------
(* Theorems *)

\* The invariant holds in every behaviour.
THEOREM Invariance == Spec => []IInv
BY InitIInv, StepIInv, PTL DEF Spec

\* Every variable keeps its type.
THEOREM TypeCorrect == Spec => []TypeOK
<1>1. IInv => TypeOK
  BY DEF IInv
<1> QED
  BY <1>1, Invariance, PTL

\* No local store ever holds a state its account never had.
THEOREM StoresNeverFork == Spec => []StoreNeverForks
<1>1. IInv => StoreNeverForks
  BY DEF IInv
<1> QED
  BY <1>1, Invariance, PTL

\* Transactions in flight ran on a real base, submitted ones are history.
THEOREM FlightsSound == Spec => []InFlightSound
<1>1. IInv => InFlightSound
  BY DEF IInv
<1> QED
  BY <1>1, Invariance, PTL

\* The clients, stores and submissions implement the ledger of atomic steps.
THEOREM Refinement == Spec => ImplementsLedger
<1>1. Init => Ledger!Init
  <2> SUFFICES ASSUME Init
               PROVE  Ledger!Init
    OBVIOUS
  <2>1. note = [n \in Notes |-> "unissued"]
    BY DEF Init
  <2>2. \A a \in Accounts : chain[a].vault = IF a = Controller THEN {} ELSE Funds[a]
    BY DEF Init
  <2>3. chain[Controller].position = [u \in Users |-> 0]
    BY DEF Init, Accounts
  <2> QED
    BY <2>1, <2>2, <2>3, SameScripts DEF Ledger!Init
<1>2. IInv /\ [Next]_vars => [Ledger!Next]_(Ledger!ledgerVars)
  BY StepImplements DEF IInv, ledgerState, Ledger!ledgerVars
<1> QED
  BY <1>1, <1>2, Invariance, PTL DEF Spec, ImplementsLedger, Ledger!Spec

\* The two instances of the ledger are the same specification.
LEMMA SameLedger ==
  /\ Ledger!Init => LedgerProofs!Init
  /\ [Ledger!Next]_(Ledger!ledgerVars) => [LedgerProofs!Next]_(LedgerProofs!ledgerVars)
  /\ LedgerProofs!Conserved => Conserved
  /\ LedgerProofs!PositionsBacked => PositionsBacked
  /\ LedgerProofs!SoleCredit => SoleCredit
  /\ LedgerProofs!Arrived => Ledger!Arrived
<1>1. /\ \A n : LedgerProofs!Executable(n) = Executable(n)
      /\ \A n : LedgerProofs!Credits(n) = Credits(n)
      /\ \A n : LedgerProofs!Quotient(n) = Quotient(n)
      /\ LedgerProofs!Accounts = Accounts
  BY DEF LedgerProofs!Executable, Executable, LedgerProofs!Credits, Credits,
         LedgerProofs!Quotient, Quotient, LedgerProofs!Accounts, Accounts,
         LedgerProofs!Calls, Calls, LedgerProofs!Divisor, Divisor,
         LedgerProofs!Dividend, Dividend, LedgerProofs!felt_div, felt_div,
         LedgerProofs!FeltMul, FeltMul
<1>2. Ledger!Init => LedgerProofs!Init
  BY <1>1, SameScripts DEF Ledger!Init, LedgerProofs!Init
<1>3. ASSUME NEW n \in Notes
      PROVE  /\ Ledger!Emit(n) => LedgerProofs!Emit(n)
             /\ Ledger!Consume(n) => LedgerProofs!Consume(n)
  BY <1>1, SameScripts
     DEF Ledger!Emit, LedgerProofs!Emit, Ledger!Consume, LedgerProofs!Consume
<1>4. [Ledger!Next]_(Ledger!ledgerVars) => [LedgerProofs!Next]_(LedgerProofs!ledgerVars)
  BY <1>3 DEF Ledger!Next, LedgerProofs!Next, Ledger!ledgerVars, LedgerProofs!ledgerVars
<1>5. LedgerProofs!Conserved => Conserved
  BY <1>1, SameScripts
     DEF Conserved, LedgerProofs!Conserved, Ledger!Conserved,
         LedgerProofs!SomeHolder, Ledger!SomeHolder, LedgerProofs!OneHolder,
         Ledger!OneHolder, LedgerProofs!InNote, Ledger!InNote
<1>6. LedgerProofs!PositionsBacked => PositionsBacked
  BY <1>1, SameScripts
     DEF PositionsBacked, LedgerProofs!PositionsBacked, Ledger!PositionsBacked
<1>7. LedgerProofs!Arrived => Ledger!Arrived
  BY DEF LedgerProofs!Arrived, Ledger!Arrived
<1>8. LedgerProofs!SoleCredit => SoleCredit
  BY <1>1, SameScripts
     DEF SoleCredit, LedgerProofs!SoleCredit, Ledger!SoleCredit,
         LedgerProofs!Credited, Ledger!Credited
<1> QED
  BY <1>2, <1>4, <1>5, <1>6, <1>7, <1>8

\* What LedgerStep proves of the ledger holds of the network through the
\* refinement: no lot is lost, doubled or given back, positions are backed, a
\* sole deposit is credited.
LEMMA LedgerProperties ==
  Spec => [](Conserved /\ PositionsBacked /\ SoleCredit /\ Ledger!Arrived)
<1>1. Spec => Ledger!Spec
  BY Refinement DEF ImplementsLedger
<1>2. Ledger!Init => LedgerProofs!LedgerInv
  BY SameLedger, LedgerProofs!LedgerInit, LedgerAssumptions
<1>3. LedgerProofs!LedgerInv /\ [Ledger!Next]_(Ledger!ledgerVars) => LedgerProofs!LedgerInv'
  BY SameLedger, LedgerProofs!LedgerStep, LedgerAssumptions
<1>4. LedgerProofs!LedgerInv => Conserved /\ PositionsBacked /\ SoleCredit /\ Ledger!Arrived
  BY SameLedger DEF LedgerProofs!LedgerInv
<1> QED
  BY <1>1, <1>2, <1>3, <1>4, PTL DEF Ledger!Spec

\* Each lot is in exactly one vault or one committed note.
THEOREM NetworkConserves == Spec => []Conserved
BY LedgerProperties, PTL

\* Every position goes back to a consumed note of its user.
THEOREM NetworkBacked == Spec => []PositionsBacked
BY LedgerProperties, PTL

\* A user with one consumed deposit has its quotient in slot 10.
THEOREM NetworkCreditsOnce == Spec => []SoleCredit
BY LedgerProperties, PTL

\* A flow binary that reports success has deposited.
THEOREM DoneIsTrue == Spec => []DoneMeansDeposited
<1>1. IInv /\ Ledger!Arrived => DoneMeansDeposited
  <2> SUFFICES ASSUME IInv, Ledger!Arrived, NEW n \in FlowNotes, flow[n].phase = "done"
               PROVE  note[n] = "consumed" /\ Note[n].lots \subseteq chain[Controller].vault
    BY DEF DoneMeansDeposited
  <2>1. note[n] = "consumed"
    BY DEF IInv, Reported
  <2>2. n \in Notes /\ Controller \in Accounts
    BY NetworkAssumption DEF Accounts
  <2> QED
    BY <2>1, <2>2 DEF Ledger!Arrived
<1> QED
  BY <1>1, Invariance, LedgerProperties, PTL
---------------------------------------------------------------------------
(* A private controller that drifted *)

\* What Drifted says of the transactions of one process.
Stale(proc) ==
  \A tx \in proc.tx : tx.step = "consume" =>
    /\ proc.phase = "executed" => tx.base # chain[Controller]
    /\ proc.phase = "submitted" => Final(tx) # chain[Controller]

LEMMA DriftedParts ==
  ASSUME Drifted
  PROVE  /\ \A h \in Homes : store[h][Controller] # chain[Controller]
         /\ \A n \in FlowNotes : Stale(flow[n])
         /\ Stale(svc)
<1>1. ASSUME NEW phase, NEW tx
      PROVE  tx \in InPhase(phase) <=>
               /\ tx.step = "consume"
               /\ \/ svc.phase = phase /\ tx \in svc.tx
                  \/ \E n \in FlowNotes : flow[n].phase = phase /\ tx \in flow[n].tx
  BY DEF InPhase
<1> QED
  BY <1>1 DEF Drifted, Stale

LEMMA DriftedAgain ==
  ASSUME \A h \in Homes : store'[h][Controller] # chain'[Controller],
         \A n \in FlowNotes : Stale(flow[n])', Stale(svc)'
  PROVE  Drifted'
<1>1. ASSUME NEW phase, NEW tx \in InPhase(phase)'
      PROVE  /\ tx.step = "consume"
             /\ \/ svc'.phase = phase /\ tx \in svc'.tx
                \/ \E n \in FlowNotes : flow'[n].phase = phase /\ tx \in flow'[n].tx
  BY DEF InPhase
<1> QED
  BY <1>1 DEF Drifted, Stale

\* A user's transaction leaves the controller alone.
LEMMA EmitLeaves ==
  ASSUME ChainType, NEW tx \in Tx, tx.step = "emit", Commit(tx)
  PROVE  chain'[Controller] = chain[Controller]
<1>1. Account(tx.step, tx.note) # Controller
  BY NotesAssumption DEF Tx, Account, NoteRecord
<1>2. Controller \in Accounts
  BY DEF Accounts
<1> QED
  BY <1>1, <1>2 DEF Commit, ChainType

\* The node refuses what any process holds of the controller.
LEMMA ControllerStays ==
  ASSUME IInv, Drifted, [Next]_vars
  PROVE  chain'[Controller] = chain[Controller]
<1>0. ChainType /\ (\A n \in FlowNotes : Stale(flow[n])) /\ Stale(svc)
  BY DriftedParts DEF IInv, TypeOK, ChainType
<1>1. ASSUME NEW n \in FlowNotes, FlowSubmit(n)
      PROVE  chain'[Controller] = chain[Controller]
  <2>1. PICK tx \in flow[n].tx : Accepted(tx) /\ Commit(tx)
    BY <1>1 DEF FlowSubmit
  <2>2. tx \in Tx /\ tx.step \in Steps /\ flow[n].phase = "executed"
    BY <1>1 DEF IInv, TypeOK, Tx, FlowSubmit
  <2>3. tx.step # "consume"
    BY <1>0, <2>1, <2>2 DEF Stale, Accepted, Account
  <2>4. tx.step = "emit"
    BY <2>2, <2>3 DEF Steps
  <2> QED
    BY <1>0, <2>1, <2>2, <2>4, EmitLeaves
<1>2. ASSUME NEW n \in Notes, UserEmits(n)
      PROVE  chain'[Controller] = chain[Controller]
  <2> DEFINE tx == [step |-> "emit", note |-> n, base |-> chain[Note[n].user]]
  <2>1. tx \in Tx /\ tx.step = "emit"
    BY <1>0, NotesAssumption DEF Tx, Steps, ChainType, NoteRecord, Accounts
  <2>2. Commit(tx)
    BY <1>2 DEF UserEmits
  <2> HIDE DEF tx
  <2> QED
    BY <1>0, <2>1, <2>2, EmitLeaves
<1>3. ~ ServiceSubmit
  <2> SUFFICES ASSUME ServiceSubmit PROVE FALSE
    OBVIOUS
  <2>1. PICK tx \in svc.tx : Accepted(tx)
    BY DEF ServiceSubmit
  <2>2. tx.step = "consume" /\ svc.phase = "executed"
    BY <2>1 DEF IInv, InFlightSound, ServiceSubmit
  <2> QED
    BY <1>0, <2>1, <2>2 DEF Stale, Accepted, Account
<1>4. CASE UNCHANGED chain
  BY <1>4
<1>5. ASSUME NEW n \in FlowNotes, FlowStep(n)
      PROVE  FlowSubmit(n) \/ UNCHANGED chain
  BY <1>5 DEF FlowStep, FlowStart, FlowExecute, FlowApply, FlowStop
<1>6. CASE ServiceStep \/ ServiceCrash \/ UNCHANGED vars
  BY <1>3, <1>4, <1>6 DEF ServiceStep, ServiceCrash, vars, ServiceSync, ServiceRefused,
                          ServiceApply, ServiceDone, ServiceExecute, ServiceSkip
<1> QED
  BY <1>1, <1>2, <1>4, <1>5, <1>6 DEF Next

\* No store gets the controller's present state: a sync does not fetch it, and
\* what is applied is stale.
LEMMA StoresStale ==
  ASSUME IInv, Drifted, [Next]_vars, Controller \notin Public, NEW h \in Homes
  PROVE  store'[h][Controller] # chain[Controller]
<1>0. /\ \A g \in Homes : store[g][Controller] # chain[Controller]
      /\ (\A n \in FlowNotes : Stale(flow[n])) /\ Stale(svc)
      /\ store \in [Homes -> [Accounts -> AccountState]]
      /\ Controller \in Accounts /\ FlowHome \in Homes /\ RelayHome \in Homes
  BY DriftedParts DEF IInv, TypeOK, Accounts, Homes
<1>1. CASE UNCHANGED store
  BY <1>0, <1>1
<1>2. ASSUME NEW g \in Homes, store' = [store EXCEPT ![g] = Synced(g)]
      PROVE  store'[h][Controller] # chain[Controller]
  <2>1. Synced(g)[Controller] = store[g][Controller]
    BY <1>0 DEF Synced
  <2>2. store'[h] = IF h = g THEN Synced(g) ELSE store[h]
    BY <1>0, <1>2
  <2> QED
    BY <1>0, <2>1, <2>2
<1>3. ASSUME NEW g \in Homes, NEW tx \in Tx, Apply(g, tx),
             tx.step = "consume" => Final(tx) # chain[Controller]
      PROVE  store'[h][Controller] # chain[Controller]
  <2> DEFINE a == Account(tx.step, tx.note)
  <2>1. CASE UNCHANGED store
    BY <1>1, <2>1
  <2>2. CASE store' = [store EXCEPT ![g][a] = Final(tx)]
    <3>1. store'[h][Controller] = IF h = g /\ a = Controller THEN Final(tx)
                                  ELSE store[h][Controller]
      BY <1>0, <2>2
    <3>2. a = Controller => tx.step = "consume"
      BY NotesAssumption DEF Tx, Steps, Account, NoteRecord
    <3> QED
      BY <1>0, <1>3, <3>1, <3>2
  <2> QED
    BY <1>3, <2>1, <2>2 DEF Apply
<1>4. ASSUME NEW n \in FlowNotes, FlowApply(n)
      PROVE  store'[h][Controller] # chain[Controller]
  <2>1. PICK tx \in flow[n].tx : Apply(FlowHome, tx)
    BY <1>4 DEF FlowApply
  <2>2. tx \in Tx /\ flow[n].phase = "submitted"
    BY <1>4 DEF IInv, TypeOK, FlowApply
  <2> QED
    BY <1>0, <1>3, <2>1, <2>2 DEF Stale
<1>5. CASE ServiceApply
  <2>1. PICK tx \in svc.tx : Apply(RelayHome, tx)
    BY <1>5 DEF ServiceApply
  <2>2. tx \in Tx /\ svc.phase = "submitted"
    BY <1>5 DEF IInv, TypeOK, ServiceApply
  <2> QED
    BY <1>0, <1>3, <2>1, <2>2 DEF Stale
<1>6. ASSUME NEW n \in FlowNotes, FlowStep(n)
      PROVE  \/ UNCHANGED store
             \/ store' = [store EXCEPT ![FlowHome] = Synced(FlowHome)]
             \/ FlowApply(n)
  BY <1>6 DEF FlowStep, FlowStart, FlowExecute, FlowSubmit, FlowStop
<1>7. CASE ServiceStep
  BY <1>0, <1>1, <1>2, <1>5, <1>7
     DEF ServiceStep, ServiceSync, ServiceSubmit, ServiceRefused, ServiceDone,
         ServiceExecute, ServiceSkip
<1>8. CASE UNCHANGED vars \/ ServiceCrash \/ \E n \in Notes : UserEmits(n)
  BY <1>1, <1>8 DEF vars, ServiceCrash, UserEmits
<1> QED
  BY <1>0, <1>1, <1>2, <1>4, <1>6, <1>7, <1>8 DEF Next

\* A flow binary executes on a stale store and submits nothing of the
\* controller, so what it holds stays stale.
LEMMA FlowStale ==
  ASSUME IInv, Drifted, [Next]_vars, NEW n \in FlowNotes
  PROVE  Stale(flow[n])'
<1>0. /\ \A g \in Homes : store[g][Controller] # chain[Controller]
      /\ Stale(flow[n]) /\ FlowHome \in Homes
      /\ chain'[Controller] = chain[Controller]
      /\ flow \in [FlowNotes -> [phase : FlowPhase, step : Steps, tx : SUBSET Tx]]
  BY DriftedParts, ControllerStays DEF IInv, TypeOK, Homes
<1>1. CASE flow'[n] = flow[n]
  BY <1>0, <1>1 DEF Stale
<1>2. CASE FlowStart(n)
  <2>1. flow'[n].phase = "ready"
    BY <1>0, <1>2 DEF FlowStart
  <2> QED
    BY <2>1 DEF Stale
<1>3. CASE FlowExecute(n)
  <2> DEFINE tx == [step |-> flow[n].step, note |-> n,
                    base |-> store[FlowHome][Account(flow[n].step, n)]]
  <2>1. flow'[n].phase = "executed" /\ flow'[n].tx = {tx}
    BY <1>0, <1>3 DEF FlowExecute
  <2>2. tx.step = "consume" => tx.base # chain[Controller]
    BY <1>0 DEF Account
  <2> HIDE DEF tx
  <2> QED
    BY <1>0, <2>1, <2>2 DEF Stale
<1>4. CASE FlowSubmit(n)
  <2>1. PICK tx \in flow[n].tx : Accepted(tx)
    BY <1>4 DEF FlowSubmit
  <2>2. flow[n].phase = "executed" /\ tx.step = flow[n].step
        /\ \A t \in flow[n].tx : t.step = flow[n].step
    BY <1>4, <2>1 DEF FlowSubmit, IInv, InFlightSound
  <2>3. flow[n].step # "consume"
    BY <1>0, <2>1, <2>2 DEF Stale, Accepted, Account
  <2>4. flow'[n].tx = flow[n].tx
    BY <1>0, <1>4 DEF FlowSubmit
  <2> QED
    BY <2>2, <2>3, <2>4 DEF Stale
<1>5. CASE FlowApply(n) \/ FlowStop(n)
  <2>1. flow'[n].tx = {}
    BY <1>0, <1>5 DEF FlowApply, FlowStop, NoTx
  <2> QED
    BY <2>1 DEF Stale
<1>6. ASSUME NEW m \in FlowNotes, FlowStep(m), m # n
      PROVE  flow'[n] = flow[n]
  BY <1>6, FlowLocal DEF IInv
<1>7. CASE UNCHANGED vars \/ ServiceCrash \/ ServiceStep \/ \E m \in Notes : UserEmits(m)
  BY <1>1, <1>7 DEF vars, ServiceCrash, UserEmits, ServiceStep, ServiceSync, ServiceSubmit,
                    ServiceRefused, ServiceApply, ServiceDone, ServiceExecute, ServiceSkip
<1> QED
  BY <1>1, <1>2, <1>3, <1>4, <1>5, <1>6, <1>7 DEF Next, FlowStep

LEMMA ServiceStale ==
  ASSUME IInv, Drifted, [Next]_vars
  PROVE  Stale(svc)'
<1>0. /\ \A g \in Homes : store[g][Controller] # chain[Controller]
      /\ Stale(svc) /\ RelayHome \in Homes
      /\ chain'[Controller] = chain[Controller]
      /\ svc \in [phase : SvcPhase, todo : SUBSET Notes, tx : SUBSET Tx]
  BY DriftedParts, ControllerStays DEF IInv, TypeOK, Homes
<1>1. CASE svc' = svc
  BY <1>0, <1>1 DEF Stale
<1>2. ASSUME NEW n \in Notes, ServiceExecute(n)
      PROVE  Stale(svc)'
  <2> DEFINE tx == [step |-> "consume", note |-> n, base |-> store[RelayHome][Controller]]
  <2>1. svc'.phase = "executed" /\ svc'.tx = {tx}
    BY <1>2 DEF ServiceExecute
  <2>2. tx.base # chain[Controller]
    BY <1>0
  <2> HIDE DEF tx
  <2> QED
    BY <1>0, <2>1, <2>2 DEF Stale
<1>3. ~ ServiceSubmit
  <2> SUFFICES ASSUME ServiceSubmit PROVE FALSE
    OBVIOUS
  <2>1. PICK tx \in svc.tx : Accepted(tx)
    BY DEF ServiceSubmit
  <2>2. tx.step = "consume" /\ svc.phase = "executed"
    BY <2>1 DEF IInv, InFlightSound, ServiceSubmit
  <2> QED
    BY <1>0, <2>1, <2>2 DEF Stale, Accepted, Account
<1>4. CASE ServiceSync \/ ServiceRefused \/ ServiceApply \/ ServiceCrash
  <2>1. CASE ServiceApply
    <3>1. svc' = [phase |-> "scan", todo |-> svc.todo, tx |-> {}]
      BY <1>0, <2>1 DEF ServiceApply, NoTx
    <3> QED
      BY <3>1 DEF Stale
  <2>2. CASE ServiceSync \/ ServiceRefused \/ ServiceCrash
    <3>1. svc'.tx = {}
      BY <2>2 DEF ServiceSync, ServiceRefused, ServiceCrash, NoTx
    <3> QED
      BY <3>1 DEF Stale
  <2> QED
    BY <1>4, <2>1, <2>2
<1>5. CASE ServiceDone \/ \E n \in Notes : ServiceSkip(n)
  <2>1. svc'.phase \in {"idle", "scan"}
    BY <1>0, <1>5 DEF ServiceDone, ServiceSkip
  <2> QED
    BY <2>1 DEF Stale
<1>6. CASE UNCHANGED vars \/ (\E n \in FlowNotes : FlowStep(n)) \/ \E n \in Notes : UserEmits(n)
  BY <1>1, <1>6 DEF vars, UserEmits, FlowStep, FlowStart, FlowExecute, FlowSubmit,
                    FlowApply, FlowStop
<1> QED
  BY <1>2, <1>3, <1>4, <1>5, <1>6 DEF Next, ServiceStep

\* Once every store of a private controller is behind and nothing on its way
\* would help, no step of any client moves it again or brings a store up to
\* date: why operator accounts should be public.
THEOREM DriftLasts ==
  ASSUME Controller \notin Public
  PROVE  Spec => DriftIsPermanent
<1>1. ASSUME IInv, [Next]_vars, Drifted
      PROVE  Drifted' /\ chain'[Controller] = chain[Controller]
  <2>1. chain'[Controller] = chain[Controller]
    BY <1>1, ControllerStays
  <2>2. \A h \in Homes : store'[h][Controller] # chain'[Controller]
    BY <1>1, <2>1, StoresStale
  <2>3. (\A n \in FlowNotes : Stale(flow[n])') /\ Stale(svc)'
    BY <1>1, FlowStale, ServiceStale
  <2> QED
    BY <2>1, <2>2, <2>3, DriftedAgain
<1>2. IInv /\ [Next]_vars => [Drifted => Drifted' /\ chain'[Controller] = chain[Controller]]_vars
  BY <1>1
<1> QED
  BY <1>2, Invariance, PTL DEF Spec, DriftIsPermanent
---------------------------------------------------------------------------
(* What the documented credit is true of *)

\* Where v2 notes do not occur every slot-10 entry is the amount the note's
\* formula documents: the order of v2's stack is all that stands against it.
THEOREM CreditsDocumentedWithoutV2 ==
  ASSUME \A n \in Notes : Note[n].script # "deposit_v2"
  PROVE  Spec => []CreditsAsDocumented
<1>1. PositionsBacked => CreditsAsDocumented
  <2> SUFFICES ASSUME PositionsBacked, NEW u \in Users, chain[Controller].position[u] # 0
               PROVE  \E n \in Notes : /\ note[n] = "consumed"
                                       /\ Note[n].user = u
                                       /\ Credits(Note[n])
                                       /\ chain[Controller].position[u] = DocumentedAmount(Note[n])
    BY DEF CreditsAsDocumented
  <2>1. PICK n \in Notes : /\ note[n] = "consumed"
                           /\ Note[n].user = u
                           /\ Credits(Note[n])
                           /\ chain[Controller].position[u] = Quotient(Note[n])
    BY SameScripts DEF PositionsBacked, Ledger!PositionsBacked
  <2>2. Note[n].script = "deposit_v3"
    BY <2>1 DEF Credits
  <2>3. DocumentedAmount(Note[n]) = Quotient(Note[n])
    BY <2>2 DEF DocumentedAmount, Quotient, Dividend, Divisor
  <2> QED
    BY <2>1, <2>3
<1> QED
  BY <1>1, NetworkBacked, PTL
============================================================================
