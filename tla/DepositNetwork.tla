-------------------------- MODULE DepositNetwork --------------------------
(***************************************************************************)
(* The processes that move notes to the controller, each a Miden client    *)
(* with a local store: the flow binaries (devnet_flow_a_v3, flow_a_full,   *)
(* flow_c_full), which emit one note from the user's wallet and consume it *)
(* with the controller, the deposit consumer service (consume_deposits)    *)
(* and the web front end.  A transaction executes against the local copy   *)
(* of its account, is proved, submitted to the node and only then applied  *)
(* to the local store; several processes drive the same controller.        *)
(***************************************************************************)
EXTENDS NoteScripts

CONSTANTS FlowNotes,    \* notes emitted and consumed by a flow binary
          Tagged,       \* notes the relay's sync discovers by their tag
          Public,       \* accounts whose state sync_state can fetch
          FlowHome,     \* the HOME (client store) of the flow binaries
          RelayHome,    \* the HOME of consume_deposits
          MaxCrashes    \* bound: how often the service dies

Homes == {FlowHome, RelayHome}

ASSUME NetworkAssumption ==
  /\ FlowNotes \subseteq Notes
  /\ Tagged \subseteq Notes
  /\ Public \subseteq Accounts
  /\ MaxCrashes \in Nat

VARIABLES chain,     \* the node's state of every account
          note,      \* the node's state of every note
          store,     \* the copy of every account in each HOME's store.sqlite3
          flow,      \* the flow binary run for each of FlowNotes
          svc,       \* the consumer service
          crashes    \* how often the service died so far

vars == <<chain, note, store, flow, svc, crashes>>

Ledger == INSTANCE DepositLedger
            WITH vault    <- [a \in Accounts |-> chain[a].vault],
                 position <- chain[Controller].position

---------------------------------------------------------------------------
(* Transactions *)

Steps == {"emit", "consume"}

\* A transaction carries the account state it was executed against.
Tx == [step : Steps, note : Notes, base : AccountState]

Account(step, n) == IF step = "emit" THEN Note[n].user ELSE Controller

\* The kernel runs the transaction to its end on a local account state.
Runnable(step, n, acct) ==
  IF step = "emit" THEN Note[n].lots \subseteq acct.vault
                   ELSE Executable(Note[n])

\* Mutant of Final: the wallet creates the note without removing its assets.
FinalDuplicates(tx) ==
  IF tx.step = "emit" THEN [tx.base EXCEPT !.nonce = @ + 1]
                      ELSE RunScript(Note[tx.note], tx.base)

\* The account after it: the lots leave the wallet, or the script runs.
Final(tx) ==
  IF tx.step = "emit"
  THEN [tx.base EXCEPT !.nonce = @ + 1, !.vault = @ \ Note[tx.note].lots]
  ELSE RunScript(Note[tx.note], tx.base)

\* The node takes a transaction only on top of the account's current state
\* and, for a consumption, only while the note exists and has no nullifier.
Accepted(tx) ==
  /\ chain[Account(tx.step, tx.note)] = tx.base
  /\ note[tx.note] = IF tx.step = "emit" THEN "unissued" ELSE "committed"

Commit(tx) ==
  /\ chain' = [chain EXCEPT ![Account(tx.step, tx.note)] = Final(tx)]
  /\ note' = [note EXCEPT ![tx.note] =
                IF tx.step = "emit" THEN "committed" ELSE "consumed"]

\* sync_state: private accounts keep their local copy.
Synced(h) == [a \in Accounts |-> IF a \in Public THEN chain[a] ELSE store[h][a]]

\* apply_transaction writes the result into the local store.  A sync that ran
\* in between may already have stored something newer, which it may keep.
Apply(h, tx) ==
  LET a == Account(tx.step, tx.note)
  IN \/ store' = [store EXCEPT ![h][a] = Final(tx)]
     \/ /\ store[h][a].nonce > Final(tx).nonce
        /\ UNCHANGED store

---------------------------------------------------------------------------
(* A flow binary: emit the note, then consume it. *)

FlowPhase == {"start", "ready", "executed", "submitted", "done", "stopped"}

\* A process that has executed nothing yet has no transaction.
NoTx == {}

Init ==
  /\ chain = [a \in Accounts |->
                [nonce    |-> 0,
                 vault    |-> IF a = Controller THEN {} ELSE Funds[a],
                 position |-> [u \in Users |-> 0]]]
  /\ note = [n \in Notes |-> "unissued"]
  /\ store = [h \in Homes |-> chain]
  /\ flow = [n \in FlowNotes |-> [phase |-> "start", step |-> "emit", tx |-> NoTx]]
  /\ svc = [phase |-> "idle", todo |-> {}, tx |-> NoTx]
  /\ crashes = 0

\* devnet_flow_a_v3 and flow_c_full sync once at the start, flow_a_full does not.
FlowStart(n) ==
  /\ flow[n].phase = "start"
  /\ store' \in {store, [store EXCEPT ![FlowHome] = Synced(FlowHome)]}
  /\ flow' = [flow EXCEPT ![n].phase = "ready"]
  /\ UNCHANGED <<chain, note, svc, crashes>>

FlowExecute(n) ==
  LET step == flow[n].step
      acct == store[FlowHome][Account(step, n)]
  IN /\ flow[n].phase = "ready"
     /\ Runnable(step, n, acct)
     /\ flow' = [flow EXCEPT ![n].phase = "executed",
                             ![n].tx = {[step |-> step, note |-> n, base |-> acct]}]
     /\ UNCHANGED <<chain, note, store, svc, crashes>>

\* Mutant of FlowSubmit: the error of submit_proven_transaction is ignored.
FlowSubmitIgnoresError(n) ==
  /\ flow[n].phase = "executed"
  /\ \E tx \in flow[n].tx :
       IF Accepted(tx) THEN Commit(tx) ELSE UNCHANGED <<chain, note>>
  /\ flow' = [flow EXCEPT ![n].phase = "submitted"]
  /\ UNCHANGED <<store, svc, crashes>>

FlowSubmit(n) ==
  /\ flow[n].phase = "executed"
  /\ \E tx \in flow[n].tx : Accepted(tx) /\ Commit(tx)
  /\ flow' = [flow EXCEPT ![n].phase = "submitted"]
  /\ UNCHANGED <<store, svc, crashes>>

\* Mutant of FlowApply: success is reported once the note is emitted.
FlowApplyReportsEarly(n) ==
  /\ flow[n].phase = "submitted"
  /\ \E tx \in flow[n].tx : Apply(FlowHome, tx)
  /\ flow' = [flow EXCEPT ![n] = [phase |-> "done", step |-> "consume", tx |-> NoTx]]
  /\ UNCHANGED <<chain, note, svc, crashes>>

FlowApply(n) ==
  /\ flow[n].phase = "submitted"
  /\ \E tx \in flow[n].tx : Apply(FlowHome, tx)
  /\ flow' = [flow EXCEPT ![n] =
                IF @.step = "emit"
                THEN [phase |-> "ready", step |-> "consume", tx |-> NoTx]
                ELSE [phase |-> "done", step |-> "consume", tx |-> NoTx]]
  /\ UNCHANGED <<chain, note, svc, crashes>>

\* Any `?` that returns early (an execution that traps, a submission the node
\* refuses) and any death of the process end the run; a new run would build a
\* new note with a new serial number.
FlowStop(n) ==
  /\ flow[n].phase \in {"ready", "executed", "submitted"}
  /\ flow' = [flow EXCEPT ![n].phase = "stopped", ![n].tx = NoTx]
  /\ UNCHANGED <<chain, note, store, svc, crashes>>

FlowStep(n) ==
  FlowStart(n) \/ FlowExecute(n) \/ FlowSubmit(n) \/ FlowApply(n) \/ FlowStop(n)

---------------------------------------------------------------------------
(* The web front end emits notes from wallets that live in the browser. *)

UserEmits(n) ==
  LET a == Note[n].user
      tx == [step |-> "emit", note |-> n, base |-> chain[a]]
  IN /\ n \notin FlowNotes
     /\ Runnable("emit", n, chain[a])
     /\ Accepted(tx)
     /\ Commit(tx)
     /\ UNCHANGED <<store, flow, svc, crashes>>

---------------------------------------------------------------------------
(* consume_deposits, restarted in a loop. *)

SvcPhase == {"idle", "scan", "executed", "submitted"}

\* In a store that the flow binaries share, the client's screener may have kept
\* the notes they emitted as input notes too.
ScreenedNotes == IF FlowHome = RelayHome THEN FlowNotes ELSE {}

\* Mutant of ServiceSync: the controller is fetched although it is private.
ServiceSyncImports ==
  /\ svc.phase = "idle"
  /\ store' = [store EXCEPT ![RelayHome] = [Synced(RelayHome) EXCEPT
                                             ![Controller] = chain[Controller]]]
  /\ \E kept \in SUBSET ScreenedNotes :
       svc' = [phase |-> "scan", tx |-> NoTx,
               todo |-> {n \in Tagged \cup kept : note[n] = "committed"}]
  /\ UNCHANGED <<chain, note, flow, crashes>>

\* Every committed input note of the store is on the list.
ServiceSync ==
  /\ svc.phase = "idle"
  /\ store' = [store EXCEPT ![RelayHome] = Synced(RelayHome)]
  /\ \E kept \in SUBSET ScreenedNotes :
       svc' = [phase |-> "scan", tx |-> NoTx,
               todo |-> {n \in Tagged \cup kept : note[n] = "committed"}]
  /\ UNCHANGED <<chain, note, flow, crashes>>

\* The next record of the list: the binary consumes what executes ...
ServiceExecute(n) ==
  /\ svc.phase = "scan"
  /\ n \in svc.todo
  /\ Executable(Note[n])
  /\ svc' = [phase |-> "executed", todo |-> svc.todo \ {n},
             tx |-> {[step |-> "consume", note |-> n,
                      base |-> store[RelayHome][Controller]]}]
  /\ UNCHANGED <<chain, note, store, flow, crashes>>

\* Mutant of ServiceSkip: an execution that fails ends the run.
ServiceSkipAborts(n) ==
  /\ svc.phase = "scan"
  /\ n \in svc.todo
  /\ ~ Executable(Note[n])
  /\ svc' = [phase |-> "idle", todo |-> {}, tx |-> NoTx]
  /\ UNCHANGED <<chain, note, store, flow, crashes>>

\* ... and skips what does not.
ServiceSkip(n) ==
  /\ svc.phase = "scan"
  /\ n \in svc.todo
  /\ ~ Executable(Note[n])
  /\ svc' = [svc EXCEPT !.todo = @ \ {n}]
  /\ UNCHANGED <<chain, note, store, flow, crashes>>

\* Mutant of ServiceSubmit: the error of submit_proven_transaction is ignored.
ServiceSubmitIgnoresError ==
  /\ svc.phase = "executed"
  /\ \E tx \in svc.tx :
       IF Accepted(tx) THEN Commit(tx) ELSE UNCHANGED <<chain, note>>
  /\ svc' = [svc EXCEPT !.phase = "submitted"]
  /\ UNCHANGED <<store, flow, crashes>>

ServiceSubmit ==
  /\ svc.phase = "executed"
  /\ \E tx \in svc.tx : Accepted(tx) /\ Commit(tx)
  /\ svc' = [svc EXCEPT !.phase = "submitted"]
  /\ UNCHANGED <<store, flow, crashes>>

\* A refused submission is a `?`: the run ends with the rest of its list.
ServiceRefused ==
  /\ svc.phase = "executed"
  /\ \E tx \in svc.tx : ~ Accepted(tx)
  /\ svc' = [phase |-> "idle", todo |-> {}, tx |-> NoTx]
  /\ UNCHANGED <<chain, note, store, flow, crashes>>

ServiceApply ==
  /\ svc.phase = "submitted"
  /\ \E tx \in svc.tx : Apply(RelayHome, tx)
  /\ svc' = [svc EXCEPT !.phase = "scan", !.tx = NoTx]
  /\ UNCHANGED <<chain, note, flow, crashes>>

ServiceDone ==
  /\ svc.phase = "scan"
  /\ svc.todo = {}
  /\ svc' = [svc EXCEPT !.phase = "idle"]
  /\ UNCHANGED <<chain, note, store, flow, crashes>>

ServiceCrash ==
  /\ svc.phase # "idle"
  /\ crashes < MaxCrashes
  /\ crashes' = crashes + 1
  /\ svc' = [phase |-> "idle", todo |-> {}, tx |-> NoTx]
  /\ UNCHANGED <<chain, note, store, flow>>

ServiceStep ==
  \/ ServiceSync \/ ServiceSubmit \/ ServiceRefused \/ ServiceApply \/ ServiceDone
  \/ \E n \in Notes : ServiceExecute(n) \/ ServiceSkip(n)

Next ==
  \/ \E n \in FlowNotes : FlowStep(n)
  \/ \E n \in Notes : UserEmits(n)
  \/ ServiceStep
  \/ ServiceCrash

Spec == Init /\ [][Next]_vars

\* The operator keeps restarting the service; nobody promises that a flow
\* binary goes on, that a user deposits or that a process dies.
FairSpec == Spec /\ WF_vars(ServiceStep)

---------------------------------------------------------------------------
(* Properties *)

TypeOK ==
  /\ chain \in [Accounts -> AccountState]
  /\ note \in [Notes -> Ledger!NoteStatus]
  /\ store \in [Homes -> [Accounts -> AccountState]]
  /\ flow \in [FlowNotes -> [phase : FlowPhase, step : Steps, tx : SUBSET Tx]]
  /\ svc \in [phase : SvcPhase, todo : SUBSET Notes, tx : SUBSET Tx]
  /\ crashes \in 0..MaxCrashes

\* Through every interleaving of stale local copies, refused submissions and
\* dead processes, each lot is in exactly one vault or one committed note.
Conserved == Ledger!Conserved

\* A user's slot-10 entry always goes back to a consumed note of that user.
PositionsBacked == Ledger!PositionsBacked

\* However the clients race, the one deposit of a user that was consumed is what
\* the user's slot-10 entry holds, whatever else of that user is consumed: the
\* code's rule, which is not the documented one (see RedemptionsDebit).
SoleCredit == Ledger!SoleCredit

\* The clients, stores and submissions implement the two atomic operations.
ImplementsLedger == Ledger!Spec

\* s is not ahead of the account on the chain, and no other state of its age.
Behind(a, s) ==
  /\ s.nonce <= chain[a].nonce
  /\ s.nonce = chain[a].nonce => s = chain[a]

\* A local copy is a past or present state of its account, never a fork: the
\* flow binaries and the service apply only what the node has accepted.
StoreNeverForks == \A h \in Homes, a \in Accounts : Behind(a, store[h][a])

\* A transaction in flight ran to its end on some state of its account, and
\* once the node took it its result is in the account's past or present.
Sound(tx, phase) ==
  /\ Runnable(tx.step, tx.note, tx.base)
  /\ phase = "submitted" => Behind(Account(tx.step, tx.note), Final(tx))

\* No refused or superseded transaction is ever applied to a local store.
InFlightSound ==
  /\ \A n \in FlowNotes : \A tx \in flow[n].tx :
       tx.note = n /\ tx.step = flow[n].step /\ Sound(tx, flow[n].phase)
  /\ \A tx \in svc.tx : tx.step = "consume" /\ Sound(tx, svc.phase)

\* The success line of a flow binary is true: when it prints it, the note is
\* consumed and its lots are in the controller's vault on the chain.
DoneMeansDeposited ==
  \A n \in FlowNotes :
    flow[n].phase = "done" => /\ note[n] = "consumed"
                              /\ Note[n].lots \subseteq chain[Controller].vault

\* Transactions of the controller in that phase of a process.
InPhase(phase) ==
  {tx \in (IF svc.phase = phase THEN svc.tx ELSE {})
            \cup UNION {flow[n].tx : n \in {m \in FlowNotes : flow[m].phase = phase}} :
     tx.step = "consume"}

\* No client holds the controller's present state, and none is about to: what
\* is executed the node refuses, what it took and is not applied is superseded.
Drifted ==
  /\ \A h \in Homes : store[h][Controller] # chain[Controller]
  /\ \A tx \in InPhase("executed") : tx.base # chain[Controller]
  /\ \A tx \in InPhase("submitted") : Final(tx) # chain[Controller]

\* A private controller that drifted (a process died between the node's
\* acceptance and apply_transaction) never moves again, whatever runs later:
\* the reason given for public operator accounts.
DriftIsPermanent ==
  [][Drifted => Drifted' /\ chain'[Controller] = chain[Controller]]_vars

\* With the service restarted forever, an executable deposit that carries the
\* controller's tag is consumed, although other clients move the controller
\* under the service and an unexecutable note sits in the same list.
EveryDepositConsumed ==
  \A n \in Tagged :
    Executable(Note[n]) => (note[n] = "committed" ~> note[n] = "consumed")

\* Where the controller may be private, the service that shares its only store
\* consumes every such deposit too, unless that store stays behind for good.
ConsumedUnlessBehind ==
  \A n \in Tagged :
    Executable(Note[n]) =>
      (note[n] = "committed" ~>
         (note[n] = "consumed" \/ [](store[RelayHome][Controller] # chain[Controller])))

\* build_v5_full_storage_controller.rs:147-150 layers a credit over the setter:
\* the note reads the position, computes the new value and sets the result.
\* Two consumed notes of a user would then leave the sum of their quotients.
PositionsAccumulate ==
  \A u \in Users : \A m, n \in Notes :
    /\ m # n
    /\ \A k \in {m, n} : /\ note[k] = "consumed"
                         /\ Note[k].user = u
                         /\ Credits(Note[k])
    => chain[Controller].position[u] >= Quotient(Note[m]) + Quotient(Note[n])

\* build_v5_full_storage_controller.rs:11-14: "credit_user / debit_user /
\* get_user_position live in the controller; the atomic notes call into them on
\* consume".  A redemption that is consumed would then lower the position of a
\* user who has one.
RedemptionsDebit ==
  [][\A n \in Notes :
       LET u == Note[n].user
       IN /\ Note[n].script = "redeem"
          /\ note[n] = "committed" /\ note'[n] = "consumed"
          /\ chain[Controller].position[u] > 0
          => chain'[Controller].position[u] < chain[Controller].position[u]]_vars

\* atomic_deposit_note.masm:9: mint_amount = deposit_value * fee_factor / nav.
DocumentedAmount(n) == felt_div(FeltMul(n.storage[1], n.storage[2]), n.storage[3])

\* A slot-10 entry is empty or the amount the formula of the deposit notes gives
\* one of the user's consumed notes, v2's as well as v3's.
CreditsAsDocumented ==
  \A u \in Users :
    \/ chain[Controller].position[u] = 0
    \/ \E n \in Notes : /\ note[n] = "consumed"
                       /\ Note[n].user = u
                       /\ Credits(Note[n])
                       /\ chain[Controller].position[u] = DocumentedAmount(Note[n])
===========================================================================
