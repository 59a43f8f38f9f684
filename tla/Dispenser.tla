----------------------------- MODULE Dispenser -----------------------------
(***************************************************************************)
(* The dUSDC dispenser, a network account: anyone emits a drip request, the *)
(* network's transaction builder runs the drip script against the          *)
(* dispenser, which pays a fixed amount into a note for the requester; the *)
(* requester, or its wallet, consumes that note.  The commands             *)
(* drip_request, fund_dispenser, claim_payout and devnet_consume_drips are *)
(* clients that execute on a copy of their account, prove and submit.      *)
(***************************************************************************)
EXTENDS Integers, FiniteSetsExt

CONSTANTS Requests,     \* drip request notes
          Requester,    \* the account in each one's storage
          Home,         \* the HOME (client store) each account lives in
          Serial,       \* the serial number in each one's storage
          Fundings,     \* funding notes
          Amount,       \* what each of them carries
          DRIP_AMOUNT,  \* templated into the drip script
          Sender,       \* the wallet that funds the dispenser
          Supply,       \* what it holds at the start
          TheDispenser, \* the dispenser account
          Claimed       \* bound: the requests somebody runs claim_payout for

Requesters == {Requester[r] : r \in Requests}

Accounts == Requesters \cup {Sender, TheDispenser}

\* Every request draws its serial number at random.
ASSUME DispenserAssumption ==
  /\ IsFiniteSet(Requests) /\ IsFiniteSet(Fundings)
  /\ \A r, s \in Requests : Serial[r] = Serial[s] => r = s
  /\ Amount \in [Fundings -> Nat]
  /\ DRIP_AMOUNT \in Nat \ {0}
  /\ Supply \in Nat
  /\ Claimed \subseteq Requests
  /\ Sender # TheDispenser /\ {Sender, TheDispenser} \cap Requesters = {}

VARIABLES chain,   \* the node's state of every account: nonce and dUSDC
          note,    \* the node's state of every note
          job,     \* the client processes
          told     \* requests whose payout note_committed reported committed

vars == <<chain, note, job, told>>

\* Mutant of Payout: the payout takes no serial number from the request.
PayoutNoSerial(r) == <<Requester[r], 0>>

\* The payout's id is a hash of its recipient (target and serial number) and
\* its asset: clients compute it before the network creates the note.
Payout(r) == <<Requester[r], Serial[r]>>

Payouts == {Payout(r) : r \in Requests}

NoteIds == {<<"request", r>> : r \in Requests} \cup {<<"funding", f>> : f \in Fundings}
             \cup {<<"payout", Payout(r)>> : r \in Requests}

Request(r) == note[<<"request", r>>]

Funding(f) == note[<<"funding", f>>]

PayoutOf(r) == note[<<"payout", Payout(r)>>]

\* One process per command and note, and one batch consumer per account.
Jobs == {<<"drip_request", r>> : r \in Requests} \cup {<<"fund_dispenser", f>> : f \in Fundings}
          \cup {<<"claim_payout", r>> : r \in Claimed}
          \cup {<<"devnet_consume_drips", a>> : a \in Requesters}

Executor(j) ==
  CASE j[1] \in {"drip_request", "claim_payout"} -> Requester[j[2]]
    [] j[1] = "fund_dispenser"                   -> Sender
    [] j[1] = "devnet_consume_drips"             -> j[2]

NoTx == {}

Init ==
  /\ chain = [a \in Accounts |-> [nonce |-> 0, dusdc |-> IF a = Sender THEN Supply ELSE 0]]
  /\ note = [n \in NoteIds |-> "absent"]
  /\ job = [j \in Jobs |-> [phase |-> "start", tx |-> NoTx]]
  /\ told = {}

---------------------------------------------------------------------------
(* The client commands *)

\* The payouts a job's transaction takes.  claim_payout names one, committed or
\* not; devnet_consume_drips takes every committed note of its HOME's store.  That
\* the store may hold notes of other kinds, which make the transaction larger or
\* fail, is left to JobStop.
Inputs(j) ==
  CASE j[1] = "claim_payout"         -> {Payout(j[2])}
    [] j[1] = "devnet_consume_drips" ->
         {p \in Payouts : note[<<"payout", p>>] = "committed" /\ Home[p[1]] = Home[j[2]]}
    [] OTHER                         -> {}

Outputs(j) ==
  CASE j[1] = "drip_request"   -> {<<"request", j[2]>>}
    [] j[1] = "fund_dispenser" -> {<<"funding", j[2]>>}
    [] OTHER                   -> {}

\* The P2ID script of every input insists on its target, so one payout of
\* somebody else fails the whole batch; an empty batch is not submitted.
Executes(j) ==
  /\ j[1] = "fund_dispenser" => Amount[j[2]] <= chain[Sender].dusdc
  /\ j[1] = "devnet_consume_drips" =>
       Inputs(j) # {} /\ \A p \in Inputs(j) : p[1] = j[2]

\* The account after the transaction.
Final(j, tx) ==
  [nonce |-> tx.base.nonce + 1,
   dusdc |-> tx.base.dusdc + DRIP_AMOUNT * Cardinality(tx.inputs)
               - IF j[1] = "fund_dispenser" THEN Amount[j[2]] ELSE 0]

\* sync_state, then the transaction executes on what the sync brought.
JobExecute(j) ==
  /\ job[j].phase = "start"
  /\ Executes(j)
  /\ job' = [job EXCEPT ![j] = [phase |-> "executed",
                                tx |-> {[base |-> chain[Executor(j)], inputs |-> Inputs(j)]}]]
  /\ UNCHANGED <<chain, note, told>>

\* The node: the account has not moved, the inputs exist and have no nullifier.
Accepted(j, tx) ==
  /\ chain[Executor(j)] = tx.base
  /\ \A p \in tx.inputs : note[<<"payout", p>>] = "committed"

\* What follows (apply_transaction, the success line) leaves the chain alone.
JobSubmit(j) ==
  /\ job[j].phase = "executed"
  /\ \E tx \in job[j].tx :
       /\ Accepted(j, tx)
       /\ chain' = [chain EXCEPT ![Executor(j)] = Final(j, tx)]
       /\ note' = [n \in NoteIds |->
                     IF n \in Outputs(j) THEN "committed"
                     ELSE IF n[1] = "payout" /\ n[2] \in tx.inputs THEN "consumed"
                     ELSE note[n]]
  /\ job' = [job EXCEPT ![j] = [phase |-> "done", tx |-> NoTx]]
  /\ UNCHANGED told

\* A refused submission or the death of the process.  One that ends earlier, or
\* whose execution traps, leaves nothing behind: it has not started.
JobStop(j) ==
  /\ job[j].phase = "executed"
  /\ job' = [job EXCEPT ![j] = [phase |-> "done", tx |-> NoTx]]
  /\ UNCHANGED <<chain, note, told>>

---------------------------------------------------------------------------
(* The network's transaction builder, and the requester's wallet *)

\* Mutant of NetworkDrip: the dispenser keeps a last drip back.
NetworkDripKeepsOne(r) ==
  /\ Request(r) = "committed"
  /\ chain[TheDispenser].dusdc > DRIP_AMOUNT
  /\ chain' = [chain EXCEPT ![TheDispenser] =
                 [nonce |-> @.nonce + 1, dusdc |-> @.dusdc - DRIP_AMOUNT]]
  /\ note' = [note EXCEPT ![<<"request", r>>] = "consumed",
                          ![<<"payout", Payout(r)>>] =
                             IF @ = "absent" THEN "committed" ELSE @]
  /\ UNCHANGED <<job, told>>

\* Mutant of NetworkDrip: the vault is not consulted.
NetworkDripOnCredit(r) ==
  /\ Request(r) = "committed"
  /\ chain' = [chain EXCEPT ![TheDispenser] =
                 [nonce |-> @.nonce + 1, dusdc |-> @.dusdc - DRIP_AMOUNT]]
  /\ note' = [note EXCEPT ![<<"request", r>>] = "consumed",
                          ![<<"payout", Payout(r)>>] =
                             IF @ = "absent" THEN "committed" ELSE @]
  /\ UNCHANGED <<job, told>>

\* The drip script runs against the dispenser: move_asset_to_note traps when
\* the vault is short, and the request stays committed.  A payout id that
\* exists already is the same note again: it can be consumed once.
NetworkDrip(r) ==
  /\ Request(r) = "committed"
  /\ chain[TheDispenser].dusdc >= DRIP_AMOUNT
  /\ chain' = [chain EXCEPT ![TheDispenser] =
                 [nonce |-> @.nonce + 1, dusdc |-> @.dusdc - DRIP_AMOUNT]]
  /\ note' = [note EXCEPT ![<<"request", r>>] = "consumed",
                          ![<<"payout", Payout(r)>>] =
                             IF @ = "absent" THEN "committed" ELSE @]
  /\ UNCHANGED <<job, told>>

\* P2ID is on the allowlist: the network takes funding notes into the vault.
NetworkFund(f) ==
  /\ Funding(f) = "committed"
  /\ chain' = [chain EXCEPT ![TheDispenser] =
                 [nonce |-> @.nonce + 1, dusdc |-> @.dusdc + Amount[f]]]
  /\ note' = [note EXCEPT ![<<"funding", f>>] = "consumed"]
  /\ UNCHANGED <<job, told>>

\* The payout is public and tagged: the wallet finds and consumes it.
WalletClaims(r) ==
  /\ PayoutOf(r) = "committed"
  /\ chain' = [chain EXCEPT ![Requester[r]] =
                 [nonce |-> @.nonce + 1, dusdc |-> @.dusdc + DRIP_AMOUNT]]
  /\ note' = [note EXCEPT ![<<"payout", Payout(r)>>] = "consumed"]
  /\ UNCHANGED <<job, told>>

\* Mutant of NoteCommitted: an error of the query counts as an answer.
NoteCommittedOnError(r) ==
  /\ told' = told \cup {r}
  /\ UNCHANGED <<chain, note, job>>

\* The front end polls the payout id it computed; every error reads "pending",
\* so only the other answer tells anything.
NoteCommitted(r) ==
  /\ PayoutOf(r) # "absent"
  /\ told' = told \cup {r}
  /\ UNCHANGED <<chain, note, job>>

Next ==
  \/ \E j \in Jobs : JobExecute(j) \/ JobSubmit(j) \/ JobStop(j)
  \/ \E r \in Requests : NetworkDrip(r) \/ WalletClaims(r) \/ NoteCommitted(r)
  \/ \E f \in Fundings : NetworkFund(f)

Spec == Init /\ [][Next]_vars

\* The builder tries the notes aimed at a network account until they execute;
\* no command, wallet or poll is promised.
FairSpec ==
  /\ Spec
  /\ \A r \in Requests : WF_vars(NetworkDrip(r))
  /\ \A f \in Fundings : WF_vars(NetworkFund(f))

---------------------------------------------------------------------------
(* Properties *)

TypeOK ==
  /\ chain \in [Accounts -> [nonce : Nat, dusdc : Nat]]
  /\ note \in [NoteIds -> {"absent", "committed", "consumed"}]
  /\ told \subseteq Requests
  /\ \A j \in Jobs :
       /\ job[j].phase \in {"start", "executed", "done"}
       /\ job[j].tx \subseteq [base : [nonce : Nat, dusdc : Nat], inputs : SUBSET Payouts]

\* No dUSDC is lost or made: accounts, funding notes and payouts hold together
\* what the sender started with, whoever claims a payout and in what order.
Conserved ==
  Supply = SumFunction([a \in Accounts |-> chain[a].dusdc])
             + SumFunction([f \in Fundings |-> IF Funding(f) = "committed" THEN Amount[f] ELSE 0])
             + DRIP_AMOUNT * Cardinality({p \in Payouts : note[<<"payout", p>>] = "committed"})

\* When the poll says "committed" the request it was asked about has been paid:
\* the id a client computed in advance is never another request's payout.
ToldIsPaid == \A r \in told : Request(r) = "consumed"

\* Every request is paid once and every payout reaches its requester once,
\* although claim_payout, the batch and the wallet race for it.
Ledger ==
  INSTANCE DripLedger
    WITH stage    <- [r \in Requests |->
                        CASE PayoutOf(r) = "consumed"  -> "received"
                          [] PayoutOf(r) = "committed" -> "paid"
                          [] OTHER -> IF Request(r) = "absent" THEN "none" ELSE "asked"],
         funded   <- {f \in Fundings : Funding(f) = "consumed"},
         reserve  <- chain[TheDispenser].dusdc,
         received <- [a \in Requesters |-> chain[a].dusdc]

ImplementsDrips == Ledger!Spec

\* A committed request is paid, unless the dispenser runs dry for good.
DripsPaid ==
  \A r \in Requests :
    Request(r) = "committed" ~>
      (Request(r) = "consumed" \/ [](chain[TheDispenser].dusdc < DRIP_AMOUNT))
=============================================================================
