-------------------------- MODULE Dispenser_proofs --------------------------
(***************************************************************************)
(* Types, the truth of the poll's answer, the conservation of dUSDC and    *)
(* the refinement of DripLedger, for every set of requests, fundings and   *)
(* claims.                                                                 *)
(***************************************************************************)
EXTENDS Dispenser, NumberFacts

---------------------------------------------------------------------------
(* Processes and transactions *)

LEMMA ExecutorAccount ==
  ASSUME NEW j \in Jobs
  PROVE  /\ Executor(j) \in Accounts
         /\ j[1] = "fund_dispenser" =>
              Executor(j) = Sender /\ j[2] \in Fundings /\ Amount[j[2]] \in Nat
<1>1. CASE \E r \in Requests : j = <<"drip_request", r>>
  BY <1>1 DEF Executor, Accounts, Requesters
<1>2. CASE \E f \in Fundings : j = <<"fund_dispenser", f>>
  BY <1>2, DispenserAssumption DEF Executor, Accounts
<1>3. CASE \E r \in Claimed : j = <<"claim_payout", r>>
  BY <1>3, DispenserAssumption DEF Executor, Accounts, Requesters
<1>4. CASE \E a \in Requesters : j = <<"devnet_consume_drips", a>>
  BY <1>4 DEF Executor, Accounts
<1> QED
  BY <1>1, <1>2, <1>3, <1>4 DEF Jobs

LEMMA InputsPayouts ==
  ASSUME NEW j \in Jobs
  PROVE  Inputs(j) \subseteq Payouts
<1>1. CASE j[1] = "claim_payout"
  <2>1. j[2] \in Claimed
    BY <1>1 DEF Jobs
  <2>2. j[2] \in Requests
    BY <2>1, DispenserAssumption
  <2> QED
    BY <1>1, <2>2 DEF Inputs, Payouts
<1>2. CASE j[1] = "devnet_consume_drips"
  BY <1>2 DEF Inputs
<1>3. CASE j[1] \notin {"claim_payout", "devnet_consume_drips"}
  BY <1>3 DEF Inputs
<1> QED
  BY <1>1, <1>2, <1>3

\* A batch of payouts carries a number of dUSDC.
LEMMA PayoutsFinite ==
  ASSUME NEW S \in SUBSET Payouts
  PROVE  DRIP_AMOUNT * Cardinality(S) \in Nat
<1>1. IsFiniteSet(Payouts)
  <2> DEFINE f == [r \in Requests |-> Payout(r)]
  <2>1. f \in Surjection(Requests, Payouts)
    BY DEF Payouts, Surjection
  <2> HIDE DEF f
  <2> QED
    BY <2>1, DispenserAssumption, FS_Surjection
<1>2. Cardinality(S) \in Nat
  BY <1>1, FS_Subset, FS_CardinalityType
<1> QED
  BY <1>2, DispenserAssumption

---------------------------------------------------------------------------
(* Types *)

Balance == [nonce : Nat, dusdc : Nat]

Transactions == [base : Balance, inputs : SUBSET Payouts]

States == {"absent", "committed", "consumed"}

Types ==
  /\ chain \in [Accounts -> Balance]
  /\ note \in [NoteIds -> States]
  /\ told \subseteq Requests
  /\ job \in [Jobs -> [phase : {"start", "executed", "done"}, tx : SUBSET Transactions]]
  /\ \A j \in Jobs : j[1] = "fund_dispenser" =>
       \A tx \in job[j].tx : Amount[j[2]] <= tx.base.dusdc

LEMMA FinalBalance ==
  ASSUME Types, NEW j \in Jobs, NEW tx \in job[j].tx
  PROVE  Final(j, tx) \in Balance
<1>1. tx \in Transactions
  BY DEF Types
<1>2. tx.base.nonce \in Nat /\ tx.base.dusdc \in Nat /\ tx.inputs \in SUBSET Payouts
  BY <1>1 DEF Transactions, Balance
<1> DEFINE gain == DRIP_AMOUNT * Cardinality(tx.inputs)
           loss == IF j[1] = "fund_dispenser" THEN Amount[j[2]] ELSE 0
<1>3. gain \in Nat
  BY <1>2, PayoutsFinite
<1>4. loss \in Nat /\ loss <= tx.base.dusdc
  BY <1>2, ExecutorAccount DEF Types
<1>5. Final(j, tx) = [nonce |-> tx.base.nonce + 1, dusdc |-> tx.base.dusdc + gain - loss]
  BY DEF Final
<1> HIDE DEF gain, loss
<1> QED
  BY <1>2, <1>3, <1>4, <1>5 DEF Balance

LEMMA TypesInit == Init => Types
<1> SUFFICES ASSUME Init PROVE Types
  OBVIOUS
<1>1. \A a \in Accounts : (IF a = Sender THEN Supply ELSE 0) \in Nat
  BY DispenserAssumption
<1>2. chain \in [Accounts -> Balance]
  BY <1>1 DEF Init, Balance
<1> QED
  BY <1>2 DEF Init, Types, NoTx, States

LEMMA NoteIdsFacts ==
  /\ \A r \in Requests : <<"request", r>> \in NoteIds /\ <<"payout", Payout(r)>> \in NoteIds
  /\ \A f \in Fundings : <<"funding", f>> \in NoteIds
  /\ TheDispenser \in Accounts
  /\ \A r \in Requests : Requester[r] \in Accounts
BY DEF NoteIds, Accounts, Requesters

LEMMA TypesNext == Types /\ [Next]_vars => Types'
<1> SUFFICES ASSUME Types, [Next]_vars PROVE Types'
  OBVIOUS
<1>1. CASE UNCHANGED vars
  BY <1>1 DEF vars, Types
<1>2. ASSUME NEW j \in Jobs, JobExecute(j)
      PROVE  Types'
  <2> DEFINE tx == [base |-> chain[Executor(j)], inputs |-> Inputs(j)]
  <2>1. tx \in Transactions
    BY ExecutorAccount, InputsPayouts DEF Types, Transactions
  <2>2. j[1] = "fund_dispenser" => Amount[j[2]] <= tx.base.dusdc
    BY <1>2, ExecutorAccount DEF JobExecute, Executes
  <2> HIDE DEF tx
  <2>3. job' = [job EXCEPT ![j] = [phase |-> "executed", tx |-> {tx}]]
    BY <1>2 DEF JobExecute, tx
  <2>4. job' \in [Jobs -> [phase : {"start", "executed", "done"}, tx : SUBSET Transactions]]
    BY <2>1, <2>3 DEF Types
  <2>5. \A k \in Jobs : k[1] = "fund_dispenser" =>
          \A t \in job'[k].tx : Amount[k[2]] <= t.base.dusdc
    BY <2>2, <2>3 DEF Types
  <2> QED
    BY <1>2, <2>4, <2>5 DEF JobExecute, Types
<1>3. ASSUME NEW j \in Jobs, job' = [job EXCEPT ![j] = [phase |-> "done", tx |-> NoTx]]
      PROVE  /\ job' \in [Jobs -> [phase : {"start", "executed", "done"},
                                   tx : SUBSET Transactions]]
             /\ \A k \in Jobs : k[1] = "fund_dispenser" =>
                  \A t \in job'[k].tx : Amount[k[2]] <= t.base.dusdc
  BY <1>3 DEF Types, NoTx
<1>4. ASSUME NEW j \in Jobs, JobSubmit(j)
      PROVE  Types'
  <2>1. PICK tx \in job[j].tx :
          /\ chain' = [chain EXCEPT ![Executor(j)] = Final(j, tx)]
          /\ note' = [n \in NoteIds |->
                        IF n \in Outputs(j) THEN "committed"
                        ELSE IF n[1] = "payout" /\ n[2] \in tx.inputs THEN "consumed"
                        ELSE note[n]]
    BY <1>4 DEF JobSubmit
  <2>2. chain' \in [Accounts -> Balance]
    BY <2>1, FinalBalance DEF Types
  <2>3. note' \in [NoteIds -> States]
    BY <2>1 DEF Types, States
  <2> QED
    BY <1>3, <1>4, <2>2, <2>3 DEF JobSubmit, Types
<1>5. ASSUME NEW j \in Jobs, JobStop(j)
      PROVE  Types'
  BY <1>3, <1>5 DEF JobStop, Types
<1>7. ASSUME NEW r \in Requests, NetworkDrip(r)
      PROVE  Types'
  <2>1. chain[TheDispenser] \in Balance /\ TheDispenser \in Accounts
    BY NoteIdsFacts DEF Types
  <2>2. chain[TheDispenser].dusdc - DRIP_AMOUNT \in Nat
    BY <1>7, <2>1, DispenserAssumption DEF NetworkDrip, Balance
  <2>3. chain' \in [Accounts -> Balance]
    <3> DEFINE b == [nonce |-> chain[TheDispenser].nonce + 1,
                     dusdc |-> chain[TheDispenser].dusdc - DRIP_AMOUNT]
    <3>1. b \in Balance
      BY <2>1, <2>2 DEF Balance
    <3>2. chain' = [chain EXCEPT ![TheDispenser] = b]
      BY <1>7 DEF NetworkDrip
    <3> HIDE DEF b
    <3> QED
      BY <2>1, <3>1, <3>2 DEF Types
  <2>4. note' \in [NoteIds -> States]
    BY <1>7 DEF NetworkDrip, Types, States
  <2> QED
    BY <1>7, <2>3, <2>4 DEF NetworkDrip, Types
<1>8. ASSUME NEW f \in Fundings, NetworkFund(f)
      PROVE  Types'
  <2>1. chain[TheDispenser] \in Balance /\ TheDispenser \in Accounts
    BY NoteIdsFacts DEF Types
  <2>2. chain' \in [Accounts -> Balance]
    <3> DEFINE x == Amount[f]
               b == [nonce |-> chain[TheDispenser].nonce + 1, dusdc |-> chain[TheDispenser].dusdc + x]
    <3>1. chain[TheDispenser].nonce \in Nat /\ chain[TheDispenser].dusdc \in Nat /\ x \in Nat
      BY <2>1, DispenserAssumption DEF Balance
    <3>2. chain' = [chain EXCEPT ![TheDispenser] = b]
      BY <1>8 DEF NetworkFund
    <3> HIDE DEF x
    <3>3. b \in Balance
      BY <3>1 DEF Balance
    <3> HIDE DEF b
    <3> QED
      BY <2>1, <3>2, <3>3 DEF Types
  <2>3. note' \in [NoteIds -> States]
    BY <1>8 DEF NetworkFund, Types, States
  <2> QED
    BY <1>8, <2>2, <2>3 DEF NetworkFund, Types
<1>9. ASSUME NEW r \in Requests, WalletClaims(r)
      PROVE  Types'
  <2>1. chain[Requester[r]] \in Balance /\ Requester[r] \in Accounts
    BY NoteIdsFacts DEF Types
  <2>2. chain' \in [Accounts -> Balance]
    <3> DEFINE x == DRIP_AMOUNT
               b == [nonce |-> chain[Requester[r]].nonce + 1, dusdc |-> chain[Requester[r]].dusdc + x]
    <3>1. chain[Requester[r]].nonce \in Nat /\ chain[Requester[r]].dusdc \in Nat /\ x \in Nat
      BY <2>1, DispenserAssumption DEF Balance
    <3>2. chain' = [chain EXCEPT ![Requester[r]] = b]
      BY <1>9 DEF WalletClaims
    <3> HIDE DEF x
    <3>3. b \in Balance
      BY <3>1 DEF Balance
    <3> HIDE DEF b
    <3> QED
      BY <2>1, <3>2, <3>3 DEF Types
  <2>3. note' \in [NoteIds -> States]
    BY <1>9 DEF WalletClaims, Types, States
  <2> QED
    BY <1>9, <2>2, <2>3 DEF WalletClaims, Types
<1>10. ASSUME NEW r \in Requests, NoteCommitted(r)
       PROVE  Types'
  BY <1>10 DEF NoteCommitted, Types
<1> QED
  BY <1>1, <1>2, <1>4, <1>5, <1>7, <1>8, <1>9, <1>10 DEF Next

LEMMA TypesAlways == Spec => []Types
BY TypesInit, TypesNext, PTL DEF Spec

\* No account ever owes dUSDC, whatever is claimed, dripped and funded in
\* between the execution and the submission of a transaction.
THEOREM DispenserTypes == Spec => []TypeOK
<1>1. Types => TypeOK
  <2> SUFFICES ASSUME Types PROVE TypeOK
    OBVIOUS
  <2>1. chain \in [Accounts -> [nonce : Nat, dusdc : Nat]]
    BY DEF Types, Balance
  <2>2. \A j \in Jobs :
          /\ job[j].phase \in {"start", "executed", "done"}
          /\ job[j].tx \subseteq [base : [nonce : Nat, dusdc : Nat], inputs : SUBSET Payouts]
    BY DEF Types, Transactions, Balance
  <2> QED
    BY <2>1, <2>2 DEF TypeOK, Types, States
<1> QED
  BY <1>1, TypesAlways, PTL

---------------------------------------------------------------------------
(* The answer of the poll *)

\* A payout exists only for a request that was consumed, which cannot be
\* emitted again: its process is over.
Paid ==
  /\ \A r \in Requests : PayoutOf(r) # "absent" => Request(r) = "consumed"
  /\ \A r \in Requests : Request(r) # "absent" => job[<<"drip_request", r>>].phase = "done"
  /\ ToldIsPaid

LEMMA PayoutInjective ==
  ASSUME NEW r \in Requests, NEW s \in Requests, Payout(r) = Payout(s)
  PROVE  r = s
BY DispenserAssumption DEF Payout

LEMMA PaidInit == Init => Paid
BY NoteIdsFacts DEF Init, Paid, ToldIsPaid, PayoutOf, Request

\* Notes of requests that are not absent, and payouts that are, stay so.
LEMMA PaidStep ==
  ASSUME Types, Paid, told' = told,
         \A r \in Requests : Request(r)' = Request(r)
                               \/ (Request(r) = "absent" /\ job'[<<"drip_request", r>>].phase = "done"),
         \A r \in Requests : PayoutOf(r) = "absent" => PayoutOf(r)' = "absent",
         \A r \in Requests : job[<<"drip_request", r>>].phase = "done" =>
                               job'[<<"drip_request", r>>].phase = "done"
  PROVE  Paid'
<1>1. \A r \in Requests : PayoutOf(r)' # "absent" => Request(r)' = "consumed"
  BY DEF Paid
<1>2. \A r \in Requests : Request(r)' # "absent" => job'[<<"drip_request", r>>].phase = "done"
  BY DEF Paid
<1>3. \A r \in told' : Request(r)' = "consumed"
  BY DEF Paid, ToldIsPaid, Types
<1> QED
  BY <1>1, <1>2, <1>3 DEF Paid, ToldIsPaid

LEMMA PaidNext == Types /\ Paid /\ [Next]_vars => Paid'
<1> SUFFICES ASSUME Types, Paid, [Next]_vars PROVE Paid'
  OBVIOUS
<1>1. CASE UNCHANGED vars
  BY <1>1 DEF vars, Paid, ToldIsPaid, PayoutOf, Request
<1>0. \A r \in Requests : <<"drip_request", r>> \in Jobs
  BY DEF Jobs
<1>2. ASSUME NEW j \in Jobs, JobExecute(j)
      PROVE  Paid'
  <2>1. \A r \in Requests : job[<<"drip_request", r>>].phase = "done" =>
                              job'[<<"drip_request", r>>].phase = "done"
    BY <1>0, <1>2 DEF JobExecute, Types
  <2>2. note' = note /\ told' = told
    BY <1>2 DEF JobExecute
  <2> QED
    BY <2>1, <2>2, PaidStep DEF Request, PayoutOf
<1>3. ASSUME NEW j \in Jobs, JobStop(j)
      PROVE  Paid'
  <2>1. \A r \in Requests : job[<<"drip_request", r>>].phase = "done" =>
                              job'[<<"drip_request", r>>].phase = "done"
    BY <1>0, <1>3 DEF JobStop, Types
  <2>2. note' = note /\ told' = told
    BY <1>3 DEF JobStop
  <2> QED
    BY <2>1, <2>2, PaidStep DEF Request, PayoutOf
<1>4. ASSUME NEW j \in Jobs, JobSubmit(j)
      PROVE  Paid'
  <2>1. PICK tx \in job[j].tx :
          /\ Accepted(j, tx)
          /\ note' = [n \in NoteIds |->
                        IF n \in Outputs(j) THEN "committed"
                        ELSE IF n[1] = "payout" /\ n[2] \in tx.inputs THEN "consumed"
                        ELSE note[n]]
    BY <1>4 DEF JobSubmit
  <2>2. job' = [job EXCEPT ![j] = [phase |-> "done", tx |-> NoTx]] /\ told' = told
    BY <1>4 DEF JobSubmit
  <2>3. \A r \in Requests : job[<<"drip_request", r>>].phase = "done" =>
                              job'[<<"drip_request", r>>].phase = "done"
    BY <1>0, <2>2 DEF Types
  <2>4. ASSUME NEW r \in Requests
        PROVE  \/ Request(r)' = Request(r)
               \/ Request(r) = "absent" /\ job'[<<"drip_request", r>>].phase = "done"
    <3>1. CASE <<"request", r>> \in Outputs(j)
      <4>1. j = <<"drip_request", r>>
        BY <3>1 DEF Outputs, Jobs
      <4>2. job[j].phase = "executed"
        BY <1>4 DEF JobSubmit
      <4>3. Request(r) = "absent"
        BY <4>1, <4>2 DEF Paid
      <4>4. job'[j].phase = "done"
        BY <2>2 DEF Types
      <4> QED
        BY <4>1, <4>3, <4>4
    <3>2. CASE <<"request", r>> \notin Outputs(j)
      BY <2>1, <3>2, NoteIdsFacts DEF Request
    <3> QED
      BY <3>1, <3>2
  <2>5. ASSUME NEW r \in Requests, PayoutOf(r) = "absent"
        PROVE  PayoutOf(r)' = "absent"
    <3>1. <<"payout", Payout(r)>> \notin Outputs(j)
      BY DEF Outputs
    <3>2. Payout(r) \notin tx.inputs
      BY <2>1, <2>5 DEF Accepted, PayoutOf
    <3> QED
      BY <2>1, <2>5, <3>1, <3>2, NoteIdsFacts DEF PayoutOf
  <2> QED
    BY <2>2, <2>3, <2>4, <2>5, PaidStep
<1>5. ASSUME NEW r \in Requests, NetworkDrip(r)
      PROVE  Paid'
  <2>1. /\ note' = [note EXCEPT ![<<"request", r>>] = "consumed",
                                ![<<"payout", Payout(r)>>] =
                                   IF @ = "absent" THEN "committed" ELSE @]
        /\ job' = job /\ told' = told
    BY <1>5 DEF NetworkDrip
  <2>2. Request(r)' = "consumed" /\ Request(r) # "absent"
    BY <1>5, <2>1, NoteIdsFacts DEF Request, Types, NetworkDrip
  <2>3. ASSUME NEW s \in Requests, s # r
        PROVE  Request(s)' = Request(s) /\ PayoutOf(s)' = PayoutOf(s)
    <3>1. Payout(s) # Payout(r)
      BY <2>3, PayoutInjective
    <3> QED
      BY <2>1, <2>3, <3>1, NoteIdsFacts DEF Request, PayoutOf, Types
  <2>4. \A s \in Requests : PayoutOf(s)' # "absent" => Request(s)' = "consumed"
    BY <2>2, <2>3 DEF Paid
  <2>5. \A s \in Requests : Request(s)' # "absent" => job'[<<"drip_request", s>>].phase = "done"
    BY <2>1, <2>2, <2>3 DEF Paid
  <2>6. \A s \in told' : Request(s)' = "consumed"
    BY <2>1, <2>2, <2>3 DEF Paid, ToldIsPaid, Types
  <2> QED
    BY <2>4, <2>5, <2>6 DEF Paid, ToldIsPaid
<1>6. ASSUME NEW f \in Fundings, NetworkFund(f)
      PROVE  Paid'
  <2>1. /\ note' = [note EXCEPT ![<<"funding", f>>] = "consumed"]
        /\ job' = job /\ told' = told
    BY <1>6 DEF NetworkFund
  <2>2. \A r \in Requests : Request(r)' = Request(r) /\ PayoutOf(r)' = PayoutOf(r)
    BY <2>1, NoteIdsFacts DEF Types, Request, PayoutOf
  <2> QED
    BY <2>1, <2>2, PaidStep
<1>7. ASSUME NEW r \in Requests, WalletClaims(r)
      PROVE  Paid'
  <2>1. /\ note' = [note EXCEPT ![<<"payout", Payout(r)>>] = "consumed"]
        /\ job' = job /\ told' = told /\ PayoutOf(r) = "committed"
    BY <1>7 DEF WalletClaims
  <2>2. \A s \in Requests : Request(s)' = Request(s)
    BY <2>1, NoteIdsFacts DEF Types, Request
  <2>3. ASSUME NEW s \in Requests, PayoutOf(s) = "absent"
        PROVE  PayoutOf(s)' = "absent"
    <3>1. Payout(s) # Payout(r)
      BY <2>1, <2>3, PayoutInjective
    <3> QED
      BY <2>1, <2>3, <3>1, NoteIdsFacts DEF Types, PayoutOf
  <2> QED
    BY <2>1, <2>2, <2>3, PaidStep
<1>8. ASSUME NEW r \in Requests, NoteCommitted(r)
      PROVE  Paid'
  <2>1. told' = told \cup {r} /\ note' = note /\ job' = job /\ Request(r) = "consumed"
    BY <1>8 DEF NoteCommitted, Paid
  <2> QED
    BY <2>1 DEF Paid, ToldIsPaid, Request, PayoutOf
<1> QED
  BY <1>1, <1>2, <1>3, <1>4, <1>5, <1>6, <1>7, <1>8 DEF Next

\* When note_committed answers "committed" for a payout id computed in
\* advance, the request it was computed from has been paid: serial numbers
\* that differ are all it takes.
THEOREM PollIsTrue == Spec => []ToldIsPaid
<1>1. Paid => ToldIsPaid
  BY DEF Paid
<1>2. Spec => []Paid
  BY PaidInit, PaidNext, TypesAlways, PTL DEF Spec
<1> QED
  BY <1>1, <1>2, PTL
---------------------------------------------------------------------------
(* What a transaction takes *)

\* Clients take payouts of their own account and, if they take any at all,
\* at least one; a funding note is emitted once.
Sent ==
  /\ \A j \in Jobs : \A tx \in job[j].tx :
       /\ \A p \in tx.inputs : p[1] = Executor(j)
       /\ tx.inputs = {} <=> j[1] \in {"drip_request", "fund_dispenser"}
  /\ \A f \in Fundings : Funding(f) # "absent" => job[<<"fund_dispenser", f>>].phase = "done"

LEMMA JobKinds ==
  ASSUME NEW j \in Jobs
  PROVE  \/ j[1] = "drip_request" /\ j[2] \in Requests /\ j = <<"drip_request", j[2]>>
              /\ Executor(j) = Requester[j[2]] /\ Executor(j) \in Requesters
         \/ j[1] = "fund_dispenser" /\ j[2] \in Fundings /\ j = <<"fund_dispenser", j[2]>>
              /\ Executor(j) = Sender
         \/ j[1] = "claim_payout" /\ j[2] \in Requests
              /\ Executor(j) = Requester[j[2]] /\ Executor(j) \in Requesters
         \/ j[1] = "devnet_consume_drips" /\ Executor(j) = j[2] /\ Executor(j) \in Requesters
<1>1. CASE \E r \in Requests : j = <<"drip_request", r>>
  BY <1>1 DEF Executor, Requesters
<1>2. CASE \E f \in Fundings : j = <<"fund_dispenser", f>>
  BY <1>2 DEF Executor
<1>3. CASE \E r \in Claimed : j = <<"claim_payout", r>>
  BY <1>3, DispenserAssumption DEF Executor, Requesters
<1>4. CASE \E a \in Requesters : j = <<"devnet_consume_drips", a>>
  BY <1>4 DEF Executor
<1> QED
  BY <1>1, <1>2, <1>3, <1>4 DEF Jobs

LEMMA InputsOwn ==
  ASSUME NEW j \in Jobs, Executes(j)
  PROVE  /\ \A p \in Inputs(j) : p[1] = Executor(j)
         /\ Inputs(j) = {} <=> j[1] \in {"drip_request", "fund_dispenser"}
<1> DEFINE Own == \A p \in Inputs(j) : p[1] = Executor(j)
           Some == Inputs(j) = {} <=> j[1] \in {"drip_request", "fund_dispenser"}
<1>1. ASSUME j[1] = "claim_payout" PROVE Own /\ Some
  <2>1. Inputs(j) = {Payout(j[2])} /\ Executor(j) = Requester[j[2]]
    BY <1>1 DEF Inputs, Executor
  <2>2. Own
    BY <2>1 DEF Payout
  <2>3. Inputs(j) # {}
    BY <2>1
  <2>4. Some
    BY <1>1, <2>3
  <2> QED
    BY <2>2, <2>4
<1>2. ASSUME j[1] = "devnet_consume_drips" PROVE Own /\ Some
  <2>1. Inputs(j) # {} /\ Executor(j) = j[2] /\ \A p \in Inputs(j) : p[1] = j[2]
    BY <1>2 DEF Executes, Executor
  <2>2. Some
    BY <1>2, <2>1
  <2> QED
    BY <2>1, <2>2
<1>3. ASSUME j[1] \in {"drip_request", "fund_dispenser"} PROVE Own /\ Some
  BY <1>3 DEF Inputs
<1>4. j[1] \in {"claim_payout", "devnet_consume_drips", "drip_request", "fund_dispenser"}
  BY JobKinds
<1> HIDE DEF Own, Some
<1>5. Own /\ Some
  BY <1>1, <1>2, <1>3, <1>4
<1> QED
  BY <1>5 DEF Own, Some

LEMMA SentInit == Init => Sent
BY DEF Init, Sent, NoTx, Funding, NoteIds

LEMMA SentNext == Types /\ Sent /\ [Next]_vars => Sent'
<1> SUFFICES ASSUME Types, Sent, [Next]_vars PROVE Sent'
  OBVIOUS
<1>0. \A f \in Fundings : <<"fund_dispenser", f>> \in Jobs /\ <<"funding", f>> \in NoteIds
  BY DEF Jobs, NoteIds
<1>1. CASE UNCHANGED vars
  BY <1>1 DEF vars, Sent, Funding
<1>2. ASSUME NEW j \in Jobs, JobExecute(j)
      PROVE  Sent'
  <2> DEFINE tx == [base |-> chain[Executor(j)], inputs |-> Inputs(j)]
  <2>1. job' = [job EXCEPT ![j] = [phase |-> "executed", tx |-> {tx}]] /\ note' = note
    BY <1>2 DEF JobExecute
  <2>2. /\ \A p \in tx.inputs : p[1] = Executor(j)
        /\ tx.inputs = {} <=> j[1] \in {"drip_request", "fund_dispenser"}
    BY <1>2, InputsOwn DEF JobExecute
  <2> HIDE DEF tx
  <2>3. job'[j].tx = {tx} /\ \A k \in Jobs \ {j} : job'[k] = job[k]
    BY <2>1 DEF Types
  <2>4. \A k \in Jobs : \A u \in job'[k].tx :
          /\ \A p \in u.inputs : p[1] = Executor(k)
          /\ u.inputs = {} <=> k[1] \in {"drip_request", "fund_dispenser"}
    BY <2>2, <2>3 DEF Sent
  <2>5. \A f \in Fundings : Funding(f)' # "absent" => job'[<<"fund_dispenser", f>>].phase = "done"
    <3>1. \A f \in Fundings : job[<<"fund_dispenser", f>>].phase = "done" =>
                                job'[<<"fund_dispenser", f>>] = job[<<"fund_dispenser", f>>]
      BY <1>0, <1>2, <2>3 DEF JobExecute
    <3> QED
      BY <2>1, <3>1 DEF Sent, Funding
  <2> QED
    BY <2>4, <2>5 DEF Sent
<1>3. ASSUME NEW j \in Jobs, job' = [job EXCEPT ![j] = [phase |-> "done", tx |-> NoTx]],
             \A f \in Fundings : Funding(f)' = Funding(f) \/ j = <<"fund_dispenser", f>>
      PROVE  Sent'
  <2>1. job'[j].tx = {} /\ job'[j].phase = "done" /\ \A k \in Jobs \ {j} : job'[k] = job[k]
    BY <1>3 DEF Types, NoTx
  <2>2. \A k \in Jobs : \A u \in job'[k].tx : k # j /\ u \in job[k].tx
    BY <2>1
  <2>3. \A f \in Fundings : Funding(f)' # "absent" => job'[<<"fund_dispenser", f>>].phase = "done"
    BY <1>0, <1>3, <2>1 DEF Sent
  <2> QED
    BY <2>2, <2>3 DEF Sent
<1>4. ASSUME NEW j \in Jobs, JobStop(j)
      PROVE  Sent'
  BY <1>3, <1>4 DEF JobStop, Funding
<1>5. ASSUME NEW j \in Jobs, JobSubmit(j)
      PROVE  Sent'
  <2>1. PICK tx \in job[j].tx :
          note' = [n \in NoteIds |->
                     IF n \in Outputs(j) THEN "committed"
                     ELSE IF n[1] = "payout" /\ n[2] \in tx.inputs THEN "consumed"
                     ELSE note[n]]
    BY <1>5 DEF JobSubmit
  <2>2. \A f \in Fundings : <<"funding", f>> \in Outputs(j) => j = <<"fund_dispenser", f>>
    BY JobKinds DEF Outputs
  <2>3. \A f \in Fundings : Funding(f)' = Funding(f) \/ j = <<"fund_dispenser", f>>
    BY <1>0, <2>1, <2>2 DEF Funding
  <2> QED
    BY <1>3, <1>5, <2>3 DEF JobSubmit
<1>6. ASSUME NEW r \in Requests, NetworkDrip(r) \/ WalletClaims(r) \/ NoteCommitted(r)
      PROVE  Sent'
  <2>1. job' = job
    BY <1>6 DEF NetworkDrip, WalletClaims, NoteCommitted
  <2>2. \A f \in Fundings : Funding(f)' = Funding(f)
    BY <1>0, <1>6 DEF NetworkDrip, WalletClaims, NoteCommitted, Funding, Types
  <2> QED
    BY <2>1, <2>2 DEF Sent
<1>7. ASSUME NEW f \in Fundings, NetworkFund(f)
      PROVE  Sent'
  <2>1. job' = job /\ Funding(f) # "absent"
    BY <1>7 DEF NetworkFund
  <2>2. \A g \in Fundings \ {f} : Funding(g)' = Funding(g)
    BY <1>0, <1>7 DEF NetworkFund, Funding, Types
  <2> QED
    BY <2>1, <2>2 DEF Sent
<1> QED
  BY <1>1, <1>2, <1>4, <1>5, <1>6, <1>7 DEF Next

\* The inductive invariant.
DispenserInv == Types /\ Paid /\ Sent

LEMMA DispenserInvAlways == Spec => []DispenserInv
<1>1. Init => DispenserInv
  BY TypesInit, PaidInit, SentInit DEF DispenserInv
<1>2. DispenserInv /\ [Next]_vars => DispenserInv'
  BY TypesNext, PaidNext, SentNext DEF DispenserInv
<1> QED
  BY <1>1, <1>2, PTL DEF Spec

---------------------------------------------------------------------------
(* What each step does to accounts and notes *)

Committed == {p \in Payouts : note[<<"payout", p>>] = "committed"}

\* A submission moves the executing account and spends its inputs, which were
\* committed; it emits one note or none.
LEMMA SubmitFacts ==
  ASSUME DispenserInv, NEW j \in Jobs, JobSubmit(j)
  PROVE  LET a == Executor(j)
         IN \E tx \in job[j].tx :
              /\ tx.inputs \subseteq Committed
              /\ a \in Accounts /\ a # TheDispenser
              /\ chain'[a].dusdc = chain[a].dusdc + DRIP_AMOUNT * Cardinality(tx.inputs)
                                     - IF j[1] = "fund_dispenser" THEN Amount[j[2]] ELSE 0
              /\ \A b \in Accounts \ {a} : chain'[b] = chain[b]
              /\ \A p \in Payouts : note'[<<"payout", p>>] =
                                      IF p \in tx.inputs THEN "consumed" ELSE note[<<"payout", p>>]
              /\ \A r \in Requests : Request(r)' = IF j = <<"drip_request", r>>
                                                   THEN "committed" ELSE Request(r)
              /\ \A f \in Fundings : Funding(f)' = IF j = <<"fund_dispenser", f>>
                                                   THEN "committed" ELSE Funding(f)
<1> DEFINE a == Executor(j)
<1>1. PICK tx \in job[j].tx :
        /\ Accepted(j, tx)
        /\ chain' = [chain EXCEPT ![a] = Final(j, tx)]
        /\ note' = [n \in NoteIds |->
                      IF n \in Outputs(j) THEN "committed"
                      ELSE IF n[1] = "payout" /\ n[2] \in tx.inputs THEN "consumed"
                      ELSE note[n]]
  BY DEF JobSubmit
<1>2. a \in Accounts /\ a # TheDispenser
  BY ExecutorAccount, JobKinds, DispenserAssumption
<1>3. chain[a] = tx.base
  BY <1>1 DEF Accepted
<1>4. tx.inputs \subseteq Committed
  <2>1. tx.inputs \subseteq Payouts
    BY DEF DispenserInv, Types, Transactions
  <2> QED
    BY <1>1, <2>1 DEF Accepted, Committed
<1>5. chain'[a] = Final(j, tx) /\ \A b \in Accounts \ {a} : chain'[b] = chain[b]
  BY <1>1, <1>2 DEF DispenserInv, Types
<1>6. chain'[a].dusdc = chain[a].dusdc + DRIP_AMOUNT * Cardinality(tx.inputs)
                          - IF j[1] = "fund_dispenser" THEN Amount[j[2]] ELSE 0
  BY <1>3, <1>5 DEF Final
<1>7. /\ \A p : <<"payout", p>> \notin Outputs(j)
      /\ \A r \in Requests : <<"request", r>> \in Outputs(j) <=> j = <<"drip_request", r>>
      /\ \A f \in Fundings : <<"funding", f>> \in Outputs(j) <=> j = <<"fund_dispenser", f>>
  BY JobKinds DEF Outputs
<1>8. /\ \A p \in Payouts : <<"payout", p>> \in NoteIds
      /\ \A r \in Requests : <<"request", r>> \in NoteIds
      /\ \A f \in Fundings : <<"funding", f>> \in NoteIds
  BY DEF NoteIds, Payouts
<1>9. \A p \in Payouts : note'[<<"payout", p>>] =
                           IF p \in tx.inputs THEN "consumed" ELSE note[<<"payout", p>>]
  BY <1>1, <1>7, <1>8
<1>10. \A r \in Requests : Request(r)' = IF j = <<"drip_request", r>>
                                         THEN "committed" ELSE Request(r)
  BY <1>1, <1>7, <1>8 DEF Request
<1>11. \A f \in Fundings : Funding(f)' = IF j = <<"fund_dispenser", f>>
                                         THEN "committed" ELSE Funding(f)
  BY <1>1, <1>7, <1>8 DEF Funding
<1> QED
  BY <1>2, <1>4, <1>5, <1>6, <1>9, <1>10, <1>11

\* A drip makes one payout that did not exist.
LEMMA DripFacts ==
  ASSUME DispenserInv, NEW r \in Requests, NetworkDrip(r)
  PROVE  /\ chain[TheDispenser].dusdc >= DRIP_AMOUNT
         /\ chain'[TheDispenser].dusdc = chain[TheDispenser].dusdc - DRIP_AMOUNT
         /\ \A b \in Accounts \ {TheDispenser} : chain'[b] = chain[b]
         /\ Request(r) = "committed" /\ Request(r)' = "consumed"
         /\ PayoutOf(r) = "absent"
         /\ \A s \in Requests \ {r} : Request(s)' = Request(s)
         /\ \A p \in Payouts : note'[<<"payout", p>>] =
                                 IF p = Payout(r) THEN "committed" ELSE note[<<"payout", p>>]
         /\ \A f \in Fundings : Funding(f)' = Funding(f)
<1>1. /\ Request(r) = "committed" /\ chain[TheDispenser].dusdc >= DRIP_AMOUNT
      /\ chain' = [chain EXCEPT ![TheDispenser] =
                     [nonce |-> @.nonce + 1, dusdc |-> @.dusdc - DRIP_AMOUNT]]
      /\ note' = [note EXCEPT ![<<"request", r>>] = "consumed",
                              ![<<"payout", Payout(r)>>] =
                                 IF @ = "absent" THEN "committed" ELSE @]
  BY DEF NetworkDrip
<1>2. PayoutOf(r) = "absent"
  BY <1>1 DEF DispenserInv, Paid
<1>3. /\ chain'[TheDispenser].dusdc = chain[TheDispenser].dusdc - DRIP_AMOUNT
      /\ \A b \in Accounts \ {TheDispenser} : chain'[b] = chain[b]
  BY <1>1, NoteIdsFacts DEF DispenserInv, Types
<1>4. /\ \A p \in Payouts : <<"payout", p>> \in NoteIds
      /\ \A s \in Requests : <<"request", s>> \in NoteIds
      /\ \A f \in Fundings : <<"funding", f>> \in NoteIds
      /\ Payout(r) \in Payouts
  BY DEF NoteIds, Payouts
<1>5. \A p \in Payouts : note'[<<"payout", p>>] =
                           IF p = Payout(r) THEN "committed" ELSE note[<<"payout", p>>]
  BY <1>1, <1>2, <1>4 DEF DispenserInv, Types, PayoutOf
<1>6. Request(r)' = "consumed" /\ \A s \in Requests \ {r} : Request(s)' = Request(s)
  BY <1>1, <1>4 DEF DispenserInv, Types, Request
<1>7. \A f \in Fundings : Funding(f)' = Funding(f)
  BY <1>1, <1>4 DEF DispenserInv, Types, Funding
<1> QED
  BY <1>1, <1>2, <1>3, <1>5, <1>6, <1>7

LEMMA FundFacts ==
  ASSUME DispenserInv, NEW f \in Fundings, NetworkFund(f)
  PROVE  /\ chain'[TheDispenser].dusdc = chain[TheDispenser].dusdc + Amount[f]
         /\ \A b \in Accounts \ {TheDispenser} : chain'[b] = chain[b]
         /\ Funding(f) = "committed" /\ Funding(f)' = "consumed"
         /\ \A g \in Fundings \ {f} : Funding(g)' = Funding(g)
         /\ \A p \in Payouts : note'[<<"payout", p>>] = note[<<"payout", p>>]
         /\ \A r \in Requests : Request(r)' = Request(r)
<1>1. /\ Funding(f) = "committed"
      /\ chain' = [chain EXCEPT ![TheDispenser] =
                     [nonce |-> @.nonce + 1, dusdc |-> @.dusdc + Amount[f]]]
      /\ note' = [note EXCEPT ![<<"funding", f>>] = "consumed"]
  BY DEF NetworkFund
<1>2. /\ chain'[TheDispenser].dusdc = chain[TheDispenser].dusdc + Amount[f]
      /\ \A b \in Accounts \ {TheDispenser} : chain'[b] = chain[b]
  BY <1>1, NoteIdsFacts DEF DispenserInv, Types
<1>3. /\ \A p \in Payouts : <<"payout", p>> \in NoteIds
      /\ \A r \in Requests : <<"request", r>> \in NoteIds
      /\ \A g \in Fundings : <<"funding", g>> \in NoteIds
  BY DEF NoteIds, Payouts
<1> QED
  BY <1>1, <1>2, <1>3 DEF DispenserInv, Types, Funding, Request

LEMMA ClaimFacts ==
  ASSUME DispenserInv, NEW r \in Requests, WalletClaims(r)
  PROVE  LET a == Requester[r]
         IN /\ a \in Accounts /\ a # TheDispenser
            /\ chain'[a].dusdc = chain[a].dusdc + DRIP_AMOUNT
            /\ \A b \in Accounts \ {a} : chain'[b] = chain[b]
            /\ Payout(r) \in Committed
            /\ \A p \in Payouts : note'[<<"payout", p>>] =
                                    IF p = Payout(r) THEN "consumed" ELSE note[<<"payout", p>>]
            /\ \A s \in Requests : Request(s)' = Request(s)
            /\ \A f \in Fundings : Funding(f)' = Funding(f)
<1> DEFINE a == Requester[r]
<1>1. /\ PayoutOf(r) = "committed"
      /\ chain' = [chain EXCEPT ![a] = [nonce |-> @.nonce + 1, dusdc |-> @.dusdc + DRIP_AMOUNT]]
      /\ note' = [note EXCEPT ![<<"payout", Payout(r)>>] = "consumed"]
  BY DEF WalletClaims
<1>2. a \in Accounts /\ a # TheDispenser
  BY DispenserAssumption DEF Accounts, Requesters
<1>3. chain'[a].dusdc = chain[a].dusdc + DRIP_AMOUNT /\ \A b \in Accounts \ {a} : chain'[b] = chain[b]
  BY <1>1, <1>2 DEF DispenserInv, Types
<1>4. /\ \A p \in Payouts : <<"payout", p>> \in NoteIds
      /\ \A s \in Requests : <<"request", s>> \in NoteIds
      /\ \A f \in Fundings : <<"funding", f>> \in NoteIds
      /\ Payout(r) \in Payouts
  BY DEF NoteIds, Payouts
<1>5. Payout(r) \in Committed
  BY <1>1, <1>4 DEF Committed, PayoutOf
<1>6. \A p \in Payouts : note'[<<"payout", p>>] =
                           IF p = Payout(r) THEN "consumed" ELSE note[<<"payout", p>>]
  BY <1>1, <1>4 DEF DispenserInv, Types
<1>7. /\ \A s \in Requests : Request(s)' = Request(s)
      /\ \A f \in Fundings : Funding(f)' = Funding(f)
  BY <1>1, <1>4 DEF DispenserInv, Types, Request, Funding
<1> QED
  BY <1>2, <1>3, <1>5, <1>6, <1>7

---------------------------------------------------------------------------
(* The conservation of dUSDC *)

Held == [a \in Accounts |-> chain[a].dusdc]

Afloat == [f \in Fundings |-> IF Funding(f) = "committed" THEN Amount[f] ELSE 0]

LEMMA FiniteParts ==
  /\ IsFiniteSet(Accounts) /\ IsFiniteSet(Payouts)
  /\ Sender \in Accounts
<1>1. IsFiniteSet(Payouts)
  <2> DEFINE f == [r \in Requests |-> Payout(r)]
  <2>1. f \in Surjection(Requests, Payouts)
    BY DEF Payouts, Surjection
  <2> HIDE DEF f
  <2> QED
    BY <2>1, DispenserAssumption, FS_Surjection
<1>2. IsFiniteSet(Requesters)
  <2> DEFINE f == [r \in Requests |-> Requester[r]]
  <2>1. f \in Surjection(Requests, Requesters)
    BY DEF Requesters, Surjection
  <2> HIDE DEF f
  <2> QED
    BY <2>1, DispenserAssumption, FS_Surjection
<1>3. IsFiniteSet(Requesters \cup {Sender})
  BY <1>2, FS_AddElement
<1>4. IsFiniteSet((Requesters \cup {Sender}) \cup {TheDispenser})
  BY <1>3, FS_AddElement
<1>5. Accounts = (Requesters \cup {Sender}) \cup {TheDispenser}
  BY DEF Accounts
<1> QED
  BY <1>1, <1>4, <1>5

\* The three terms of the sum are integers.
LEMMA TermTypes ==
  ASSUME Types
  PROVE  /\ Held \in [Accounts -> Int] /\ SumFunction(Held) \in Int
         /\ Afloat \in [Fundings -> Int] /\ SumFunction(Afloat) \in Int
         /\ IsFiniteSet(Committed) /\ Cardinality(Committed) \in Nat
<1>1. Held \in [Accounts -> Int]
  BY DEF Held, Types, Balance
<1>2. Afloat \in [Fundings -> Int]
  BY DispenserAssumption DEF Afloat
<1>3. IsFiniteSet(Committed) /\ Cardinality(Committed) \in Nat
  BY FiniteParts, FS_Subset, FS_CardinalityType DEF Committed
<1> QED
  BY <1>1, <1>2, <1>3, FiniteParts, DispenserAssumption, SumType

\* One account moves.
LEMMA HeldStep ==
  ASSUME Types, Types', NEW a \in Accounts,
         \A b \in Accounts \ {a} : chain'[b] = chain[b]
  PROVE  SumFunction(Held') = SumFunction(Held) + chain'[a].dusdc - chain[a].dusdc
<1>1. Held \in [Accounts -> Int] /\ Held' \in [Accounts -> Int]
  BY DEF Held, Types, Balance
<1>2. /\ Held[a] = chain[a].dusdc /\ Held'[a] = chain'[a].dusdc
      /\ \A b \in Accounts \ {a} : Held'[b] = Held[b]
  BY DEF Held
<1>3. SumFunction(Held') = SumFunction(Held) + Held'[a] - Held[a]
  BY <1>1, <1>2, FiniteParts, SumChange
<1> QED
  BY <1>2, <1>3

\* One funding note changes.
LEMMA AfloatStep ==
  ASSUME NEW f \in Fundings, \A g \in Fundings \ {f} : Funding(g)' = Funding(g)
  PROVE  SumFunction(Afloat') = SumFunction(Afloat) + Afloat'[f] - Afloat[f]
<1>1. Afloat \in [Fundings -> Int] /\ Afloat' \in [Fundings -> Int]
  BY DispenserAssumption DEF Afloat
<1>2. \A g \in Fundings \ {f} : Afloat'[g] = Afloat[g]
  BY DEF Afloat
<1> QED
  BY <1>1, <1>2, DispenserAssumption, SumChange

Balanced ==
  Supply = SumFunction(Held) + SumFunction(Afloat) + DRIP_AMOUNT * Cardinality(Committed)

LEMMA BalancedInit == Init => Balanced
<1> SUFFICES ASSUME Init PROVE Balanced
  OBVIOUS
<1>1. SumFunction(Afloat) = 0
  <2>1. Afloat \in [Fundings -> {0}]
    BY DEF Init, Afloat, Funding, NoteIds
  <2> QED
    BY <2>1, DispenserAssumption, SumZero
<1>2. Committed = {}
  BY DEF Init, Committed, NoteIds, Payouts
<1>3. SumFunction(Held) = Supply
  <2> DEFINE z == [a \in Accounts |-> 0]
  <2>1. z \in [Accounts -> {0}] /\ z \in [Accounts -> Int] /\ z[Sender] = 0
    BY FiniteParts
  <2>2. SumFunction(z) = 0
    BY <2>1, FiniteParts, SumZero
  <2>3. Held = [a \in Accounts |-> IF a = Sender THEN Supply ELSE 0]
    BY DEF Held, Init
  <2>4. Held \in [Accounts -> Int] /\ Held[Sender] = Supply
    BY <2>3, FiniteParts, DispenserAssumption
  <2>5. \A a \in Accounts \ {Sender} : Held[a] = z[a]
    BY <2>3
  <2> HIDE DEF z
  <2>6. SumFunction(Held) = SumFunction(z) + Held[Sender] - z[Sender]
    BY <2>1, <2>4, <2>5, FiniteParts, SumChange
  <2> QED
    BY <2>1, <2>2, <2>4, <2>6, DispenserAssumption
<1>4. DRIP_AMOUNT * Cardinality(Committed) = 0
  BY <1>2, FS_EmptySet, DispenserAssumption
<1> QED
  BY <1>1, <1>3, <1>4, DispenserAssumption DEF Balanced

LEMMA BalancedSubmit ==
  ASSUME DispenserInv, Types', Balanced, NEW j \in Jobs, JobSubmit(j)
  PROVE  Balanced'
<1> DEFINE a == Executor(j)
<1>1. PICK tx \in job[j].tx :
        /\ tx.inputs \subseteq Committed
        /\ a \in Accounts /\ a # TheDispenser
        /\ chain'[a].dusdc = chain[a].dusdc + DRIP_AMOUNT * Cardinality(tx.inputs)
                               - IF j[1] = "fund_dispenser" THEN Amount[j[2]] ELSE 0
        /\ \A b \in Accounts \ {a} : chain'[b] = chain[b]
        /\ \A p \in Payouts : note'[<<"payout", p>>] =
                                IF p \in tx.inputs THEN "consumed" ELSE note[<<"payout", p>>]
        /\ \A f \in Fundings : Funding(f)' = IF j = <<"fund_dispenser", f>>
                                             THEN "committed" ELSE Funding(f)
  BY SubmitFacts
<1> DEFINE n == Cardinality(tx.inputs)
           k == Cardinality(Committed)
           spent == IF j[1] = "fund_dispenser" THEN Amount[j[2]] ELSE 0
<1>2. /\ SumFunction(Held) \in Int /\ SumFunction(Afloat) \in Int
      /\ IsFiniteSet(Committed) /\ k \in Nat
  BY TermTypes DEF DispenserInv
<1>3. n \in Nat /\ Cardinality(Committed') = k - n
  <2>1. Committed' = Committed \ tx.inputs
    BY <1>1 DEF Committed
  <2>2. IsFiniteSet(tx.inputs) /\ Committed \cap tx.inputs = tx.inputs
    BY <1>1, <1>2, FS_Subset
  <2>3. Cardinality(Committed \ tx.inputs) = Cardinality(Committed) - Cardinality(tx.inputs)
    BY <1>2, <2>2, FS_Difference
  <2> QED
    BY <2>1, <2>2, <2>3, FS_CardinalityType
<1>4. spent \in Nat
  BY ExecutorAccount
<1>5. SumFunction(Afloat') = SumFunction(Afloat) + spent
  <2>1. CASE j[1] = "fund_dispenser"
    <3>1. j[2] \in Fundings /\ j = <<"fund_dispenser", j[2]>>
      BY <2>1, JobKinds
    <3>2. Funding(j[2]) = "absent"
      BY <3>1 DEF JobSubmit, DispenserInv, Sent
    <3>3. Funding(j[2])' = "committed" /\ \A g \in Fundings \ {j[2]} : Funding(g)' = Funding(g)
      BY <1>1, <3>1
    <3>4. Afloat[j[2]] = 0 /\ Afloat'[j[2]] = Amount[j[2]]
      BY <3>1, <3>2, <3>3 DEF Afloat
    <3>5. SumFunction(Afloat') = SumFunction(Afloat) + Amount[j[2]] - 0
      BY <3>1, <3>3, <3>4, AfloatStep
    <3>6. spent = Amount[j[2]]
      BY <2>1
    <3> QED
      BY <1>2, <1>4, <3>5, <3>6
  <2>2. CASE j[1] # "fund_dispenser"
    <3>1. Afloat' = Afloat
      BY <1>1, <2>2 DEF Afloat
    <3> QED
      BY <1>2, <2>2, <3>1
  <2> QED
    BY <2>1, <2>2
<1>6. SumFunction(Held') = SumFunction(Held) + DRIP_AMOUNT * n - spent
  <2>1. SumFunction(Held') = SumFunction(Held) + chain'[a].dusdc - chain[a].dusdc
    BY <1>1, HeldStep DEF DispenserInv
  <2>2. chain'[a].dusdc = chain[a].dusdc + DRIP_AMOUNT * n - spent
    BY <1>1
  <2>3. chain[a].dusdc \in Nat
    BY <1>1 DEF DispenserInv, Types, Balance
  <2>4. DRIP_AMOUNT * n \in Nat
    BY <1>3, DispenserAssumption
  <2> HIDE DEF n, spent, a
  <2> QED
    BY <1>2, <1>4, <2>1, <2>2, <2>3, <2>4
<1> HIDE DEF n, k, spent
<1>7. DRIP_AMOUNT * (k - n) = DRIP_AMOUNT * k - DRIP_AMOUNT * n
  BY <1>2, <1>3, DispenserAssumption
<1>8. DRIP_AMOUNT * k \in Int /\ DRIP_AMOUNT * n \in Int
  BY <1>2, <1>3, DispenserAssumption
<1>9. Supply = SumFunction(Held) + SumFunction(Afloat) + DRIP_AMOUNT * k
  BY DEF Balanced, k
<1>10. Supply = SumFunction(Held') + SumFunction(Afloat') + DRIP_AMOUNT * (k - n)
  BY <1>2, <1>4, <1>5, <1>6, <1>7, <1>8, <1>9
<1> QED
  BY <1>3, <1>10 DEF Balanced

LEMMA BalancedNext == DispenserInv /\ Types' /\ Balanced /\ [Next]_vars => Balanced'
<1> SUFFICES ASSUME DispenserInv, Types', Balanced, [Next]_vars PROVE Balanced'
  OBVIOUS
<1>0. Types
  BY DEF DispenserInv
<1> DEFINE k == Cardinality(Committed)
<1>1. /\ SumFunction(Held) \in Int /\ SumFunction(Afloat) \in Int
      /\ IsFiniteSet(Committed) /\ k \in Nat
  BY <1>0, TermTypes
<1>2. Supply = SumFunction(Held) + SumFunction(Afloat) + DRIP_AMOUNT * k
  BY DEF Balanced
<1>3. DRIP_AMOUNT * (k + 1) = DRIP_AMOUNT * k + DRIP_AMOUNT
      /\ DRIP_AMOUNT * (k - 1) = DRIP_AMOUNT * k - DRIP_AMOUNT
      /\ DRIP_AMOUNT * k \in Int /\ DRIP_AMOUNT \in Int
  <2> HIDE DEF k
  <2> QED
    BY <1>1, DispenserAssumption
<1>4. CASE chain' = chain /\ note' = note
  BY <1>4 DEF Balanced, Held, Afloat, Funding, Committed
<1>5. ASSUME NEW j \in Jobs, JobExecute(j) \/ JobStop(j)
      PROVE  Balanced'
  BY <1>4, <1>5 DEF JobExecute, JobStop
<1>6. ASSUME NEW r \in Requests, NetworkDrip(r)
      PROVE  Balanced'
  <2>1. /\ chain'[TheDispenser].dusdc = chain[TheDispenser].dusdc - DRIP_AMOUNT
        /\ \A b \in Accounts \ {TheDispenser} : chain'[b] = chain[b]
        /\ PayoutOf(r) = "absent"
        /\ \A p \in Payouts : note'[<<"payout", p>>] =
                                IF p = Payout(r) THEN "committed" ELSE note[<<"payout", p>>]
        /\ \A f \in Fundings : Funding(f)' = Funding(f)
    BY <1>6, DripFacts
  <2>2. Payout(r) \in Payouts /\ TheDispenser \in Accounts
    BY DEF Payouts, Accounts
  <2>3. Committed' = Committed \cup {Payout(r)} /\ Payout(r) \notin Committed
    BY <2>1, <2>2 DEF Committed, PayoutOf
  <2>4. Cardinality(Committed') = k + 1
    BY <1>1, <2>3, FS_AddElement
  <2>5. Afloat' = Afloat
    BY <2>1 DEF Afloat
  <2>6. chain[TheDispenser].dusdc \in Nat
    BY <1>0, <2>2 DEF Types, Balance
  <2>7. SumFunction(Held') = SumFunction(Held) + chain'[TheDispenser].dusdc
                               - chain[TheDispenser].dusdc
    BY <1>0, <2>1, <2>2, HeldStep
  <2> HIDE DEF k
  <2>8. SumFunction(Held') = SumFunction(Held) - DRIP_AMOUNT
    BY <1>1, <1>3, <2>1, <2>6, <2>7
  <2>9. Supply = SumFunction(Held') + SumFunction(Afloat') + DRIP_AMOUNT * (k + 1)
    BY <1>1, <1>2, <1>3, <2>5, <2>8
  <2> QED
    BY <2>4, <2>9 DEF Balanced
<1>7. ASSUME NEW f \in Fundings, NetworkFund(f)
      PROVE  Balanced'
  <2>1. /\ chain'[TheDispenser].dusdc = chain[TheDispenser].dusdc + Amount[f]
        /\ \A b \in Accounts \ {TheDispenser} : chain'[b] = chain[b]
        /\ Funding(f) = "committed" /\ Funding(f)' = "consumed"
        /\ \A g \in Fundings \ {f} : Funding(g)' = Funding(g)
        /\ \A p \in Payouts : note'[<<"payout", p>>] = note[<<"payout", p>>]
    BY <1>7, FundFacts
  <2>2. TheDispenser \in Accounts
    BY DEF Accounts
  <2>3. Committed' = Committed
    BY <2>1 DEF Committed
  <2>4. Afloat[f] = Amount[f] /\ Afloat'[f] = 0
    BY <2>1 DEF Afloat
  <2>5. SumFunction(Afloat') = SumFunction(Afloat) + 0 - Amount[f]
    BY <2>1, <2>4, AfloatStep
  <2>6. chain[TheDispenser].dusdc \in Nat /\ Amount[f] \in Nat
    BY <1>0, <2>2, DispenserAssumption DEF Types, Balance
  <2>7. SumFunction(Held') = SumFunction(Held) + chain'[TheDispenser].dusdc
                               - chain[TheDispenser].dusdc
    BY <1>0, <2>1, <2>2, HeldStep
  <2>8. SumFunction(Held') = SumFunction(Held) + Amount[f]
    BY <1>1, <2>1, <2>6, <2>7
  <2> HIDE DEF k
  <2>9. Supply = SumFunction(Held') + SumFunction(Afloat') + DRIP_AMOUNT * k
    BY <1>1, <1>2, <1>3, <2>5, <2>6, <2>8
  <2> QED
    BY <2>3, <2>9 DEF Balanced, k
<1>8. ASSUME NEW r \in Requests, WalletClaims(r)
      PROVE  Balanced'
  <2> DEFINE a == Requester[r]
  <2>1. /\ a \in Accounts
        /\ chain'[a].dusdc = chain[a].dusdc + DRIP_AMOUNT
        /\ \A b \in Accounts \ {a} : chain'[b] = chain[b]
        /\ Payout(r) \in Committed
        /\ \A p \in Payouts : note'[<<"payout", p>>] =
                                IF p = Payout(r) THEN "consumed" ELSE note[<<"payout", p>>]
        /\ \A f \in Fundings : Funding(f)' = Funding(f)
    BY <1>8, ClaimFacts
  <2>2. Committed' = Committed \ {Payout(r)}
    BY <2>1 DEF Committed
  <2>3. Cardinality(Committed') = k - 1
    BY <1>1, <2>1, <2>2, FS_RemoveElement
  <2>4. Afloat' = Afloat
    BY <2>1 DEF Afloat
  <2>5. chain[a].dusdc \in Nat
    BY <1>0, <2>1 DEF Types, Balance
  <2>6. SumFunction(Held') = SumFunction(Held) + chain'[a].dusdc - chain[a].dusdc
    BY <1>0, <2>1, HeldStep
  <2> HIDE DEF k, a
  <2>7. SumFunction(Held') = SumFunction(Held) + DRIP_AMOUNT
    BY <1>1, <1>3, <2>1, <2>5, <2>6
  <2>8. Supply = SumFunction(Held') + SumFunction(Afloat') + DRIP_AMOUNT * (k - 1)
    BY <1>1, <1>2, <1>3, <2>4, <2>7
  <2> QED
    BY <2>3, <2>8 DEF Balanced
<1>9. ASSUME NEW r \in Requests, NoteCommitted(r)
      PROVE  Balanced'
  BY <1>4, <1>9 DEF NoteCommitted
<1>10. CASE UNCHANGED vars
  BY <1>4, <1>10 DEF vars
<1> QED
  BY <1>5, <1>6, <1>7, <1>8, <1>9, <1>10, BalancedSubmit DEF Next

\* Accounts, funding notes and payouts hold together what the sender started
\* with: no race of claim_payout, the batch and the wallet for a payout makes
\* or loses dUSDC, and none is dripped on credit.
THEOREM DUsdcIsConserved == Spec => []Conserved
<1>1. Balanced => Conserved
  BY DEF Balanced, Conserved, Held, Afloat, Committed
<1>2. DispenserInv => Types
  BY DEF DispenserInv
<1>3. Spec => []Balanced
  BY <1>2, BalancedInit, BalancedNext, DispenserInvAlways, PTL DEF Spec
<1> QED
  BY <1>1, <1>3, PTL
---------------------------------------------------------------------------
(* The refinement of DripLedger *)

StageOf(r) ==
  CASE PayoutOf(r) = "consumed"  -> "received"
    [] PayoutOf(r) = "committed" -> "paid"
    [] OTHER -> IF Request(r) = "absent" THEN "none" ELSE "asked"

Stage == [r \in Requests |-> StageOf(r)]

Funded == {f \in Fundings : Funding(f) = "consumed"}

Reserve == chain[TheDispenser].dusdc

Received == [a \in Requesters |-> chain[a].dusdc]

LedgerVars == <<Stage, Funded, Reserve, Received>>

\* What DripLedger's actions say of these four.
LEMMA AskStep ==
  ASSUME NEW r \in Requests, Stage[r] = "none", Stage' = [Stage EXCEPT ![r] = "asked"],
         Funded' = Funded, Reserve' = Reserve, Received' = Received
  PROVE  Ledger!Next
<1>1. Ledger!Ask(r)
  BY DEF Ledger!Ask, Stage, StageOf, Funded, Reserve, Received
<1> QED
  BY <1>1 DEF Ledger!Next

LEMMA PayStep ==
  ASSUME NEW r \in Requests, Stage[r] = "asked", Stage' = [Stage EXCEPT ![r] = "paid"],
         Reserve >= DRIP_AMOUNT, Reserve' = Reserve - DRIP_AMOUNT,
         Funded' = Funded, Received' = Received
  PROVE  Ledger!Next
<1>1. Ledger!Pay(r)
  BY DEF Ledger!Pay, Stage, StageOf, Funded, Reserve, Received
<1> QED
  BY <1>1 DEF Ledger!Next

LEMMA FundStep ==
  ASSUME NEW f \in Fundings, f \notin Funded, Funded' = Funded \cup {f},
         Reserve' = Reserve + Amount[f], Stage' = Stage, Received' = Received
  PROVE  Ledger!Next
<1>1. Ledger!Fund(f)
  BY DEF Ledger!Fund, Stage, StageOf, Funded, Reserve, Received
<1> QED
  BY <1>1 DEF Ledger!Next

\* The instance's own copy of the operator.
LEMMA SameCardinality == ASSUME NEW S PROVE Ledger!Cardinality(S) = Cardinality(S)
BY DEF Ledger!Cardinality, Cardinality

LEMMA ReceiveStep ==
  ASSUME NEW a \in Requesters, NEW S \in SUBSET Requests, S # {},
         \A r \in S : Stage[r] = "paid" /\ Requester[r] = a,
         Stage' = [r \in Requests |-> IF r \in S THEN "received" ELSE Stage[r]],
         Received' = [Received EXCEPT ![a] = @ + DRIP_AMOUNT * Cardinality(S)],
         Funded' = Funded, Reserve' = Reserve
  PROVE  Ledger!Next
<1>1. Ledger!Receive(a, S)
  <2>1. S # {} /\ UNCHANGED <<Funded, Reserve>>
    OBVIOUS
  <2>2. \A r \in S : Stage[r] = "paid" /\ Requester[r] = a
    OBVIOUS
  <2>3. Received' = [Received EXCEPT ![a] = @ + DRIP_AMOUNT * Ledger!Cardinality(S)]
    BY SameCardinality
  <2> QED
    BY <2>1, <2>2, <2>3 DEF Ledger!Receive, Stage, StageOf, Funded, Reserve, Received
<1> QED
  BY <1>1 DEF Ledger!Next, Requesters

LEMMA StageCases ==
  ASSUME Types, NEW r \in Requests
  PROVE  /\ Stage[r] = StageOf(r)
         /\ PayoutOf(r) \in States /\ Payout(r) \in Payouts
         /\ PayoutOf(r) = "consumed" => StageOf(r) = "received"
         /\ PayoutOf(r) = "committed" => StageOf(r) = "paid"
         /\ PayoutOf(r) = "absent" =>
              StageOf(r) = IF Request(r) = "absent" THEN "none" ELSE "asked"
<1>1. <<"payout", Payout(r)>> \in NoteIds /\ Payout(r) \in Payouts
  BY DEF NoteIds, Payouts
<1>2. PayoutOf(r) \in States
  BY <1>1 DEF PayoutOf, Types
<1>3. Stage[r] = StageOf(r)
  BY DEF Stage
<1>4. /\ PayoutOf(r) = "consumed" => StageOf(r) = "received"
      /\ PayoutOf(r) = "committed" => StageOf(r) = "paid"
      /\ PayoutOf(r) = "absent" =>
           StageOf(r) = IF Request(r) = "absent" THEN "none" ELSE "asked"
  BY DEF StageOf
<1> QED
  BY <1>1, <1>2, <1>3, <1>4

\* A transaction of a requester that takes payouts N of its own.
LEMMA TakeStep ==
  ASSUME Types, NEW a \in Requesters, NEW N \in SUBSET Committed, N # {},
         \A p \in N : p[1] = a,
         chain'[a].dusdc = chain[a].dusdc + DRIP_AMOUNT * Cardinality(N),
         \A b \in Accounts \ {a} : chain'[b] = chain[b],
         \A p \in Payouts : note'[<<"payout", p>>] =
                               IF p \in N THEN "consumed" ELSE note[<<"payout", p>>],
         \A r \in Requests : Request(r)' = Request(r),
         \A f \in Fundings : Funding(f)' = Funding(f)
  PROVE  Ledger!Next
<1> DEFINE S == {r \in Requests : Payout(r) \in N}
<1>0. a \in Accounts /\ a # TheDispenser /\ TheDispenser \in Accounts
  BY DispenserAssumption DEF Accounts
<1>1. Cardinality(S) = Cardinality(N)
  <2> DEFINE f == [r \in S |-> Payout(r)]
  <2>1. IsFiniteSet(S)
    BY DispenserAssumption, FS_Subset
  <2>2. f \in Surjection(S, N)
    BY DEF Surjection, Committed, Payouts
  <2>3. f \in Injection(S, N)
    <3>1. \A r, s \in S : f[r] = f[s] => r = s
      BY PayoutInjective
    <3> QED
      BY <2>2, <3>1 DEF Surjection, Injection, IsInjective
  <2> HIDE DEF f, S
  <2> QED
    BY <2>1, <2>2, <2>3, FS_Surjection
<1>2. S # {}
  BY DEF Committed, Payouts
<1>3. ASSUME NEW r \in S
      PROVE  Stage[r] = "paid" /\ Requester[r] = a /\ StageOf(r)' = "received"
  <2>1. PayoutOf(r) = "committed" /\ Payout(r)[1] = a /\ Payout(r) \in Payouts
    BY DEF Committed, PayoutOf
  <2>2. Requester[r] = a
    BY <2>1 DEF Payout
  <2>3. PayoutOf(r)' = "consumed"
    BY <2>1 DEF PayoutOf
  <2>4. StageOf(r)' = "received"
    BY <2>3 DEF StageOf
  <2> QED
    BY <2>1, <2>2, <2>4, StageCases
<1>4. ASSUME NEW r \in Requests \ S
      PROVE  StageOf(r)' = Stage[r]
  <2>1. PayoutOf(r)' = PayoutOf(r)
    BY DEF PayoutOf, Payouts
  <2> QED
    BY <2>1 DEF Stage, StageOf
<1>5. S \in SUBSET Requests
  OBVIOUS
<1> HIDE DEF S
<1>6. Stage' = [r \in Requests |-> IF r \in S THEN "received" ELSE Stage[r]]
  <2>1. Stage' = [r \in Requests |-> StageOf(r)']
    BY DEF Stage
  <2>2. \A r \in Requests : StageOf(r)' = IF r \in S THEN "received" ELSE Stage[r]
    BY <1>3, <1>4
  <2> HIDE DEF Stage
  <2> QED
    BY <2>1, <2>2, Zenon
<1>7. Received' = [Received EXCEPT ![a] = @ + DRIP_AMOUNT * Cardinality(S)]
  <2> DEFINE gain == DRIP_AMOUNT * Cardinality(S)
  <2>1. chain'[a].dusdc = chain[a].dusdc + gain
    BY <1>1
  <2>2. \A b \in Requesters \ {a} : chain'[b] = chain[b]
    BY DEF Accounts
  <2> HIDE DEF gain
  <2>3. Received' = [Received EXCEPT ![a] = @ + gain]
    BY <2>1, <2>2 DEF Received
  <2> QED
    BY <2>3 DEF gain
<1>8. Funded' = Funded /\ Reserve' = Reserve
  BY <1>0 DEF Funded, Reserve
<1> QED
  BY <1>2, <1>3, <1>5, <1>6, <1>7, <1>8, ReceiveStep

\* Notes and balances that the ledger reads stay: so do its variables.
LEMMA StageKept ==
  ASSUME \A p \in Payouts : note'[<<"payout", p>>] = note[<<"payout", p>>],
         \A r \in Requests : Request(r)' = Request(r)
  PROVE  Stage' = Stage
<1>1. ASSUME NEW r \in Requests
      PROVE  StageOf(r)' = StageOf(r)
  <2>1. PayoutOf(r)' = PayoutOf(r)
    BY DEF PayoutOf, Payouts
  <2> QED
    BY <2>1 DEF StageOf
<1> QED
  BY <1>1 DEF Stage

LEMMA SubmitLedger ==
  ASSUME DispenserInv, NEW j \in Jobs, JobSubmit(j)
  PROVE  Ledger!Next \/ UNCHANGED LedgerVars
<1> DEFINE a == Executor(j)
<1>0. Types /\ TheDispenser \in Accounts
  BY DEF DispenserInv, Accounts
<1>1. PICK tx \in job[j].tx :
        /\ tx.inputs \subseteq Committed
        /\ a \in Accounts /\ a # TheDispenser
        /\ chain'[a].dusdc = chain[a].dusdc + DRIP_AMOUNT * Cardinality(tx.inputs)
                               - IF j[1] = "fund_dispenser" THEN Amount[j[2]] ELSE 0
        /\ \A b \in Accounts \ {a} : chain'[b] = chain[b]
        /\ \A p \in Payouts : note'[<<"payout", p>>] =
                                IF p \in tx.inputs THEN "consumed" ELSE note[<<"payout", p>>]
        /\ \A r \in Requests : Request(r)' = IF j = <<"drip_request", r>>
                                             THEN "committed" ELSE Request(r)
        /\ \A f \in Fundings : Funding(f)' = IF j = <<"fund_dispenser", f>>
                                             THEN "committed" ELSE Funding(f)
  BY SubmitFacts
<1>2. /\ \A p \in tx.inputs : p[1] = a
      /\ tx.inputs = {} <=> j[1] \in {"drip_request", "fund_dispenser"}
  BY <1>1 DEF DispenserInv, Sent
<1>3. chain[a].dusdc \in Nat /\ DRIP_AMOUNT * Cardinality(tx.inputs) \in Nat
  BY <1>0, <1>1, PayoutsFinite DEF Types, Balance, Committed
<1>4. Reserve' = Reserve
  BY <1>0, <1>1 DEF Reserve
<1>5. ASSUME NEW r \in Requests, j = <<"drip_request", r>>
      PROVE  Ledger!Next
  <2>1. job[j].phase = "executed"
    BY DEF JobSubmit
  <2>2. Request(r) = "absent" /\ PayoutOf(r) = "absent"
    BY <1>5, <2>1, StageCases, <1>0 DEF DispenserInv, Paid
  <2>3. tx.inputs = {}
    BY <1>2, <1>5
  <2>4. chain'[a].dusdc = chain[a].dusdc
    <3>1. DRIP_AMOUNT * Cardinality(tx.inputs) = 0
      BY <2>3, FS_EmptySet, DispenserAssumption
    <3>2. (IF j[1] = "fund_dispenser" THEN Amount[j[2]] ELSE 0) = 0
      BY <1>5
    <3> HIDE DEF a
    <3> QED
      BY <1>1, <1>3, <3>1, <3>2
  <2>5. Received' = Received
    BY <1>1, <2>4 DEF Received, Accounts
  <2>6. \A s \in Requests : PayoutOf(s)' = PayoutOf(s)
    BY <1>1, <2>3 DEF PayoutOf, Payouts
  <2>7. Request(r)' = "committed" /\ \A s \in Requests \ {r} : Request(s)' = Request(s)
    BY <1>1, <1>5
  <2>8. StageOf(r) = "none" /\ StageOf(r)' = "asked"
    BY <2>2, <2>6, <2>7 DEF StageOf
  <2>9. \A s \in Requests \ {r} : StageOf(s)' = StageOf(s)
    BY <2>6, <2>7 DEF StageOf
  <2>10. Stage' = [Stage EXCEPT ![r] = "asked"] /\ Stage[r] = "none"
    BY <2>8, <2>9 DEF Stage
  <2>11. Funded' = Funded
    BY <1>1, <1>5 DEF Funded
  <2> QED
    BY <1>4, <2>5, <2>10, <2>11, AskStep
<1>6. ASSUME NEW f \in Fundings, j = <<"fund_dispenser", f>>
      PROVE  UNCHANGED LedgerVars
  <2>1. Funding(f) = "absent" /\ a = Sender
    BY <1>6 DEF DispenserInv, Sent, JobSubmit, Executor
  <2>2. tx.inputs = {}
    BY <1>2, <1>6
  <2>3. Received' = Received
    BY <1>1, <2>1, DispenserAssumption DEF Received, Accounts
  <2>4. Stage' = Stage
    BY <1>1, <1>6, <2>2, StageKept
  <2>5. Funded' = Funded
    <3>1. \A g \in Fundings : Funding(g)' = "consumed" <=> Funding(g) = "consumed"
      BY <1>1, <1>6, <2>1
    <3> QED
      BY <3>1 DEF Funded
  <2> QED
    BY <1>4, <2>3, <2>4, <2>5 DEF LedgerVars
<1>7. ASSUME j[1] \in {"claim_payout", "devnet_consume_drips"}
      PROVE  Ledger!Next
  <2>1. a \in Requesters
    BY <1>7, JobKinds
  <2>2. tx.inputs # {}
    BY <1>2, <1>7
  <2>3. chain'[a].dusdc = chain[a].dusdc + DRIP_AMOUNT * Cardinality(tx.inputs)
    <3>1. (IF j[1] = "fund_dispenser" THEN Amount[j[2]] ELSE 0) = 0
      BY <1>7
    <3> HIDE DEF a
    <3> QED
      BY <1>1, <1>3, <3>1
  <2>4. /\ \A r \in Requests : Request(r)' = Request(r)
        /\ \A f \in Fundings : Funding(f)' = Funding(f)
    BY <1>1, <1>7
  <2> HIDE DEF a
  <2> QED
    BY <1>0, <1>1, <1>2, <2>1, <2>2, <2>3, <2>4, TakeStep
<1> QED
  BY <1>5, <1>6, <1>7, JobKinds

LEMMA DripLedgerStep ==
  ASSUME DispenserInv, NEW r \in Requests, NetworkDrip(r)
  PROVE  Ledger!Next
<1>0. Types /\ TheDispenser \in Accounts
  BY DEF DispenserInv, Accounts
<1>1. /\ chain[TheDispenser].dusdc >= DRIP_AMOUNT
      /\ chain'[TheDispenser].dusdc = chain[TheDispenser].dusdc - DRIP_AMOUNT
      /\ \A b \in Accounts \ {TheDispenser} : chain'[b] = chain[b]
      /\ Request(r) = "committed" /\ PayoutOf(r) = "absent"
      /\ \A s \in Requests \ {r} : Request(s)' = Request(s)
      /\ \A p \in Payouts : note'[<<"payout", p>>] =
                              IF p = Payout(r) THEN "committed" ELSE note[<<"payout", p>>]
      /\ \A f \in Fundings : Funding(f)' = Funding(f)
  BY DripFacts
<1>2. PayoutOf(r)' = "committed"
  BY <1>1, StageCases, <1>0 DEF PayoutOf
<1>3. StageOf(r) = "asked" /\ StageOf(r)' = "paid"
  BY <1>1, <1>2 DEF StageOf
<1>4. ASSUME NEW s \in Requests \ {r}
      PROVE  StageOf(s)' = StageOf(s)
  <2>1. Payout(s) # Payout(r) /\ Payout(s) \in Payouts
    BY PayoutInjective DEF Payouts
  <2>2. PayoutOf(s)' = PayoutOf(s)
    BY <1>1, <2>1 DEF PayoutOf
  <2> QED
    BY <1>1, <2>2 DEF StageOf
<1>5. Stage[r] = "asked" /\ Stage' = [Stage EXCEPT ![r] = "paid"]
  BY <1>3, <1>4 DEF Stage
<1>6. Reserve >= DRIP_AMOUNT /\ Reserve' = Reserve - DRIP_AMOUNT
  BY <1>1 DEF Reserve
<1>7. Funded' = Funded
  BY <1>1 DEF Funded
<1>8. Received' = Received
  BY <1>1, DispenserAssumption DEF Received, Accounts
<1> QED
  BY <1>5, <1>6, <1>7, <1>8, PayStep

LEMMA FundLedgerStep ==
  ASSUME DispenserInv, NEW f \in Fundings, NetworkFund(f)
  PROVE  Ledger!Next
<1>1. /\ chain'[TheDispenser].dusdc = chain[TheDispenser].dusdc + Amount[f]
      /\ \A b \in Accounts \ {TheDispenser} : chain'[b] = chain[b]
      /\ Funding(f) = "committed" /\ Funding(f)' = "consumed"
      /\ \A g \in Fundings \ {f} : Funding(g)' = Funding(g)
      /\ \A p \in Payouts : note'[<<"payout", p>>] = note[<<"payout", p>>]
      /\ \A r \in Requests : Request(r)' = Request(r)
  BY FundFacts
<1>2. Stage' = Stage
  BY <1>1, StageKept
<1>3. f \notin Funded /\ Funded' = Funded \cup {f}
  BY <1>1 DEF Funded
<1>4. Reserve' = Reserve + Amount[f]
  BY <1>1 DEF Reserve
<1>5. Received' = Received
  BY <1>1, DispenserAssumption DEF Received, Accounts
<1> QED
  BY <1>2, <1>3, <1>4, <1>5, FundStep

LEMMA ClaimLedgerStep ==
  ASSUME DispenserInv, NEW r \in Requests, WalletClaims(r)
  PROVE  Ledger!Next
<1> DEFINE a == Requester[r]
           N == {Payout(r)}
<1>1. /\ chain'[a].dusdc = chain[a].dusdc + DRIP_AMOUNT
      /\ \A b \in Accounts \ {a} : chain'[b] = chain[b]
      /\ Payout(r) \in Committed
      /\ \A p \in Payouts : note'[<<"payout", p>>] =
                              IF p = Payout(r) THEN "consumed" ELSE note[<<"payout", p>>]
      /\ \A s \in Requests : Request(s)' = Request(s)
      /\ \A f \in Fundings : Funding(f)' = Funding(f)
  BY ClaimFacts
<1>2. a \in Requesters /\ N \in SUBSET Committed /\ N # {} /\ \A p \in N : p[1] = a
  BY <1>1 DEF Requesters, Payout
<1>3. DRIP_AMOUNT * Cardinality(N) = DRIP_AMOUNT
  <2>1. Cardinality(N) = 1
    BY FS_Singleton
  <2> HIDE DEF N
  <2> QED
    BY <2>1, DispenserAssumption
<1>4. \A p \in Payouts : note'[<<"payout", p>>] =
                            IF p \in N THEN "consumed" ELSE note[<<"payout", p>>]
  BY <1>1
<1>5. Types
  BY DEF DispenserInv
<1>6. chain'[a].dusdc = chain[a].dusdc + DRIP_AMOUNT * Cardinality(N)
  BY <1>1, <1>3
<1> HIDE DEF a, N
<1> QED
  BY <1>1, <1>2, <1>4, <1>5, <1>6, TakeStep

LEMMA LedgerNext == DispenserInv /\ [Next]_vars => Ledger!Next \/ UNCHANGED LedgerVars
<1> SUFFICES ASSUME DispenserInv, [Next]_vars PROVE Ledger!Next \/ UNCHANGED LedgerVars
  OBVIOUS
<1>1. CASE chain' = chain /\ note' = note
  <2>1. Stage' = Stage
    BY <1>1, StageKept DEF Request
  <2>2. Funded' = Funded /\ Reserve' = Reserve /\ Received' = Received
    BY <1>1 DEF Funded, Reserve, Received, Funding
  <2> QED
    BY <2>1, <2>2 DEF LedgerVars
<1>2. CASE UNCHANGED vars
  BY <1>1, <1>2 DEF vars
<1>3. ASSUME NEW j \in Jobs, JobExecute(j) \/ JobStop(j)
      PROVE  UNCHANGED <<chain, note>>
  BY <1>3 DEF JobExecute, JobStop
<1>4. ASSUME NEW r \in Requests, NoteCommitted(r)
      PROVE  UNCHANGED <<chain, note>>
  BY <1>4 DEF NoteCommitted
<1> QED
  BY <1>1, <1>2, <1>3, <1>4, SubmitLedger, DripLedgerStep, FundLedgerStep, ClaimLedgerStep
  DEF Next

\* The dispenser, its clients and the wallets implement the ledger that
\* DripLedger promises: each request is paid once out of a reserve that never
\* goes below zero, and each payout reaches its requester once, whichever of
\* claim_payout, the batch and the wallet gets there first.
THEOREM DispenserImplementsDrips == Spec => ImplementsDrips
<1>1. Init => Ledger!Init
  <2> SUFFICES ASSUME Init PROVE Ledger!Init
    OBVIOUS
  <2>1. Stage = [r \in Requests |-> "none"]
    BY NoteIdsFacts DEF Init, Stage, StageOf, PayoutOf, Request
  <2>2. Funded = {}
    BY NoteIdsFacts DEF Init, Funded, Funding
  <2>3. Reserve = 0
    BY NoteIdsFacts, DispenserAssumption DEF Init, Reserve
  <2>4. Received = [a \in Requesters |-> 0]
    BY DispenserAssumption DEF Init, Received, Accounts
  <2> QED
    BY <2>1, <2>2, <2>3, <2>4
    DEF Ledger!Init, Stage, StageOf, Funded, Reserve, Received, Requesters
<1>2. DispenserInv /\ [Next]_vars => Ledger!Next \/ UNCHANGED LedgerVars
  BY LedgerNext
<1>3. UNCHANGED LedgerVars <=> UNCHANGED Ledger!dripVars
  BY DEF LedgerVars, Ledger!dripVars, Stage, StageOf, Funded, Reserve, Received
<1>4. DispenserInv /\ [Next]_vars => [Ledger!Next]_(Ledger!dripVars)
  BY <1>2, <1>3
<1> QED
  BY <1>1, <1>4, DispenserInvAlways, PTL DEF Spec, ImplementsDrips, Ledger!Spec
=============================================================================
