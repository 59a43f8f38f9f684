----------------------------- MODULE DripLedger -----------------------------
(***************************************************************************)
(* What the permissionless dispenser promises: a request that was asked is *)
(* paid at most once, out of a reserve that never goes below zero, and what *)
(* was paid reaches the account that the request names, once.              *)
(***************************************************************************)
EXTENDS Integers, FiniteSets

CONSTANTS Requests,     \* drip requests
          Requester,    \* the account each one pays
          Fundings,     \* funding notes
          Amount,       \* what each of them carries
          DRIP_AMOUNT   \* the fixed payout

VARIABLES stage,     \* how far each request got
          funded,    \* the funding notes that arrived
          reserve,   \* what the dispenser holds
          received   \* what each account got

dripVars == <<stage, funded, reserve, received>>

Stages == {"none", "asked", "paid", "received"}

Init ==
  /\ stage = [r \in Requests |-> "none"]
  /\ funded = {}
  /\ reserve = 0
  /\ received = [a \in {Requester[r] : r \in Requests} |-> 0]

Ask(r) ==
  /\ stage[r] = "none"
  /\ stage' = [stage EXCEPT ![r] = "asked"]
  /\ UNCHANGED <<funded, reserve, received>>

Fund(f) ==
  /\ f \notin funded
  /\ funded' = funded \cup {f}
  /\ reserve' = reserve + Amount[f]
  /\ UNCHANGED <<stage, received>>

Pay(r) ==
  /\ stage[r] = "asked"
  /\ reserve >= DRIP_AMOUNT
  /\ stage' = [stage EXCEPT ![r] = "paid"]
  /\ reserve' = reserve - DRIP_AMOUNT
  /\ UNCHANGED <<funded, received>>

\* One transaction of account a may take several payouts.
Receive(a, S) ==
  /\ S # {}
  /\ \A r \in S : stage[r] = "paid" /\ Requester[r] = a
  /\ stage' = [r \in Requests |-> IF r \in S THEN "received" ELSE stage[r]]
  /\ received' = [received EXCEPT ![a] = @ + DRIP_AMOUNT * Cardinality(S)]
  /\ UNCHANGED <<funded, reserve>>

Next ==
  \/ \E r \in Requests : Ask(r) \/ Pay(r)
  \/ \E f \in Fundings : Fund(f)
  \/ \E a \in {Requester[r] : r \in Requests}, S \in SUBSET Requests : Receive(a, S)

Spec == Init /\ [][Next]_dripVars
=============================================================================
