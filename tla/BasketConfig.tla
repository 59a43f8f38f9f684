--------------------------- MODULE BasketConfig ---------------------------
(***************************************************************************)
(* The configuration a controller keeps about its baskets: target weights  *)
(* (slot 3) and fees (slot 4) under the basket's faucet id, and the fee    *)
(* recipient (slot 11).                                                    *)
(***************************************************************************)
EXTENDS Integers

CONSTANTS Recipients,  \* the accounts fees may be routed to
          NoRecipient  \* slot 11 before it is written

ASSUME RecipientsAssumption == NoRecipient \notin Recipients

Symbols == {"DCC", "DAG", "DCO"}

\* A basket's faucet id changes with every redeployment of the faucets: the
\* first one, and those pinned for testnet and for devnet.
Eras == {"m1", "testnet", "devnet"}

Keys == Eras \X Symbols

\* A map entry that was never written; the fourth felt is always 0.
Zero == <<0, 0, 0>>

weights_for(symbol) ==
  CASE symbol = "DCC" -> <<4000, 4000, 2000>>
    [] symbol = "DAG" -> <<3000, 4000, 3000>>
    [] symbol = "DCO" -> <<2000, 5000, 3000>>

fees_for(symbol) == <<200, 150, 100>>

Config == [weights   : [Keys -> {Zero} \cup {weights_for(s) : s \in Symbols}],
           fees      : [Keys -> {Zero} \cup {fees_for(s) : s \in Symbols}],
           recipient : Recipients \cup {NoRecipient}]

NoConfig == [weights   |-> [k \in Keys |-> Zero],
             fees      |-> [k \in Keys |-> Zero],
             recipient |-> NoRecipient]

\* Mutant of Configured: the fees are written for the first basket only.
ConfiguredFirstFee(c, era, r) ==
  [weights   |-> [k \in Keys |-> IF k[1] = era THEN weights_for(k[2]) ELSE c.weights[k]],
   fees      |-> [c.fees EXCEPT ![<<era, "DCC">>] = fees_for("DCC")],
   recipient |-> r]

\* What one admin script makes of a configuration: every basket of its era,
\* in both maps, under the key [suffix, prefix, 0, 0] of the basket's faucet.
Configured(c, era, r) ==
  [weights   |-> [k \in Keys |-> IF k[1] = era THEN weights_for(k[2]) ELSE c.weights[k]],
   fees      |-> [k \in Keys |-> IF k[1] = era THEN fees_for(k[2]) ELSE c.fees[k]],
   recipient |-> r]

Written(c, era) ==
  \A s \in Symbols : /\ c.weights[<<era, s>>] = weights_for(s)
                     /\ c.fees[<<era, s>>] = fees_for(s)

Unwritten(c, era) ==
  \A s \in Symbols : c.weights[<<era, s>>] = Zero /\ c.fees[<<era, s>>] = Zero

\* The baskets of an era are all there or all missing, and an era of the
\* fee-routing controllers comes with somebody to route the fees to.
Whole(c) ==
  /\ \A era \in Eras : Written(c, era) \/ Unwritten(c, era)
  /\ c.recipient = NoRecipient => \A era \in Eras \ {"m1"} : Unwritten(c, era)
===========================================================================
