---------------------------- MODULE MCValuation ----------------------------
(***************************************************************************)
(* An instance of Valuation for TLC.  A dollar is 100 and a stable feed is *)
(* at a tenth of that scale: usdt's is, dai's is not.  The ranges of eth   *)
(* and wbtc overlap.  Doubles have eight bits, so that a burn of 24 rounds *)
(* up in the share of 40 % and its products wrap, and a burn of 3 does not. *)
(* The keeper's field is small: for the larger value the numerator of an   *)
(* accrual over six blocks wraps, and so do the largest pools whose drift  *)
(* is checked.                                                             *)
(***************************************************************************)
EXTENDS Valuation

McRaw == [p \in Pairs |->
            CASE p = "eth"  -> {400, 900}
              [] p = "wbtc" -> {800, 2700, 5000}
              [] p = "usdt" -> {0, 3, 11, 120}
              [] p = "dai"  -> {98, 101, 300}]

McFeed == [p \in Pairs |-> IF p = "usdt" THEN 10 ELSE 100]

McUnit == [p \in Pairs |-> CASE p \in {"eth", "dai"} -> 100
                             [] p \in {"wbtc", "usdt"} -> 10]

McSanity == [p \in Pairs |-> CASE p = "eth"  -> <<300, 3000>>
                               [] p = "wbtc" -> <<700, 4000>>
                               [] p \in {"usdt", "dai"} -> <<50, 200>>]

McHoldings ==
  {<<<<a, 2>>, <<b, 3>>>> : a, b \in 0..5}
    \cup {<<<<a, 20>>, <<b, 20>>>> : a, b \in 0..5}
    \cup {<<<<a, 1>>, <<b, 2>>, <<3, 2>>>> : a, b \in 0..4}

McSpacings == {2 ^ k : k \in 0..20}

McTargets == <<4, 4, 2, 0>>
===========================================================================
