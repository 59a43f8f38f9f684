------------------------- MODULE MCDepositNetwork -------------------------
(***************************************************************************)
(* Instances of DepositNetwork for TLC: u1 is the operator wallet of the   *)
(* flow binaries, u2 deposits through the web front end.                   *)
(***************************************************************************)
EXTENDS DepositNetwork, Packages

CONSTANTS u1, u2, d1, d2, w1, bad, red, trig, old, late, lotA, lotB, lotC, lotD, lotE

McUsers == {u1, u2}

McLots == {lotA, lotB, lotC, lotD, lotE}

McFunds == [u \in McUsers |-> IF u = u1 THEN {lotA, lotB} ELSE {lotC, lotD, lotE}]

\* Each instance takes some of these notes.  d1 and d2 are v3 deposits and red
\* the redeem note of one user's flow runs, trig is the trigger of flow_b_demo.
\* The others carry the relay's tag: w1 is a v2 deposit of the front end, old a v1
\* deposit; bad is a v3 note with two assets, which no controller can consume, and
\* late one for a controller whose package has no receive_and_credit.
McNote ==
  [n \in Notes |->
    CASE n = d1   -> [script |-> "deposit_v3", user |-> u1, lots |-> {lotA},
                      storage |-> <<75, 9970, 1>>]
      [] n = d2   -> [script |-> "deposit_v3", user |-> u1, lots |-> {lotB},
                      storage |-> <<25, 9970, 1>>]
      [] n = red  -> [script |-> "redeem", user |-> u1, lots |-> {lotB},
                      storage |-> <<50, 9970, 1>>]
      [] n = trig -> [script |-> "rebalance", user |-> u1, lots |-> {},
                      storage |-> <<0, 0, 0>>]
      [] n = w1   -> [script |-> "deposit_v2", user |-> u2, lots |-> {lotC},
                      storage |-> <<200, 9970, 10>>]
      [] n = late -> [script |-> "deposit_v3", user |-> u2, lots |-> {lotC},
                      storage |-> <<200, 9970, 10>>]
      [] n = old  -> [script |-> "deposit_v1", user |-> u2, lots |-> {lotD, lotE},
                      storage |-> <<200, 9970, 10>>]
      [] n = bad  -> [script |-> "deposit_v3", user |-> u2, lots |-> {lotD, lotE},
                      storage |-> <<75, 9970, 1>>]]

\* What the notes call of the current package, and of the one before it.
McExports == V6 \cap Procedures

OlderExports == V5 \cap Procedures

\* The controllers of deploy_v5 and deploy_v6 are private.
NobodyPublic == {}
===========================================================================
