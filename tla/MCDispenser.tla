---------------------------- MODULE MCDispenser ----------------------------
(***************************************************************************)
(* Two requests of one account and one of another; the two fundings pay    *)
(* for two drips, one of them exactly.  Each account has its own store.    *)
(***************************************************************************)
EXTENDS Dispenser

CONSTANTS r1, r2, r3, f1, f2, alice, bob

McRequester == [r \in {r1, r2, r3} |-> IF r = r3 THEN bob ELSE alice]

McHome == [a \in {alice, bob} |-> a]

McSerial == [r \in {r1, r2, r3} |-> CASE r = r1 -> 1 [] r = r2 -> 2 [] r = r3 -> 3]

McAmount == [f \in {f1, f2} |-> IF f = f1 THEN 5 ELSE 7]
=============================================================================
