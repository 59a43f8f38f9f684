--------------------------- MODULE MCDeployment ---------------------------
(***************************************************************************)
(* An instance of Deployment for TLC, on a testnet of wire format 0.15:    *)
(* the controller c7 and two init processes that route fees differently, a *)
(* third with a mistyped network, a network controller and one that aims   *)
(* at it, a v5 package whose roots rotated, and a faucet minted from.      *)
(***************************************************************************)
EXTENDS Deployment, TLC

CONSTANTS c5, c7, n9, fct, i1, i2, typo, aimed, m1, m2, m3, relay, operator

McTool == [d \in {c5, c7, n9, fct} |->
             CASE d = c5  -> "deploy_v5"
               [] d = c7  -> "deploy_v7"
               [] d = n9  -> "deploy_v9_network"
               [] d = fct -> "deploy_devnet_faucet"]

McPackage == [d \in {c5, c7, n9} |-> IF d = c5 THEN "v5" ELSE "v6"]

McWire == [d \in {c5, c7, n9} |-> "0.15"]

McInitTool == [i \in {i1, i2, typo, aimed} |-> "deploy_v6_init"]

McTarget == [i \in {i1, i2, typo, aimed} |-> IF i = aimed THEN n9 ELSE c7]

McEnv == [i \in {i1, i2, typo, aimed} |->
            CASE i = i1 -> "unset" [] i = typo -> "tesnet" [] OTHER -> "testnet"]

McOverride == [i \in {i1, i2, typo, aimed} |-> IF i = i1 THEN relay ELSE NoRecipient]

McDefaultRecipient == [n \in {"testnet", "devnet"} |-> operator]

McFaucet == [m \in {m1, m2, m3} |-> fct]

McAmount == [m \in {m1, m2, m3} |-> 2]

\* The three mints differ in nothing but their serial number.
McSymmetry == Permutations({m1, m2, m3})
===========================================================================
