---------------------------- MODULE NoteScripts ----------------------------
(***************************************************************************)
(* The note scripts that a Darwin controller account consumes, and what    *)
(* consuming a note does to the controller: which assets enter the vault   *)
(* and which word the script writes into the user_positions map (slot 10). *)
(*                                                                         *)
(* Assets are abstracted to indivisible lots: a lot is the whole amount of *)
(* one asset that travels together.  A note carries a set of lots, an      *)
(* account's vault is a set of lots.  Every note carries three storage     *)
(* felts <<s1, s2, s3>> (deposit value, fee factor, NAV scale; for a       *)
(* redeem note burn amount, release factor, scale) and its user's id.      *)
(***************************************************************************)
EXTENDS Felt, FiniteSets

CONSTANTS Users,       \* holders of a wallet, and the keys of slot 10
          Lots,        \* the asset lots in circulation
          Exports,     \* the procedures the controller's package exports
          Notes,       \* identities of the notes
          Note,        \* what each note carries
          Controller,  \* the controller account
          Funds        \* the lots each user's wallet starts with

Scripts == {"deposit_v1", "deposit_v2", "deposit_v3", "redeem", "rebalance"}

Procedures == {"receive_asset", "set_user_position", "receive_and_credit",
               "execute_rebalance_step"}

ASSUME ExportsAssumption == Exports \subseteq Procedures

NoteRecord == [script : Scripts, user : Users, lots : SUBSET Lots,
               storage : FeltSet \X FeltSet \X FeltSet]

ASSUME NotesAssumption ==
  /\ Note \in [Notes -> NoteRecord]
  /\ Controller \notin Users
  /\ Funds \in [Users -> SUBSET Lots]

\* Every lot starts in exactly one wallet.
ASSUME FundsAssumption ==
  /\ \A l \in Lots : \E u \in Users : l \in Funds[u]
  /\ \A u, v \in Users : Funds[u] \cap Funds[v] # {} => u = v

Accounts == Users \cup {Controller}

AccountState == [nonce : Nat, vault : SUBSET Lots, position : [Users -> Nat]]

(***************************************************************************)
(* The controller procedures a script calls by MAST root; calling one the  *)
(* account does not export traps.                                          *)
(***************************************************************************)
Calls(n) ==
  CASE n.script = "rebalance"  -> {"execute_rebalance_step"}
    [] n.script = "deposit_v2" -> {"set_user_position", "receive_asset"}
    [] n.script = "deposit_v3" -> {"receive_and_credit"}
    [] OTHER                   -> {"receive_asset"}

(***************************************************************************)
(* The division every deposit and redeem script performs, as the stack     *)
(* operations order it.  v3 pushes the NAV scale first, so it divides by   *)
(* it; v1, v2 and redeem push it last and multiply it with the factor, so  *)
(* the divisor is the first storage felt.                                  *)
(***************************************************************************)
Dividend(n) ==
  IF n.script = "deposit_v3" THEN FeltMul(n.storage[1], n.storage[2])
                             ELSE FeltMul(n.storage[2], n.storage[3])

Divisor(n) == IF n.script = "deposit_v3" THEN n.storage[3] ELSE n.storage[1]

Quotient(n) == felt_div(Dividend(n), Divisor(n))

\* v2 and v3 store the quotient in the user's slot-10 entry; v1 and redeem drop it.
Credits(n) == n.script \in {"deposit_v2", "deposit_v3"}

(***************************************************************************)
(* Whether a controller transaction that consumes n executes to the end.   *)
(* The drain loop of v1, v2 and redeem hands every lot to receive_asset.   *)
(* v3 passes exactly the first asset to receive_and_credit: with none      *)
(* there is no asset word to add, with more the kernel finds lots that     *)
(* left the note and arrived nowhere.  The rebalance trigger moves none.   *)
(***************************************************************************)
Executable(n) ==
  /\ Calls(n) \subseteq Exports
  /\ n.script = "deposit_v3" => \E l \in Lots : n.lots = {l}
  /\ n.script = "rebalance"  => n.lots = {}
  /\ n.script # "rebalance"  => Divisor(n) # 0

\* Mutants of RunScript: the script forgets to hand over the assets; a redemption
\* stores its quotient too; everybody but the depositor is credited; the quotient
\* is taken off the entry.
RunScriptKeepsAssets(n, acct) ==
  [nonce    |-> acct.nonce + 1,
   vault    |-> acct.vault,
   position |-> [u \in Users |-> IF Credits(n) /\ u = n.user THEN Quotient(n)
                                                            ELSE acct.position[u]]]

RunScriptRedeemStores(n, acct) ==
  [nonce    |-> acct.nonce + 1,
   vault    |-> acct.vault \cup n.lots,
   position |-> [u \in Users |-> IF n.script \in {"deposit_v2", "deposit_v3", "redeem"} /\ u = n.user
                                 THEN Quotient(n) ELSE acct.position[u]]]

RunScriptWrongUser(n, acct) ==
  [nonce    |-> acct.nonce + 1,
   vault    |-> acct.vault \cup n.lots,
   position |-> [u \in Users |-> IF Credits(n) /\ u # n.user THEN Quotient(n)
                                                            ELSE acct.position[u]]]

RunScriptDebits(n, acct) ==
  [nonce    |-> acct.nonce + 1,
   vault    |-> acct.vault \cup n.lots,
   position |-> [u \in Users |-> IF Credits(n) /\ u = n.user
                                 THEN acct.position[u] - Quotient(n)
                                 ELSE acct.position[u]]]

(***************************************************************************)
(* The controller after a transaction that consumed n.  The slot-10 write  *)
(* is set_map_item: it stores the quotient whatever the entry held before. *)
(***************************************************************************)
RunScript(n, acct) ==
  [nonce    |-> acct.nonce + 1,
   vault    |-> acct.vault \cup n.lots,
   position |-> [u \in Users |-> IF Credits(n) /\ u = n.user THEN Quotient(n)
                                                            ELSE acct.position[u]]]
===========================================================================
