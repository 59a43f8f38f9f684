---------------------------- MODULE Deployment ----------------------------
(***************************************************************************)
(* How accounts come to the chain and get configured.  The deploy binaries *)
(* build an account with a fresh seed and put it into a client store; a    *)
(* signed account reaches the chain with its first transaction, a network  *)
(* account with an empty one its binary submits.  The init binaries run an *)
(* admin script against a controller, devnet_mint_to_operator one against  *)
(* a faucet.  All of them are clients that die anywhere and race.          *)
(***************************************************************************)
EXTENDS BasketConfig, Packages, FiniteSetsExt

CONSTANTS Deploys,      \* runs of deploy binaries, and the accounts they make
          Tool,         \* the binary of each run
          Package,      \* the package of each controller
          Wire,         \* the wire format it was assembled for
          Rotate,       \* runs with DARWIN_ALLOW_MAST_ROTATION=1
          Inits,        \* runs of init binaries
          InitTool,     \* the binary of each one
          Target,       \* its --controller
          Env,          \* its MIDEN_NETWORK, in lower case, or "unset"
          Override,     \* its DARWIN_FEE_RECIPIENT_HEX, or NoRecipient
          DefaultRecipient, \* the fee recipient pinned for testnet and devnet
          Mints,        \* runs of devnet_mint_to_operator
          Faucet,       \* the faucet each one mints from
          Amount,       \* how much
          MaxSupply,    \* of every faucet
          Node,         \* the network all of them connect to
          MaxTraffic    \* bound: other transactions of the public controllers

SignedTools == {"deploy_v5", "deploy_v6", "deploy_v7", "deploy_devnet_faucet",
                "create_devnet_operator_wallet"}

NetworkTools == {"deploy_v9_network", "deploy_v10_faucet", "deploy_dispenser"}

\* miden_endpoint: what it does not know is testnet.
miden_endpoint(env) ==
  CASE env = "devnet"                -> "devnet"
    [] env \in {"localhost", "local"} -> "localhost"
    [] OTHER                         -> "testnet"

Controllers ==
  {d \in Deploys : Tool[d] \in {"deploy_v5", "deploy_v6", "deploy_v7", "deploy_v9_network"}}

Faucets == {d \in Deploys : Tool[d] = "deploy_devnet_faucet"}

ASSUME DeploymentAssumption ==
  /\ Tool \in [Deploys -> SignedTools \cup NetworkTools]
  /\ Package \in [Controllers -> PackageNames]
  /\ Wire \in [Controllers -> WireFormats]
  /\ InitTool \in [Inits -> {"deploy_v5_init", "deploy_v6_init"}]
  /\ Target \in [Inits -> Controllers]
  /\ \A i \in Inits : miden_endpoint(Env[i]) = Node
  /\ Override \in [Inits -> Recipients \cup {NoRecipient}]
  /\ DefaultRecipient \in [{"testnet", "devnet"} -> Recipients]
  /\ Faucet \in [Mints -> Faucets]
  /\ Amount \in [Mints -> Nat \ {0}]
  /\ MaxSupply \in Nat
  /\ MaxTraffic \in Nat

VARIABLES chain,    \* the node's state of each account, none before its first transaction
          store,    \* the local copy of each account, none before add_account
          keys,     \* the accounts whose key is in the keystore
          minted,   \* the notes the faucets' transactions created
          job,      \* the processes
          traffic   \* other transactions so far

vars == <<chain, store, keys, minted, job, traffic>>

AccountState == [nonce : Nat, config : Config, issued : 0..MaxSupply]

Fresh == [nonce |-> 0, config |-> NoConfig, issued |-> 0]

Jobs == {<<"deploy", d>> : d \in Deploys} \cup {<<"init", i>> : i \in Inits}
          \cup {<<"mint", m>> : m \in Mints}

Account(j) ==
  CASE j[1] = "deploy" -> j[2]
    [] j[1] = "init"   -> Target[j[2]]
    [] j[1] = "mint"   -> Faucet[j[2]]

NoTx == {}

Init ==
  /\ chain = [a \in Deploys |-> {}]
  /\ store = [a \in Deploys |-> {}]
  /\ keys = {}
  /\ minted = {}
  /\ job = [j \in Jobs |-> [phase |-> "start", tx |-> NoTx]]
  /\ traffic = 0

---------------------------------------------------------------------------
(* Stores *)

\* deploy_v5 and deploy_v6 make private accounts, which no sync can fetch.
Public(a) == Tool[a] \notin {"deploy_v5", "deploy_v6"}

\* deploy_v9_network and deploy_v10_faucet keep a store directory of their own.
InHome(a) == Tool[a] \notin {"deploy_v9_network", "deploy_v10_faucet"}

\* sync_state in the operator's HOME.
Synced ==
  [a \in Deploys |-> IF Public(a) /\ InHome(a) /\ store[a] # {} /\ chain[a] # {}
                     THEN chain[a] ELSE store[a]]

SyncsFirst(d) ==
  Tool[d] \in {"deploy_v5", "deploy_v6", "deploy_v7", "deploy_dispenser"}

---------------------------------------------------------------------------
(* The deploy binaries *)

\* receive_asset must have the root of wire format 0.14; deploy_v7 can be told
\* to accept another one, the other binaries do not look.
RootAccepted(d) ==
  /\ Tool[d] \in {"deploy_v5", "deploy_v6"} => Wire[d] = "0.14"
  /\ Tool[d] = "deploy_v7" => Wire[d] = "0.14" \/ d \in Rotate

\* Everything up to the client; without --deploy the process stops here.
DeployBuild(d) ==
  LET j == <<"deploy", d>>
  IN /\ job[j].phase = "start"
     /\ RootAccepted(d)
     /\ job' = [job EXCEPT ![j].phase = "built"]
     /\ UNCHANGED <<chain, store, keys, minted, traffic>>

\* The key of a signed account goes into the keystore first.
DeployAddKey(d) ==
  LET j == <<"deploy", d>>
  IN /\ job[j].phase = "built"
     /\ Tool[d] \in SignedTools
     /\ keys' = keys \cup {d}
     /\ store' = IF SyncsFirst(d) THEN Synced ELSE store
     /\ job' = [job EXCEPT ![j].phase = "keyed"]
     /\ UNCHANGED <<chain, minted, traffic>>

\* Mutant of DeployAddAccount: the key is not waited for.
DeployAddAccountFirst(d) ==
  LET j == <<"deploy", d>>
  IN /\ job[j].phase = "built"
     /\ store' = [store EXCEPT ![d] = {Fresh}]
     /\ job' = [job EXCEPT ![j].phase = IF Tool[d] \in SignedTools THEN "done" ELSE "added"]
     /\ UNCHANGED <<chain, keys, minted, traffic>>

\* add_account; for a signed account, which was synced before its key was added,
\* that is the end of the process.
DeployAddAccount(d) ==
  LET j == <<"deploy", d>>
  IN /\ job[j].phase = IF Tool[d] \in SignedTools THEN "keyed" ELSE "built"
     /\ store' = [(IF SyncsFirst(d) /\ Tool[d] \notin SignedTools THEN Synced ELSE store)
                    EXCEPT ![d] = {Fresh}]
     /\ job' = [job EXCEPT ![j].phase = IF Tool[d] \in SignedTools THEN "done" ELSE "added"]
     /\ UNCHANGED <<chain, keys, minted, traffic>>

---------------------------------------------------------------------------
(* The transactions *)

is_devnet(env) == env = "devnet"

\* deploy_v5_init has one set of faucet ids, deploy_v6_init two.
Era(i) ==
  IF InitTool[i] = "deploy_v5_init" THEN "m1"
  ELSE IF is_devnet(Env[i]) THEN "devnet" ELSE "testnet"

use_v015_roots(env) == env \in {"unset", "devnet", "testnet"}

\* The roots the script calls; its maker's idea of the network decides.
Calls(i) ==
  LET wire == IF InitTool[i] = "deploy_v6_init" /\ use_v015_roots(Env[i])
              THEN "0.15" ELSE "0.14"
      setters == {"set_target_weights", "set_fees"}
  IN (setters \cup IF InitTool[i] = "deploy_v6_init" THEN {"set_fee_recipient"} ELSE {})
       \X {wire}

fee_recipient(i) ==
  IF Override[i] # NoRecipient THEN Override[i] ELSE DefaultRecipient[Era(i)]

\* deploy_v5 builds slots 0 to 10, the others 0 to 11.
HasSlot11(a) == Tool[a] # "deploy_v5"

\* The account exports the roots the script calls and has the slots they write.
ScriptRuns(i) ==
  /\ Calls(i) \subseteq Roots(Package[Target[i]], Wire[Target[i]])
  /\ InitTool[i] = "deploy_v6_init" => HasSlot11(Target[i])

\* Mutants of Executes: the faucet's maximum is not looked at; scripts run
\* without a key, against network accounts too.
ExecutesUnlimited(j, s) ==
  CASE j[1] = "deploy" -> TRUE
    [] j[1] = "init"   -> Account(j) \in keys /\ ScriptRuns(j[2])
    [] j[1] = "mint"   -> Account(j) \in keys

ExecutesUnsigned(j, s) ==
  CASE j[1] = "deploy" -> TRUE
    [] j[1] = "init"   -> ScriptRuns(j[2])
    [] j[1] = "mint"   -> s.issued + Amount[j[2]] <= MaxSupply

\* A script needs the account's key (AuthNetworkAccount has none and refuses
\* every script); a mint needs what is left of the supply.
Executes(j, s) ==
  CASE j[1] = "deploy" -> TRUE
    [] j[1] = "init"   -> Account(j) \in keys /\ ScriptRuns(j[2])
    [] j[1] = "mint"   -> /\ Account(j) \in keys
                          /\ s.issued + Amount[j[2]] <= MaxSupply

\* The account after the transaction; a deployment's is empty.
Final(j, s) ==
  [nonce  |-> s.nonce + 1,
   config |-> IF j[1] = "init"
              THEN Configured(s.config, Era(j[2]),
                              IF InitTool[j[2]] = "deploy_v6_init"
                              THEN fee_recipient(j[2]) ELSE s.config.recipient)
              ELSE s.config,
   issued |-> s.issued + IF j[1] = "mint" THEN Amount[j[2]] ELSE 0]

\* Mutant of MintNote: every mint of an amount makes the same note.
MintNoteNoSerial(m) == <<Faucet[m], Amount[m], 0>>

\* A note's id depends on its serial number, which each run draws afresh.
MintNote(m) == <<Faucet[m], Amount[m], m>>

\* sync_state, then the script executes on the local copy; a deployment goes
\* on with the account it has just added.
JobExecute(j) ==
  LET local == IF j[1] = "deploy" THEN store ELSE Synced
  IN /\ job[j].phase = IF j[1] = "deploy" THEN "added" ELSE "start"
     /\ \E s \in local[Account(j)] :
          /\ Executes(j, s)
          /\ job' = [job EXCEPT ![j] = [phase |-> "executed", tx |-> {s}]]
     /\ store' = local
     /\ UNCHANGED <<chain, keys, minted, traffic>>

\* The node: the account has not moved since, or it is a new one.
Accepted(j, s) ==
  chain[Account(j)] = {s} \/ (chain[Account(j)] = {} /\ s.nonce = 0)

Commit(j, s) ==
  /\ chain' = [chain EXCEPT ![Account(j)] = {Final(j, s)}]
  /\ minted' = IF j[1] = "mint" THEN minted \cup {MintNote(j[2])} ELSE minted

\* Mutant of JobSubmit: the error of submit_proven_transaction is ignored.
JobSubmitIgnoresError(j) ==
  /\ job[j].phase = "executed"
  /\ \E s \in job[j].tx :
       IF Accepted(j, s) THEN Commit(j, s) ELSE UNCHANGED <<chain, minted>>
  /\ job' = [job EXCEPT ![j].phase = "submitted"]
  /\ UNCHANGED <<store, keys, traffic>>

JobSubmit(j) ==
  /\ job[j].phase = "executed"
  /\ \E s \in job[j].tx : Accepted(j, s) /\ Commit(j, s)
  /\ job' = [job EXCEPT ![j].phase = "submitted"]
  /\ UNCHANGED <<store, keys, traffic>>

\* apply_transaction, which keeps a copy that a sync has made newer, and the
\* success line.
JobApply(j) ==
  LET a == Account(j)
  IN /\ job[j].phase = "submitted"
     /\ \E s \in job[j].tx :
          store' = [store EXCEPT ![a] =
                      IF \E t \in store[a] : t.nonce > s.nonce THEN @ ELSE {Final(j, s)}]
     /\ job' = [job EXCEPT ![j] = [phase |-> "done", tx |-> NoTx]]
     /\ UNCHANGED <<chain, keys, minted, traffic>>

\* Any `?`, a refused submission or a death of the process.
JobStop(j) ==
  /\ job[j].phase \in {"built", "keyed", "added", "executed", "submitted"}
  /\ job' = [job EXCEPT ![j] = [phase |-> "stopped", tx |-> NoTx]]
  /\ UNCHANGED <<chain, store, keys, minted, traffic>>

\* A controller on the chain is used meanwhile: other clients' notes, or the
\* network's transaction builder with a note on the allowlist.
OtherTransaction(a) ==
  /\ a \in Controllers /\ Public(a)
  /\ traffic < MaxTraffic
  /\ traffic' = traffic + 1
  /\ \E s \in chain[a] : chain' = [chain EXCEPT ![a] = {[s EXCEPT !.nonce = @ + 1]}]
  /\ UNCHANGED <<store, keys, minted, job>>

Next ==
  \/ \E d \in Deploys : DeployBuild(d) \/ DeployAddKey(d) \/ DeployAddAccount(d)
  \/ \E j \in Jobs : JobExecute(j) \/ JobSubmit(j) \/ JobApply(j) \/ JobStop(j)
  \/ \E a \in Deploys : OtherTransaction(a)

Spec == Init /\ [][Next]_vars

---------------------------------------------------------------------------
(* Properties *)

Phases == {"start", "built", "keyed", "added", "executed", "submitted", "done", "stopped"}

TypeOK ==
  /\ chain \in [Deploys -> SUBSET AccountState]
  /\ store \in [Deploys -> SUBSET AccountState]
  /\ keys \subseteq Deploys
  /\ minted \subseteq {MintNote(m) : m \in Mints}
  /\ job \in [Jobs -> [phase : Phases, tx : SUBSET AccountState]]
  /\ traffic \in 0..MaxTraffic

\* A signed account is never in the store without its key in the keystore: a
\* process that dies between the two leaves a key too many, not an account
\* that nobody can ever sign for.
KeyBeforeAccount ==
  \A a \in Deploys : store[a] \cup chain[a] # {} /\ Tool[a] \in SignedTools => a \in keys

\* A controller on the chain is configured for all baskets of an era or for
\* none, with a fee recipient where there must be one: through init processes
\* that race, die, repeat, or use another era's ids and another wire format.
ConfigWhole == \A a \in Controllers : \A s \in chain[a] : Whole(s.config)

\* What a process reports is on the chain and stays there: the configuration
\* of its era, its minted note, its network account.
DoneIsTrue ==
  \A j \in Jobs :
    job[j].phase = "done" =>
      CASE j[1] = "init" -> \E s \in chain[Account(j)] : Written(s.config, Era(j[2]))
        [] j[1] = "mint" -> MintNote(j[2]) \in minted
        [] j[1] = "deploy" -> Tool[j[2]] \in NetworkTools => chain[j[2]] # {}

\* A faucet has issued exactly what is in the notes it minted, although mints
\* race on one local copy of it.
SupplyBacked ==
  \A f \in Faucets :
    \A s \in chain[f] : s.issued = SumFunction([n \in {m \in minted : m[1] = f} |-> n[2]])

\* An account that is not on the chain has no configuration.
ConfigOf(states) == IF states = {} THEN NoConfig ELSE (CHOOSE s \in states : TRUE).config

\* The init processes implement the atomic configuration of an era; no network
\* controller is ever configured.
Abstract ==
  INSTANCE ControllerConfig
    WITH Administered <- {a \in Controllers : Tool[a] \in SignedTools},
         config <- [a \in Controllers |-> ConfigOf(chain[a])]

ImplementsConfig == Abstract!Spec
===========================================================================
