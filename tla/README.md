# Darwin Protocol: a TLA+ verification project

Darwin keeps baskets of tokens on Miden. A *controller account* holds the assets and a few storage
slots; users hand it *notes*; a handful of client programs emit and consume those notes. This
directory models that system from its source under `src/crates/`, checks the models with TLC on
small instances and proves the central safety properties with TLAPS for every instance.

## 1. Inventory

`bin/` stands for `darwin-protocol-account/src/bin/`, `lib/` for `darwin-protocol-account/asm/lib/`,
`notes/` for `darwin-notes/asm/`.

| component | state it keeps | operations | what makes it correct |
|---|---|---|---|
| note scripts (`notes/*.masm`) | a note's assets, its storage felts | deposit v1, v2, v3, redeem, rebalance trigger | assets arrive in the vault exactly once; the slot-10 word comes from the note; the amount is the documented one |
| controller packages v2..v6 (`bin/build_v*.rs`) | vault, slots 0 version, 1 faucet, 2 pool positions, 3 weights, 4 fees, 10 user positions, 11 fee recipient | `receive_asset`, `set_user_position`, `receive_and_credit`, `execute_rebalance_step`, setters and getters | a script that calls what the package lacks changes nothing |
| flow binaries (`bin/devnet_flow_a_v3.rs`, `flow_a_full.rs`, `flow_c_full.rs`, `flow_b_demo.rs`) | a client store in `HOME/.miden`, the step reached | sync; emit: execute, prove, submit, apply; consume: the same | the store never forks from the chain; the success line is true |
| deposit consumer (`bin/consume_deposits.rs`) | the relay's client store, the list of committed notes | sync, skip, consume, abort | every consumable deposit is consumed, whoever else moves the controller |
| backups (`bin/backup_write.rs`, `backup_read.rs`) | words and a meta word in slot 10, a freshness marker file | batches of 48 words, meta last; restore; warm mode | a reader gets a whole ciphertext or none |
| math libraries (`lib/*.masm`) | none | felt division, weighted sums, mint, redeem, fees, release, drift, accrual | truncation and field wrap-around never favour the user; a fee is never more than its rate; a constituent is adrift exactly when it is |
| basket configuration (`bin/deploy_v5_init.rs`, `deploy_v6_init.rs`) | slots 3, 4, 11 | admin scripts chosen by environment | an era of baskets is configured whole or not at all, with a recipient for its fees |
| dispenser (`notes/drip_note.masm`, `bin/deploy_dispenser.rs`, `drip_request.rs`, `fund_dispenser.rs`, `claim_payout.rs`) | the dispenser's vault, pending requests, payouts | request, payout by the node's transaction builder, funding, claim | a request is paid at most once; nothing is paid that the vault lacks |
| network controller v9 (`bin/deploy_v9_network.rs`, `read_v9_position.rs`) | slots 0 to 11, a store of its own | deployment by an empty transaction, node-driven consumption, reader that lists slot 10 | it is on the chain when the binary says so; no admin script ever reaches it |
| oracle readers (`bin/pragma_prices_json.rs`, `nav_pro_rata.rs`, `oracle_query*.rs`) | the answers so far | one foreign procedure call per pair, rescaling, pro-rata amounts | an answer belongs to its pair; no constituent is quoted above its share, but for the rounding of doubles |
| bench variants (`bin/flow_a_bench.rs`, `devnet_v3_clean.rs`, `devnet_*_test.rs`, `deploy_atomic_flow_a.rs`) | as the flow binaries | as the flow binaries | as the flow binaries |
| deployment binaries (`bin/deploy_v5.rs`, `deploy_v6.rs`, `deploy_v7.rs`, `deploy_v9_network.rs`, `deploy_v10_faucet.rs`, `deploy_dispenser.rs`, `deploy_devnet_faucet.rs`, `create_devnet_operator_wallet.rs`, `devnet_mint_to_operator.rs`) | keystore, client store, the accounts | check a root, add key, add account, submit the first transaction, mint | no account without its key; what a faucet issued is in its notes |
| diagnostic binaries, skeleton packages, faucet crates | none | one-shot reads, constants | not modelled: pure I/O |

**How they interact.** Nothing is shared but the chain and, between processes of one `HOME`, the
file `.miden/store.sqlite3`. A client executes a transaction against its *local copy* of an account,
proves it, submits it, and only then applies the result to the local copy. The node accepts it if
the account is still in the state it was executed on and, for a consumption, if the note has no
nullifier yet. Several clients (operator machine, relay, browser) drive the same NoAuth controller.

**What is hard.** Two clients between sync and submit; a process that dies between acceptance and
`apply_transaction`; a run that aborts in the middle of a list; notes that can never execute;
a backup of many transactions read half-way; an account that reaches
the store but not the chain; prices that move while they are read; products that wrap at the field's prime. `PROJECT.json`
lists each hazard at its line, with the property that covers it or why none does yet.

## 2. Modules

| module | models | remarks |
|---|---|---|
| `Felt` | the field's product, `felt_div` | the prime is a constant |
| `NoteScripts` | the five scripts and the packages that serve them | pure: `Executable`, `Quotient`, `RunScript` |
| `DepositLedger` | abstract specification: emit a note, consume a note, both atomic | no clients, no stores |
| `DepositNetwork` | chain, notes, stores, flow binaries, consumer service, front end | implements `DepositLedger` (`ImplementsLedger`) |
| `BackupRegister` | abstract specification: a register written once per user | |
| `BackupSlot` | backup writers and readers on one HOME, other traffic on the controller | implements `BackupRegister` when every user backs up once |
| `Packages` | what each controller package exports, by source and wire format | pure; the notes' and the admin scripts' calls are checked against it |
| `BasketMath` | nav, mint, redeem, fees, flow procedures | arguments listed from the top of the stack |
| `RoundTrip` | mint a deposit, burn a part, split the fee, release the constituents | composition of the tests and of `flow.masm` |
| `Upkeep` | fee accrual at every touch, drift of every constituent | `fees.masm`, `drift.masm` |
| `Valuation` | the oracle, `pragma_prices_json`, `nav_pro_rata`, a keeper that runs `Upkeep` | composes `Upkeep` |
| `BasketConfig` | slots 3, 4, 11 of a controller and what a script makes of them | pure |
| `ControllerConfig` | abstract specification: an era configured in one step | |
| `Deployment` | deploy, init and mint processes, keystore, store, chain | implements `ControllerConfig` (`ImplementsConfig`) |
| `DripLedger` | abstract specification: ask, fund, pay, receive | a request is paid at most once out of the reserve |
| `Dispenser` | drip requests, fundings, the network's transaction builder, payouts, the four client commands, the poll | implements `DripLedger` (`ImplementsDrips`) |
| `MC*` | constants of the runs | |
| `*_proofs` | theorems | see section 5 |

### State and actions against the code

*Notes.* `Note[n]` holds the script, the user, the assets and the three storage felts that the
binaries put into `NoteStorage`. An asset is a *lot*: an indivisible whole, as no script splits
one. `Dividend`/`Divisor` follow the stack: v1, v2 and redeem push the scale last and multiply it with the
factor, so they divide by the first felt; v3 divides by the scale. `RunScript` is the whole
controller transaction: assets, slot-10 word, nonce. `set_map_item` overwrites.

*Clients.* `chain` is the node's account states, `store` the local copies per HOME. `FlowStart`
is the sync some binaries make and others do not; `FlowExecute` reads the store; `FlowSubmit` is
`submit_proven_transaction`; `FlowApply` is `apply_transaction`; `FlowStop` stands for every `?` and
for the death of the process. `Apply` lets a newer copy stand, since a sync of another process may
have run in between. The service's actions are the branches of `consume_deposits.rs`: one `ServiceSync` per
run, `ServiceSkip` for the record it lists as skipped, `ServiceRefused` for the `?` that ends the
run, `ServiceCrash` for its death at any point. The binary lists every committed input note of its store, not only
those of the tag it adds: where the flow binaries share the store, `ServiceSync` also lists any subset of their notes
(`ScreenedNotes`), since the client may or may not have kept them as input notes.

The node, `sync_state`, `apply_transaction` and the browser are not under `src/`; they are modelled from how
the code uses them and marked external in the map.

*Backups.* A word is known by its ciphertext and its index. `writer[b].script` is the loop index
over the transactions; script number `Batches(b)` writes the meta word. `alone` is a history
variable. `marker` is the file whose age decides whether `backup_read` syncs.

*Dispenser.* `note` is the node's state of requests, fundings and payouts. A payout's identity is
`Payout(r)`, target and serial number, since the note id hashes the recipient and the asset; two
requests with the same pair would make one note. `NetworkDrip` is the drip script run by the network: it
traps, and the request stays, when the vault is short. `JobExecute` and `JobSubmit` are the two
halves of a client command (execute on the synced copy, then be accepted or refused); `JobStop` is a
refusal or the death of the process. `Executes` has the two refusals of the batch consumer: nothing
committed, or a payout of somebody else in the store. `told` records the answers "committed" of
`note_committed`. `Home` says which accounts share a client store: the batch consumer takes every committed
payout its own store knows. Notes of other kinds in that store are not modelled; one that the consumer cannot execute fails
its whole batch, as a stranger's payout does. `claim_payout` is modelled from its payout file on; `drip_request`, which the
comment at `claim_payout.rs:1-2` names as its author, prints the payout's id and writes no file.

*Deployment.* An account is `{}` on the chain until its first transaction, and `{}` in the store until
`add_account`. The binaries of signed accounts sync once, before `add_key`; `deploy_dispenser` syncs when
it adds the account. A signed account's process ends there (`deploy_v5`, `v6`, `v7`, the faucet and the
wallet never submit); a network account's goes on with an empty transaction. `JobExecute`, `JobSubmit`
and `JobApply` are the client's three calls, shared by deployments, init scripts and mints; `Executes` is
what the kernel refuses. `Era`, `Calls` and `fee_recipient` are the environment-dependent choices of the
init binaries; `Env` is what the process got as `MIDEN_NETWORK`, and `miden_endpoint` sends every
unknown name to testnet.

*Oracle.* A price is the oracle's raw integer. `JsonQuery` keeps an answer or `NotFound` per pair,
`JsonPrint` zips them with the names; `NavQuery` and `NavPrint` are `nav_pro_rata`'s loop and table.
`UserUsd` and `Share` are the four
double operations of lines 190 and 195, each rounded to the nearest double, ties to even (`f64`), and truncated at the end;
the doubles' significand, their spacings and their finest part are constants, as is the word (`WORD`, 2^128) at which the `u128`
product of `UserBase` wraps. It wraps in a release build, the one the usage line asks for (`cargo run --release`) and whose
profile in `Cargo.toml` sets no overflow checks; a debug build panics there and prints nothing more. A price of 0 that was found is
kept, not rescaled, and paid nothing. `seen` is a history variable: the prices a pair had while the program ran. The library procedures of
`Upkeep` have no caller under `src/`; the keeper of `Valuation` calls them in every order.

*Math.* Every product, sum and difference is `% Prime`; every quotient is `felt_div`. A procedure that
would divide by zero traps, so its action is guarded.

## 3. Runs

| run | question | answer |
|---|---|---|
| `deposits` | public controller, two HOMEs, a v3 deposit and a redemption of one user by flow binaries, a v2 deposit and an unexecutable note of the front end, one crash of the service | types, conservation of lots, positions backed by consumed notes, a user's only consumed deposit credited and left alone by the redemption, stores that never fork, success lines that are true, refinement of `DepositLedger`, every executable tagged deposit is consumed |
| `older_controller` | a private controller of the v5 package, all processes on one HOME: redeem, rebalance and v1 notes, and a v3 note it cannot run | lots are conserved; executable deposits are consumed unless the only store stays behind for good, and once it is behind the controller never moves again (`DriftIsPermanent`) |
| `positions_accumulate` | violation: two deposits of one user should add up | the second overwrites the first |
| `redemptions_debit` | violation: a consumed redemption should lower the user's position | no redeem script touches slot 10 |
| `backups` | one user backs up once, another twice, a reader, other traffic | refinement of the register for whoever backs up once, whoever dies when; a writer without a rival that says ok has its ciphertext on the chain |
| `backup_torn` | violation: a partial write should never look complete | the old meta word stands over a mixture of words |
| `round_trip` | deposits of two, three and four constituents, with numerators beyond the prime | nobody gains by going in and out (`NoGain`), nobody loses more than the fee and the dust of two truncations unless a product wraps (`LosesAtMostDust`), a redemption pays out at most its value (`PaidWithinGross`) |
| `mint_documented` | violation: the mint should be the documented quotient | the numerator wraps |
| `dispenser` | three requests of two accounts, two fundings, every command and the wallet competing | no dUSDC lost or made, "committed" is said of paid requests only, refinement of `DripLedger`, committed requests are paid unless the dispenser stays dry |
| `deployment` | controllers v5, v7, v9 and a faucet, four init processes (two recipients, a mistyped network, a network controller as target), three mints against a supply for two | a signed account keeps its key, configuration is whole, reports are true, issued is minted, refinement of `ControllerConfig` |
| `valuation` | four moving feeds, one of them coarser, readers that meet failures and missing pairs; a keeper with wrapping numerators and 97 pools | unwarned values are real prices of their own pair, no constituent is quoted above its share beyond the rounding of the doubles, fees within the rate, drift right to a basis point |
| `one_frame` | violation: rescaling should give one frame for all prices | a full-scale stable feed below its peg is multiplied too |

**Bounds.** `MaxCrashes = 1`: a crash returns the service to `idle` with the same store, so a second
one meets the states the first met. `MaxTraffic = 1`: one foreign transaction is enough to make
every copy stale. `PerTx = 2` in place of 48, with sizes 1, 2 and 3, gives a full, a partial and an exact batch.
Two flow notes of one user (a deposit and a redemption; in `positions_accumulate` two deposits) plus two notes of another give
every pair of rivals for the controller, for the operator's wallet and for one slot-10 key. In `dispenser`
the sender owns 12 and a drip is 5, so the two fundings (5 and 7) pay two of three requests, the first
of them to the last unit, and the third request stays committed for ever in some behaviours. One
account has two requests, so its batch can hold two payouts, or one of another account. Each command
runs once per note, and `Claimed` names the one request somebody runs `claim_payout` for: it already
meets the batch consumer, the wallet and a payout that is not there yet.
In `deployment` three mints of 2 meet a supply of 5, so the last is refused; one
foreign transaction makes every copy of a controller stale. The mints are symmetric; the init processes
are not, each is a case of its own. The root check of the v5 build fails in every behaviour, as it does with the
packages of the 0.15 wire format, and nothing is configured there; only the testnet baskets are configured in this run, and that the devnet
era is whole too rests on the theorem `ConfigStaysWhole`, which knows no bound. In `valuation` every feed has two or three prices (all but eth with one
outside the sanity range; usdt also has 0), two moves let a price change twice or two prices change once within a run, and a field of 1009 with a denominator of
10 makes accruals over six blocks and the largest pools wrap. Doubles have 8 bits there instead of 53, spacings up to 2^20 and a finest part of
1/4096: a burn of 3 computes exactly, a burn of 24 rounds the 40 % share up (without the allowance for rounding
TLC refutes `WorthAtMostBurn`), and with a word of 2^16 its products wrap.
`Parts = {1, 2, 7}` burns all, half and a
seventh. TLC's integers have 32 bits: the deposit runs use a prime of 2^31 - 1, which the demo inputs do
not reach, and the round trip scales prime (40009) and fee denominator (10) together so
that its products do pass the prime. The theorems hold for any prime and denominator.

**Deadlock** is checked in the deposit runs, where the service always restarts. It is off in the backup, dispenser,
deployment, valuation and round-trip runs: the processes there end.

**Fairness.** `FairSpec` adds `WF_vars(ServiceStep)` only. `consume_deposits.rs:4-5` says the binary is
run on a loop, so an enabled step of the service is eventually taken. Nothing is assumed of flow
binaries, users or crashes, and not which note of the list comes first. `EveryDepositConsumed` thus
holds because each refusal needs another client to have moved the controller, and those are
finitely many here. `ConsumedUnlessBehind` is the same promise for a private controller, where a crash
before `apply_transaction` makes the only store stale for good: the second disjunct says so.
The dispenser's `FairSpec` adds `WF_vars(NetworkDrip(r))` and `WF_vars(NetworkFund(f))`: the network's
transaction builder, which is not under `src/`, executes notes aimed at a network account
(`drip_request.rs:3`, `fund_dispenser.rs:2-4`). Nothing is assumed of the commands, the wallet or the
poll, so `DripsPaid` says nothing of what happens when nobody funds the dispenser any more.

## 4. Disagreements between text and code

1. `build_v5_full_storage_controller.rs:147-150` says a deposit note reads the position and adds to
   it; the scripts overwrite it (`positions_accumulate`). `SoleCredit` is what holds instead: the entry is right until
   a second deposit of the user is consumed.
2. `build_v5_full_storage_controller.rs:11-14` says `credit_user` and `debit_user` "live in the controller; the atomic notes call into
   them on consume", and lines 147-150 layer "credit" and "debit" over the setter. No package has the two procedures, and the
   redeem script drops the release amount it computed (`atomic_redeem_note.masm:82`) and calls `receive_asset` only: a
   redemption leaves the position as it is (`redemptions_debit`). `SoleCredit` passes because it states this rule of
   the code, not the documented one.
3. `mint.masm:33-35` says realistic sizes work directly; the three-factor numerator of `standard`
   wraps at them (`mint_documented`). `NoGain` shows that the error is always at the depositor's cost, and
   `UnwrappedMintsDocumented` that the wrap is the only cause.
4. `backup_write.rs:103` says a partial write never looks complete; a second backup does
   (`backup_torn`), a first one never.
5. `nav_pro_rata.rs:154-157` says stable feeds are detected and rescaled into one frame; what it detects
   is a price below a dollar (`one_frame`). `WorthAtMostBurn` shows that a full-scale feed is then only ever underpaid, and
   `OneFrameAboveADollar` that a full-scale price below a dollar, or a coarse one at a raw dollar or more, is the only cause.
6. `atomic_deposit_note.masm:9` and `flow_a_full.rs:173` give `deposit_value * fee_factor / nav` for the credit; v2 multiplies the last
   two felts it pushed and stores `fee_factor * nav_scale / deposit_value` (`atomic_deposit_note_v2.masm:65`). No run is needed: a single v2 note with
   200, 9970 and 10 gives 498 instead of 199400. `CreditsDocumentedWithoutV2` shows that without v2 notes the text is right.

The share `nav_pro_rata` prints is computed in doubles. With 53 bits it is exact or rounded down while a constituent's share is below a
fifth of 2^53 in units of 1e-8 dollars (about 18 million dollars), and otherwise at most five parts in 2^53 too high: a burn
of 671,089,109 at 10 % is quoted one such unit above its share. Doubles also round down at small amounts (a
burn of 23 at 10 % gives 229,999,999 units instead of 230,000,000). For assets with 18 decimals the `u128` product wraps once a share exceeds some
3.4e12 dollars, which the `u64` argument allows; the quote is then far too small. No text of the repository claims either away.
Line 182 takes a basket token for a dollar.

Further texts that the code does not bear out, without a run, as no state is involved or none of the programs
reaches it: `build_v5_full_storage_controller.rs:221-223` ("all prior MAST roots preserved") and v4's "strict
superset" (v4 drops `apply_deposit_with_storage`, v5 changes the body of `read_pool_position`; `Packages` has both);
`deploy_v7.rs:178` and `deploy_devnet_faucet.rs:122` announce an account when nothing is on the chain yet, which is
why `DoneIsTrue` promises the chain for network accounts only; `deploy_v7.rs:9-12` names a helper that
does not exist; `fees.masm:38-40` lets a long gap catch up in one shot and `drift.masm:15-16` calls any realistic operands safe, while
both products can wrap (the conditions of `AccrualFaithful` and `DriftFaithful` say when they do not); the weights in `nav_pro_rata.rs`
for DAG and DCO are not those the init scripts write to slot 3.

## 5. Proofs

TLAPS checks all of these from nothing. The assumptions are the named `ASSUME`s, the types of the constants and:

* `Felt`, `BasketMath`, `Upkeep`: the prime is above 1, the fee denominator below it, and the divisor of the accrual fits the field;
* `DepositLedger`: every lot is in one wallet at the start;
* `DispenserAssumption`: no two requests have one serial number (the clients draw them at random; with equal serials two requests of an account
  share one payout note), requests and fundings are finitely many, the funding wallet is none of the requesters, a drip is above 0;
* `DeploymentAssumption`: every init process talks to the network the model is about (`miden_endpoint(Env[i]) = Node`), each target is a
  controller, each controller has a wire format, an amount minted is above 0;
* `ValuationAssumption`: a feed is at full scale or coarser by exactly `RESCALE`, the full scale is a multiple of 10, a significand is 8 at least
  and a finest part of a double at most a tenth of it; medians are any naturals, 0 included.

Every type invariant, safety
invariant, action property and refinement that a passing run checks is a theorem, for every value of the
constants that meets these assumptions. `WorthAtMostBurn` speaks of full-scale feeds and of coarse ones below a raw dollar: a coarse
feed above it is not rescaled and would be overpaid by `RESCALE`. Four theorems (marked *complement*) say under which further
hypothesis a text that section 4 refutes is right; the hypothesis is then part of the theorem's statement.

* `NumberFacts`: division and products of naturals, and induction where the library's theorems cannot be
  used. A non-empty set of naturals has a least element (`Least`), so a property that is a *set* of numbers, or of
  finite subsets, needs no operator parameter. From it come the facts about `SumFunction`: what a sum over a finite set
  becomes when one value changes, and when a zero is added.
* `DepositLedger_proofs`, `LedgerCorrect`: the abstract ledger conserves lots, backs positions and keeps a sole
  credit. `Conserved` is not inductive alone: a consumption could collide with a lot already in the controller, which the
  types and the other holders of the lot exclude. `SoleCredit` is inductive because a second credited note of the user ends its claim.
* `DepositNetwork_proofs`, `Invariance`: `TypeOK`, `StoreNeverForks`, `InFlightSound`,
  `DoneMeansDeposited`, and what each process may have in flight. They need each other: applying a
  transaction keeps the store from forking only because the transaction was accepted on the state it
  carries, and it was accepted only because nothing else had moved the account. `Refinement` uses
  the invariant to map each step to `Emit`, `Consume` or a stutter; `NetworkConserves`, `NetworkBacked` and
  `NetworkCreditsOnce` then follow from `LedgerCorrect` alone. `DriftLasts` assumes a private controller, since `sync_state`
  fetches a public one. `Drifted` looks at the transactions in flight too: an executed one can be taken
  by the node if its base is the chain's state, a submitted one can repair the store if its result is.
  *Complement*: `CreditsDocumentedWithoutV2`.
* `BackupSlot_proofs`, `SlotInvariance`: the history variable `alone` says that no other writer of the user was active when this one started, and that
  none started since. The invariant says which words the scripts executed so far have left on the chain for such a writer
  (`ProgressInv`), and that the chain, the relay's copy and what a submitted script would make of its base show the ciphertext of a
  user who backs up once whole or not at all, and none that the chain does not show (`Sound`).
  `OkIsTrue` is its last step; `SlotImplementsRegister` maps the acceptance of the meta script to the
  register's write and every other step to a stutter, for users with one backup. *Complement*: `SingleBackupsReadComplete`
  (no torn read when the users that are read back up once).
* `MathLibrary_proofs`: division, field products, sums and differences, and the value of a pool (`ValueFacts`: wrapping only
  makes it smaller; `ValueExact`: no wrapping, no error). `TripInvariance`: every amount is the named formula of the
  inputs. From it `TripGainsNothing`, `TripLosesAtMostDust` and `TripPaysWithinGross` reduce to facts about truncating division and to
  `x % p <= x`: a wrapped numerator is smaller, and only numerators wrap under `MintFits` and `ReleaseFits`, and none
  under `MintHeld`. The multiplication
  steps are spelled out (`MulMono`, `MulCancel`) as the arithmetic is nonlinear. For `AccrualIsFaithful` and
  `DriftIsFaithful` the invariant `UpkeepInv` adds that the last accrual is not in the future and that a checked pool is one of the
  given ones; `Distances` is the arithmetic of the drift check, and the divisor of the accrual must fit the field (`UpkeepAssumption`).
  *Complement*: `UnwrappedMintsDocumented`.
* `Valuation_proofs`: `ReaderInv` says that every answer kept is a median its pair had since the program started, in the order
  of the questions, and that what was printed is the table of exactly those answers. `UnwarnedValuesAreReal` is then about the
  zip of names and answers, `WorthIsAtMostBurn` about the
roundings, two truncations and one rescaling. A rounding adds at most one part in the significand (`RoundedUp`; the spacing around a
number is the greatest element of a set of naturals, since logarithms are out of reach), four of them by at most five (`FourRoundings`, `ShareAtMost`), and a wrapped product or a
truncated quotient is only smaller (`PaidAtMost`). `KeeperRunsUpkeep` carries
  the theorems about the upkeep over to the composition. *Complement*: `OneFrameAboveADollar`.
* `Deployment_proofs`: `Inv` joins types, keys, transactions that executed, one state per account on the chain,
  and reports that last. The report of a process outlives others' transactions because an admin script
  never unwrites an era (`ConfiguredFacts`) and because the node takes a transaction only on the state it executed on.
  `InitImplementsConfig` maps a submission of an init process to `Configure` or
  `ConfigureAndRoute` and everything else to a stutter. `SupplyIsBacked` adds, per faucet, that the issued amount on the chain is the
  sum over its minted notes (`Issued`): a refused or lost mint changes neither side.
* `Dispenser_proofs`: `DispenserTypes` needs that a funding carries no more than its transaction's base had;
  `PollIsTrue` that a payout exists only for a consumed request, that the process which emitted it is over, and that serial numbers
  differ. `DUsdcIsConserved` needs `Sent` (a claim's transaction takes at least one payout, all of its own account; a funding note is emitted
  once) and then moves one summand per step. `DispenserImplementsDrips` maps the stages of a request and the reserve of `DripLedger`, action by action.

**Only model-checked:** `EveryDepositConsumed`, `ConsumedUnlessBehind` and `DripsPaid`: liveness under fairness and `ENABLED` are out of
the prover's reach. The first five texts of section 4 are refuted by TLC on an instance.
No module that is proved about declares a recursive operator.

## 6. Not modelled

* Byte-level packing, serialisation, printing and key encodings: no property is about them. Proving
  time and network errors appear only as a step that may stop.
* `deploy_m1` prints a plan; the diagnostic binaries decode, dump and read; the skeleton packages and faucet
  crates are constants and stubs that the build binaries' packages replace.
* `oracle_query` and `oracle_query_real` print the stack of one call; the mock oracle returns a constant.
* `read_v9_position` lists slot 10 with the sum of every word. Backup words in that slot would be listed as
  amounts, but `backup_write` runs transaction scripts and a v9 controller refuses them all: they never meet.
* The allowlist of v9 is named, its policy is the kernel's. Inline scripts of the bench variants, which
  neither packages nor services refer to, are left out; their processes are those of the flow binaries.
* Faucet identities: a lot carries none, so the choice of a faucet in `flow_c_full.rs:156` has no model.

## 7. Plan

Done: deposits, round trip, backups, dispenser, configuration and deployment, upkeep, oracle readers, and the
proofs of all their safety properties. Left:

1. Faucet identities on lots, for the choices of `flow_c_full` and the basket tokens of the redeem flow.
2. The same two-sided bound for the releases of single constituents, where every release truncates once more.
