----------------------------- MODULE RoundTrip -----------------------------
(***************************************************************************)
(* A deposit and the redemption of the tokens it minted, as flow.masm and  *)
(* the tests compose the procedures: the deposit is valued and minted, a   *)
(* part of the tokens is burned at the same supply and NAV, the fee is     *)
(* split off, and every constituent is released by its target weight.     *)
(***************************************************************************)
EXTENDS BasketMath

CONSTANTS Deposits,    \* deposits: <<price, amount>> of each constituent
          Weightings,  \* target weights of the constituents
          Supplies,    \* basket-token supply before the deposit
          Navs,        \* NAV before the deposit
          Fees,        \* what the fees slot may hold
          Parts        \* bound: a redemption burns all, a half, ... of the tokens

ASSUME RoundTripAssumption ==
  /\ Deposits \subseteq Seq(FeltSet \X FeltSet)
  /\ \A h \in Deposits : Len(h) \in 2..4
  /\ Weightings \subseteq Seq(FeltSet)
  /\ Parts \subseteq Nat \ {0}
  /\ Supplies \cup Navs \cup Fees \subseteq FeltSet

VARIABLES pool,      \* the inputs, fixed at the start
          phase,     \* how far the trip got
          minted,    \* basket tokens minted
          burned,    \* basket tokens burned
          gross,     \* what redeem_value_usd made of them
          split,     \* net value and fee
          released   \* amount of each constituent released so far

vars == <<pool, phase, minted, burned, gross, split, released>>

Pool == [held : Deposits, weights : Weightings, supply : Supplies, nav : Navs,
         mint_fee : Fees, redeem_fee : Fees]

Init ==
  /\ pool \in {p \in Pool : Len(p.weights) = Len(p.held)}
  /\ phase = "deposit"
  /\ minted = 0
  /\ burned = 0
  /\ gross = 0
  /\ split = <<0, 0>>
  /\ released = <<>>

\* The first deposit of a basket mints at par.
MintFirst ==
  /\ phase = "deposit"
  /\ pool.supply = 0
  /\ minted' = par_value(value_of(pool.held), pool.mint_fee)
  /\ phase' = "minted"
  /\ UNCHANGED <<pool, burned, gross, split, released>>

\* A zero divisor traps in the division: such a deposit does not happen.
Mint ==
  /\ phase = "deposit"
  /\ pool.supply # 0
  /\ FeltMul(FEE_BPS_DENOMINATOR, pool.nav) # 0
  /\ minted' = mint_amount_for_asset_deposit(pool.held, pool.mint_fee,
                                             pool.supply, pool.nav)
  /\ phase' = "minted"
  /\ UNCHANGED <<pool, burned, gross, split, released>>

Redeem(burn_amount) ==
  /\ phase = "minted"
  /\ pool.supply # 0
  /\ burned' = burn_amount
  /\ gross' = redeem_value_usd(burn_amount, pool.nav, pool.supply)
  /\ phase' = "valued"
  /\ UNCHANGED <<pool, minted, split, released>>

\* The caller accrues the fee before it releases the constituents.
AccrueFee ==
  /\ phase = "valued"
  /\ split' = deduct_bps_fee(gross, pool.redeem_fee)
  /\ phase' = "released"
  /\ UNCHANGED <<pool, minted, burned, gross, released>>

Release ==
  LET i == Len(released) + 1
  IN /\ phase = "released"
     /\ i <= Len(pool.held)
     /\ FeltMul(FEE_BPS_DENOMINATOR, pool.held[i][1]) # 0
     /\ released' = Append(released,
                      release_amount_for_constituent(gross, pool.redeem_fee,
                                                     pool.weights[i], pool.held[i][1]))
     /\ UNCHANGED <<pool, phase, minted, burned, gross, split>>

Next ==
  \/ MintFirst
  \/ Mint
  \/ \E k \in Parts : Redeem(minted \div k)
  \/ AccrueFee
  \/ Release

Spec == Init /\ [][Next]_vars

---------------------------------------------------------------------------
(* Properties *)

TypeOK ==
  /\ pool \in Pool
  /\ phase \in {"deposit", "minted", "valued", "released"}
  /\ {minted, burned, gross} \subseteq FeltSet
  /\ split \in FeltSet \X FeltSet
  /\ released \in Seq(FeltSet)

Weight(i) == IF i \in DOMAIN pool.weights THEN pool.weights[i] ELSE 0

\* What the caller of the mint owes it: a fee of at most 100 %, and a NAV whose
\* product with the denominator the field holds.
MintFits ==
  /\ pool.mint_fee <= FEE_BPS_DENOMINATOR
  /\ FEE_BPS_DENOMINATOR * pool.nav < Prime

ReleaseFits ==
  /\ pool.redeem_fee <= FEE_BPS_DENOMINATOR
  /\ \A i \in DOMAIN pool.held : FEE_BPS_DENOMINATOR * pool.held[i][1] < Prime
  /\ Weight(1) + Weight(2) + Weight(3) + Weight(4) <= FEE_BPS_DENOMINATOR

\* Nobody gains by going in and out: any part of the minted tokens is worth at
\* most the same part of the deposit, whichever way the divisions truncate and
\* however often the numerators wrap.
NoGain ==
  phase \in {"valued", "released"} /\ MintFits
    => gross * minted <= Worth(pool.held) * burned

\* The field holds the documented numerator of the mint, too.
MintHeld ==
  /\ MintFits
  /\ Worth(pool.held) * (FEE_BPS_DENOMINATOR - pool.mint_fee) * pool.supply < Prime

\* Nor is much lost (mint.masm:88-90, one divisor "to minimise truncation
\* error"): where nothing wraps, all the tokens minted for a deposit
\* are worth the deposit less the fee, to within one unit of value and the
\* value of one basket token, through both truncations.
LosesAtMostDust ==
  phase \in {"valued", "released"} /\ burned = minted /\ MintHeld
    => Worth(pool.held) * (FEE_BPS_DENOMINATOR - pool.mint_fee) * pool.supply
         < FEE_BPS_DENOMINATOR * ((gross + 1) * pool.supply + pool.nav)

\* The pool never pays a redemption twice: the fee and everything released for
\* it, at the prices used, stay within the value of the burned tokens.
PaidWithinGross ==
  phase = "released" /\ ReleaseFits
    => split[2] + Worth([i \in DOMAIN released |-> <<pool.held[i][1], released[i]>>])
         <= gross

\* mint.masm:85-86 and 33-35: mint_amount = (deposit_value * (10000 - fee_bps) *
\* pre_supply) / (10000 * pre_nav), "so realistic on-chain operand sizes work
\* directly".
MintAsDocumented ==
  phase = "minted" /\ pool.supply # 0 /\ pool.mint_fee <= FEE_BPS_DENOMINATOR
    => minted = (value_of(pool.held) * (FEE_BPS_DENOMINATOR - pool.mint_fee) * pool.supply)
                  \div (FEE_BPS_DENOMINATOR * pool.nav)
===========================================================================
