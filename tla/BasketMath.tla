---------------------------- MODULE BasketMath ----------------------------
(***************************************************************************)
(* The procedures of asm/lib (nav, mint, redeem, fees, flow) that mint and *)
(* redeem: every product, sum and difference is taken in the field, every  *)
(* division goes through felt_div.  A procedure's arguments are listed     *)
(* from the top of the stack.                                              *)
(***************************************************************************)
EXTENDS Felt, Sequences

CONSTANT FEE_BPS_DENOMINATOR    \* 10000 in the code

ASSUME DenominatorAssumption ==
  FEE_BPS_DENOMINATOR \in Nat \ {0} /\ FEE_BPS_DENOMINATOR < Prime

FeltAdd(a, b) == (a + b) % Prime

FeltSub(a, b) == (a - b) % Prime

---------------------------------------------------------------------------
(* nav.masm: the dot product of prices and amounts, <<p, q>> per constituent *)

weighted_sum_2(h) ==
  FeltAdd(FeltMul(h[2][1], h[2][2]), FeltMul(h[1][1], h[1][2]))

\* As the stack leaves them, the last two products are added first.
weighted_sum_3(h) ==
  FeltAdd(FeltAdd(FeltMul(h[3][1], h[3][2]), FeltMul(h[2][1], h[2][2])),
          FeltMul(h[1][1], h[1][2]))

weighted_sum_4(h) ==
  FeltAdd(FeltAdd(FeltAdd(FeltMul(h[4][1], h[4][2]), FeltMul(h[3][1], h[3][2])),
                  FeltMul(h[2][1], h[2][2])),
          FeltMul(h[1][1], h[1][2]))

---------------------------------------------------------------------------
(* mint.masm *)

\* What a fee of fee_bps leaves, still multiplied by the denominator.
AfterFee(value, fee_bps) == FeltMul(FeltSub(FEE_BPS_DENOMINATOR, fee_bps), value)

par_value(deposit_value, fee_bps) ==
  felt_div(AfterFee(deposit_value, fee_bps), FEE_BPS_DENOMINATOR)

\* Mutant of standard: the fee is added to the deposit.
standardAddsFee(deposit_value, fee_bps, pre_supply, pre_nav) ==
  felt_div(FeltMul(FeltMul(FeltAdd(FEE_BPS_DENOMINATOR, fee_bps), deposit_value), pre_supply),
           FeltMul(FEE_BPS_DENOMINATOR, pre_nav))

\* Mutant of standard: the division comes before the multiplication.
standardDividesFirst(deposit_value, fee_bps, pre_supply, pre_nav) ==
  FeltMul(felt_div(AfterFee(deposit_value, fee_bps), FeltMul(FEE_BPS_DENOMINATOR, pre_nav)),
          pre_supply)

standard(deposit_value, fee_bps, pre_supply, pre_nav) ==
  felt_div(FeltMul(AfterFee(deposit_value, fee_bps), pre_supply),
           FeltMul(FEE_BPS_DENOMINATOR, pre_nav))

---------------------------------------------------------------------------
(* redeem.masm *)

redeem_value_usd(burn_amount, current_nav, supply) ==
  felt_div(FeltMul(burn_amount, current_nav), supply)

release_amount(net_value_usd, weight_bps, price) ==
  felt_div(FeltMul(net_value_usd, weight_bps), FeltMul(FEE_BPS_DENOMINATOR, price))

---------------------------------------------------------------------------
(* fees.masm *)

\* Mutant of deduct_bps_fee: the fee is not a field element.
deduct_bps_feeUnwrapped(value, fee_bps) ==
  LET net_value == felt_div(AfterFee(value, fee_bps), FEE_BPS_DENOMINATOR)
  IN <<net_value, value - net_value>>

\* The net value and the fee, in the order they are left on the stack.
deduct_bps_fee(value, fee_bps) ==
  LET net_value == felt_div(AfterFee(value, fee_bps), FEE_BPS_DENOMINATOR)
  IN <<net_value, FeltSub(value, net_value)>>

---------------------------------------------------------------------------
(* flow.masm *)

\* mint_amount_for_2, 3 and 4_asset_deposit; par_value serves the first deposit.
value_of(held) ==
  CASE Len(held) = 2 -> weighted_sum_2(held)
    [] Len(held) = 3 -> weighted_sum_3(held)
    [] Len(held) = 4 -> weighted_sum_4(held)

mint_amount_for_asset_deposit(held, fee_bps, pre_supply, pre_nav) ==
  standard(value_of(held), fee_bps, pre_supply, pre_nav)

\* Mutant of release_amount_for_constituent: the fee is not deducted.
release_without_fee(redeem_value, redeem_fee_bps, weight_bps, price) ==
  release_amount(redeem_value, weight_bps, price)

\* The fee amount is dropped: the caller accrues it.
release_amount_for_constituent(redeem_value, redeem_fee_bps, weight_bps, price) ==
  release_amount(deduct_bps_fee(redeem_value, redeem_fee_bps)[1], weight_bps, price)

---------------------------------------------------------------------------
(* For the properties: the value of up to four constituents, as an integer *)

Term(held, i) == IF i \in DOMAIN held THEN held[i][1] * held[i][2] ELSE 0

Worth(held) == Term(held, 1) + Term(held, 2) + Term(held, 3) + Term(held, 4)
===========================================================================
