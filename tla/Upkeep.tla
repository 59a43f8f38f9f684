------------------------------- MODULE Upkeep -------------------------------
(***************************************************************************)
(* The library procedures a pool is kept with: the management fee accrued  *)
(* at every touch for the blocks since the last one (fees.masm), and the   *)
(* drift of its constituents from their target weights (drift.masm).       *)
(* Their callers are the pool's keepers, which no source file is.          *)
(***************************************************************************)
EXTENDS BasketMath

CONSTANTS Values,          \* the values the pool may have
          fee_bps_year,    \* the management fee
          blocks_per_year,
          Holdings,        \* the pools whose drift is checked: <<position, price>> per constituent
          Targets,         \* target weights, for up to 4 constituents
          Threshold,       \* the drift that is tolerated
          MaxBlock         \* bound on the blocks that pass

ASSUME UpkeepAssumption ==
  /\ Values \subseteq FeltSet
  /\ {fee_bps_year, Threshold} \subseteq FeltSet
  /\ blocks_per_year \in FeltSet \ {0}
  /\ FEE_BPS_DENOMINATOR * blocks_per_year < Prime
  /\ Holdings \subseteq Seq(FeltSet \X FeltSet)
  /\ \A h \in Holdings : Len(h) \in 2..4
  /\ Len(Targets) = 4 /\ \A i \in 1..4 : Targets[i] \in FeltSet
  /\ MaxBlock \in FeltSet

VARIABLES value,    \* what the pool is worth
          block,    \* blocks since the deployment
          last,     \* the block of the last accrual
          accrued,  \* slot 7
          touches,  \* accruals so far
          checked   \* pools checked: holdings, and the constituents found adrift

upkeepVars == <<value, block, last, accrued, touches, checked>>

---------------------------------------------------------------------------
(* fees.masm *)

\* Mutant of accrue_management: the quotient of a single block, times blocks.
accrue_per_block(blocks_elapsed, basket_value, bps, year) ==
  blocks_elapsed * (felt_div(FeltMul(basket_value, bps), FeltMul(year, FEE_BPS_DENOMINATOR)) + 1)

accrue_management(blocks_elapsed, basket_value, bps, year) ==
  felt_div(FeltMul(FeltMul(blocks_elapsed, basket_value), bps),
           FeltMul(year, FEE_BPS_DENOMINATOR))

---------------------------------------------------------------------------
(* drift.masm *)

constituent_weight_bps(position, price, total_pool_value) ==
  felt_div(FeltMul(FeltMul(position, price), FEE_BPS_DENOMINATOR), total_pool_value)

\* Mutant of abs_drift_bps: the branches are swapped.
abs_drift_swapped(current, target) ==
  IF target < current THEN FeltSub(target, current) ELSE FeltSub(current, target)

abs_drift_bps(current, target) ==
  IF target < current THEN FeltSub(current, target) ELSE FeltSub(target, current)

\* Mutant of needs_rebalance: the threshold itself is too much.
needs_rebalance_at(drift_bps, threshold_bps) == threshold_bps <= drift_bps

needs_rebalance(drift_bps, threshold_bps) == threshold_bps < drift_bps

---------------------------------------------------------------------------
UpkeepInit ==
  /\ value \in Values
  /\ block = 0
  /\ last = 0
  /\ accrued = 0
  /\ touches = 0
  /\ checked = {}

BlockPasses ==
  /\ block < MaxBlock
  /\ block' = block + 1
  /\ UNCHANGED <<value, last, accrued, touches, checked>>

\* Any interaction: what accrued since the last one is added to slot 7.
Accrue ==
  /\ last < block
  /\ accrued' = accrued + accrue_management(block - last, value, fee_bps_year, blocks_per_year)
  /\ last' = block
  /\ touches' = touches + 1
  /\ UNCHANGED <<value, block, checked>>

Adrift(held) ==
  {i \in 1..Len(held) :
     needs_rebalance(
       abs_drift_bps(constituent_weight_bps(held[i][1], held[i][2], value_of(held)), Targets[i]),
       Threshold)}

\* One call per constituent; an empty pool's division traps.
CheckDrift(held) ==
  /\ value_of(held) # 0
  /\ checked = {}
  /\ checked' = {[held |-> held, adrift |-> Adrift(held)]}
  /\ UNCHANGED <<value, block, last, accrued, touches>>

UpkeepNext == BlockPasses \/ Accrue \/ \E held \in Holdings : CheckDrift(held)

UpkeepSpec == UpkeepInit /\ [][UpkeepNext]_upkeepVars

---------------------------------------------------------------------------
(* Properties *)

\* The fee of the blocks so far, without truncation at the touches.
Due == last * value * fee_bps_year

\* However often a pool is touched, what accrues is never more than the yearly
\* rate over the same blocks; truncation loses less than one unit a touch,
\* as long as no numerator outgrows the field.
AccrualFaithful ==
  /\ accrued * FEE_BPS_DENOMINATOR * blocks_per_year <= Due
  /\ MaxBlock * value * fee_bps_year < Prime =>
       Due <= (accrued + touches) * FEE_BPS_DENOMINATOR * blocks_per_year

\* A constituent is reported adrift when its exact weight is further from the
\* target than the threshold, on either side, and never missed by a full basis
\* point: neither the division nor the difference of field elements misleads,
\* as long as the pool in basis points fits the field.
DriftFaithful ==
  \A c \in checked : \A i \in 1..Len(c.held) :
    LET whole == Worth(c.held)
        off   == c.held[i][1] * c.held[i][2] * FEE_BPS_DENOMINATOR - Targets[i] * whole
    IN whole * FEE_BPS_DENOMINATOR < Prime =>
         IF i \in c.adrift
         THEN off > Threshold * whole \/ - off > Threshold * whole
         ELSE - off < (Threshold + 1) * whole /\ off < (Threshold + 1) * whole
===========================================================================
