SPECIFICATION Spec
CONSTANTS
  Prime = 40009
  FEE_BPS_DENOMINATOR = 10
  Deposits <- McDeposits
  Weightings <- McWeightings
  Supplies = {0, 3, 40, 101}
  Navs = {1, 7, 40}
  Fees = {0, 1, 3, 10, 11}
  Parts = {1, 2, 7}
INVARIANTS
  TypeOK
  NoGain
  LosesAtMostDust
  PaidWithinGross
CHECK_DEADLOCK FALSE
