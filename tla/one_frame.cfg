SPECIFICATION Spec
CONSTANTS
  Prime = 1009
  FEE_BPS_DENOMINATOR = 10
  Values = {40, 60}
  fee_bps_year = 3
  blocks_per_year = 7
  Holdings <- McHoldings
  Targets <- McTargets
  Threshold = 1
  MaxBlock = 8
  Raw <- McRaw
  Feed <- McFeed
  NotFound = NotFound
  SCALE = 100
  RESCALE = 10
  SIGNIFICAND = 256
  FINE = 4096
  Spacings <- McSpacings
  WORD = 65536
  Unit <- McUnit
  Sanity <- McSanity
  Burns = {0, 3, 24}
  MaxMoves = 2
INVARIANT OneFrame
CHECK_DEADLOCK FALSE
