SPECIFICATION FairSpec
CONSTANTS
  u1 = u1
  u2 = u2
  d1 = d1
  d2 = d2
  w1 = w1
  bad = bad
  red = red
  trig = trig
  old = old
  late = late
  lotA = lotA
  lotB = lotB
  lotC = lotC
  lotD = lotD
  lotE = lotE
  Controller = controller
  FlowHome = operator_home
  RelayHome = operator_home
  Prime = 2147483647
  MaxCrashes = 1
  Exports <- OlderExports
  Users <- McUsers
  Lots <- McLots
  Notes = {red, trig, old, late}
  Note <- McNote
  Funds <- McFunds
  FlowNotes = {red, trig}
  Tagged = {old, late}
  Public <- NobodyPublic
INVARIANTS
  Conserved
PROPERTIES
  DriftIsPermanent
  ConsumedUnlessBehind
