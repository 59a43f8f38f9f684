SPECIFICATION Spec
CONSTANTS
  u1 = u1
  u2 = u2
  d1 = d1
  d2 = d2
  w1 = w1
  bad = bad
  red = red
  trig = trig
  old = old
  late = late
  lotA = lotA
  lotB = lotB
  lotC = lotC
  lotD = lotD
  lotE = lotE
  Controller = controller
  FlowHome = operator_home
  RelayHome = relay_home
  Prime = 2147483647
  MaxCrashes = 1
  Exports <- McExports
  Users <- McUsers
  Lots <- McLots
  Notes = {d1, d2, w1, bad}
  Note <- McNote
  Funds <- McFunds
  FlowNotes = {d1, d2}
  Tagged = {w1, bad}
  Public = {controller}
INVARIANTS
  PositionsAccumulate
