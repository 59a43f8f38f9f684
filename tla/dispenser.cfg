SPECIFICATION FairSpec
CONSTANTS
  r1 = r1
  r2 = r2
  r3 = r3
  f1 = f1
  f2 = f2
  alice = alice
  bob = bob
  Requests = {r1, r2, r3}
  Requester <- McRequester
  Home <- McHome
  Serial <- McSerial
  Fundings = {f1, f2}
  Amount <- McAmount
  DRIP_AMOUNT = 5
  Sender = wallet_disp
  Supply = 12
  TheDispenser = dispenser
  Claimed = {r1}
INVARIANTS
  TypeOK
  Conserved
  ToldIsPaid
PROPERTIES
  ImplementsDrips
  DripsPaid
CHECK_DEADLOCK FALSE
