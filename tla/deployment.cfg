SPECIFICATION Spec
CONSTANTS
  c5 = c5
  c7 = c7
  n9 = n9
  fct = fct
  i1 = i1
  i2 = i2
  typo = typo
  aimed = aimed
  m1 = m1
  m2 = m2
  m3 = m3
  relay = relay
  operator = operator
  Recipients = {relay, operator}
  NoRecipient = NoRecipient
  Deploys = {c5, c7, n9, fct}
  Tool <- McTool
  Package <- McPackage
  Wire <- McWire
  Rotate = {c7}
  Inits = {i1, i2, typo, aimed}
  InitTool <- McInitTool
  Target <- McTarget
  Env <- McEnv
  Override <- McOverride
  DefaultRecipient <- McDefaultRecipient
  Mints = {m1, m2, m3}
  Faucet <- McFaucet
  Amount <- McAmount
  MaxSupply = 5
  Node = "testnet"
  MaxTraffic = 1
INVARIANTS
  TypeOK
  KeyBeforeAccount
  ConfigWhole
  DoneIsTrue
  SupplyBacked
PROPERTIES
  ImplementsConfig
SYMMETRY McSymmetry
CHECK_DEADLOCK FALSE
