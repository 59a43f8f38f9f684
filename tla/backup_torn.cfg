SPECIFICATION Spec
CONSTANTS
  u1 = u1
  u2 = u2
  b1 = b1
  b2 = b2
  b3 = b3
  r1 = r1
  NoBackup = NoBackup
  PerTx = 2
  MaxTraffic = 0
  Users = {u1}
  Backups = {b1, b3}
  Owner <- AgainOwner
  Size <- AgainSize
  Readers = {r1}
  Wants <- RestoreAgain
INVARIANTS
  ReadsComplete
CHECK_DEADLOCK FALSE
