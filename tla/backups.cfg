SPECIFICATION Spec
CONSTANTS
  u1 = u1
  u2 = u2
  b1 = b1
  b2 = b2
  b3 = b3
  r1 = r1
  NoBackup = NoBackup
  PerTx = 2
  MaxTraffic = 1
  Users = {u1, u2}
  Backups = {b1, b2, b3}
  Owner <- McOwner
  Size <- McSize
  Readers = {r1}
  Wants <- RestoreOnce
INVARIANTS
  TypeOK
PROPERTIES
  ImplementsRegister
  OkMeansStored
CHECK_DEADLOCK FALSE
