\* Three clients, limits below their number, RELOAD switching between them.
SPECIFICATION QuietFairSpec
CONSTANTS
  c1 = c1
  c2 = c2
  c3 = c3
  Conns = {c1, c2, c3}
  Manager = Manager
  NoOne = NoOne
  Limits = {1, 2}
  Passwords <- TwoPasswords
  Inputs <- Lines
  MAX_CMD_LEN = 6
  Modulus = 8
INVARIANTS
  TypeOK
  CountExact
  AdmittedWithinLimit
PROPERTIES
  RefusedOnlyWhenFull
  ReloadsAreProven
  PoolDrains
