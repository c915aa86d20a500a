SPECIFICATION FairSpec
CONSTANTS
  Items = {i1, i2}
  Drains = {d1, d2}
  Batch = 2
  MaxFaults = 2
INVARIANTS VerdictInv VerdictIsComplete ClaimHasSettler
PROPERTY RunSettles
CHECK_DEADLOCK FALSE
