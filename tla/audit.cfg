CONSTANTS
  b1 = b1
  b2 = b2
  w1 = w1
  w2 = w2
  None = None
  Batches = {b1, b2}
  Scope <- MCScope
  Watched = {b1}
  Workers = {w1}
  MaxFaults = 2
SPECIFICATION FairSpec
CHECK_DEADLOCK FALSE
INVARIANTS
  SettledAgree
PROPERTIES
  KeepsPromise
  EveryAuditSettles
  EveryWatchEnds
