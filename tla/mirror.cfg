CONSTANTS
  w1 = w1
  w2 = w2
  None = None
  Ids <- MCIds
  Modes = {"incremental", "full"}
  Workers = {w1, w2}
  MaxPages = 2
  MaxProxyPages = 1
  Overlap = 1
  MaxPull = 0
  MaxTime = 2
  MaxEdits = 2
  MaxPulls = 2
  MaxFailures = 1
SPECIFICATION Spec
CONSTRAINT MCLongListChangesOnce
ACTION_CONSTRAINT MCMovesToTheEnd
SYMMETRY WorkerSymmetry
CHECK_DEADLOCK FALSE
INVARIANTS
  HolesHaveACause
PROPERTIES
  QuietPullIsExact
  WatermarkOnlyAdvances
