CONSTANTS
  Entities = {e1, e2}
  Tasks = {t1, t2}
  MaxFaults = 1
  MaxGrants = 1
  Absent = Absent
SPECIFICATION FairTaskSpec
INVARIANTS
  InProgressIsTrue
PROPERTIES
  EveryPullIsToldOver
  HealthCatchesUp
  ChangesAreAudited
CHECK_DEADLOCK TRUE
