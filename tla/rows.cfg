CONSTANTS
  t1 = t1
  c1 = c1
  a1 = a1
  r1 = r1
  r2 = r2
  r3 = r3
  w1 = w1
  w2 = w2
  Docs <- MCThreeDocs
  KindOf <- MCThreeKindOf
  IssuesOf <- MCThreeIssuesOf
  DupIssues <- MCDupIssues
  ContactRule = "contact_defaults"
  Rows <- MCRows
  Workers <- MCWorkers
  Users = {u1}
  MaxRuns = 2
  MaxRequests = 2
  MaxSkipped = 1
  None = None
SPECIFICATION Spec
CONSTRAINT MCFewRequests
CONSTRAINT MCFewInOverlap
ACTION_CONSTRAINT MCFirstWorkerFirst
SYMMETRY RowSymmetry
PROPERTIES
  SecondRowNeedsOverlap
  OnlyStaleCopiesLoseDecisions
  ClearsOnlyWhatItFetched
  ScopedRunKeepsOtherIssues
  LatestRunWins
CHECK_DEADLOCK FALSE
