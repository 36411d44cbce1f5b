SPECIFICATION MCFairSpec
CONSTANTS
  i1 = i1
  w1 = w1
  w2 = w2
  ghost = ghost
  u1 = u1
  d1 = d1
  x1 = x1
  x2 = x2
  None = None
  Sections <- MCSections
  Items = {i1}
  Unknown = {u1}
  Rows <- MCRows
  Ids <- MCIds
  Orders <- MCOrders
  Docs <- MCDocs
  Txns <- MCTxns
  DocOf <- MCDocOf
  Requests = {r1, r2}
  MaxRequests = 3
PROPERTIES
  SaveKeepsOtherSections
  SecondRowNeedsOverlap
  EveryRequestAnswers
CHECK_DEADLOCK FALSE
