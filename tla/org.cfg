SPECIFICATION MCFairSpec
CONSTANTS
  t1 = t1
  t2 = t2
  c1 = c1
  c2 = c2
  u1 = u1
  u2 = u2
  w1 = w1
  w2 = w2
  r1 = r1
  rec = rec
  None = None
  Tenants = {t1, t2}
  Connections = {c1, c2}
  Users = {u1, u2}
  Handlers = {w1, w2}
  Reconciler = rec
  Requests = {r1}
  MaxEvents = 3
PROPERTIES
  QuietReconcileIsExact
  
  ReconcileDiesOnlyOfSharing
  RevokedGoesInactive
  RemovedReturnsTwoWays
