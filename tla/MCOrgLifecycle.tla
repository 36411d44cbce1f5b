--------------------------- MODULE MCOrgLifecycle ---------------------------
(***************************************************************************)
(* Instances of OrgLifecycle for TLC.  Connections, users and orgs are     *)
(* interchangeable; as liveness forbids TLC's symmetry reduction, it is    *)
(* taken by hand where it matters most: the grant that exists at the start *)
(* is c1's, by u1, and t1 is the org it covers if it covers only one.      *)
(***************************************************************************)
EXTENDS OrgLifecycle, TLC

CONSTANTS t1, t2, c1, c2, u1, u2, w1, w2, r1, rec

MCInit ==
  /\ Init
  /\ granted[c2] = None
  /\ granted[c1] # u2
  /\ live[c1] # {t2}

MCSpec == MCInit /\ [][Next]_vars
MCFairSpec == MCSpec /\ Fairness
=============================================================================
