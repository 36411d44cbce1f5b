------------------------- MODULE MCCompanyRequests -------------------------
(***************************************************************************)
(* An instance of CompanyRequests for TLC: two rows that lists name in     *)
(* both orders (and an id of no row), a document under two ids.             *)
(***************************************************************************)
EXTENDS CompanyRequests, TLC

CONSTANTS i1, u1, w1, w2, ghost, d1, x1, x2

MCSections == {Rules, "bank_balance"}
MCRows == {w1, w2}
MCIds == {w1, w2, ghost}
MCOrders == {<<w1, w2>>, <<w2, ghost, w1>>, <<w2, w2>>}
MCDocs == {d1}
MCTxns == {x1, x2}
MCDocOf == (x1 :> d1) @@ (x2 :> d1)

MCFairSpec == Spec /\ Fairness
=============================================================================
