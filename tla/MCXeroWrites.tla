---------------------------- MODULE MCXeroWrites ----------------------------
(***************************************************************************)
(* An instance of XeroWrites for TLC: an invoice d1 of two lines (or of    *)
(* none) of which one is flagged, a bank transaction d2, and two requests  *)
(* at a time.                                                              *)
(***************************************************************************)
EXTENDS XeroWrites, TLC

CONSTANTS d1, d2, l1, l2, k1, k2, x1, x2, r1, r2

MCDocs == {d1, d2}
MCBankDocs == {d2}
MCLines == {l1, l2}
MCAccounts == {k1, k2}
MCTaxes == {x1, x2}
MCRequests == {r1, r2}
RequestSymmetry == Permutations(MCRequests)

Invoice(items, due) == [status |-> "authorised", items |-> items, due |-> due,
                        notes |-> 0, file |-> FALSE]
Finding(rule, codes) == [rule |-> rule, twin |-> d2, codes |-> codes,
                         paid |-> FALSE, resolved |-> FALSE]
TwoLines == (l1 :> [account |-> k1, tax |-> x1]) @@ (l2 :> [account |-> k2, tax |-> x2])

MCInit ==
  /\ \E f \in {<<"duplicate", {k1}, TwoLines>>, <<"context", {x1}, TwoLines>>,
               <<"unapproved", {k1}, NoItems>>} :
       /\ xero = (d1 :> Invoice(f[3], TRUE)) @@ (d2 :> Invoice(NoItems, FALSE))
       /\ row = (d1 :> Finding(f[1], f[2])) @@ (d2 :> Finding("original", {}))
  /\ Init

\* The search is kept to the requests that ask for the codes no flagged line
\* has, and to edits that take a line away, or move it to the other account.
MCFewCodes ==
  /\ \A r \in MCRequests : request'[r] # None => request'[r].code \in {None, k2, x2}
  /\ \A l \in MCLines :
       edits' # edits /\ xero'[d1].items[l] # xero[d1].items[l]
         => xero'[d1].items[l] \in {None, [account |-> k2, tax |-> x1]}
  /\ xero'[d2].items = NoItems

MCSpec == MCInit /\ [][Next]_vars
=============================================================================
