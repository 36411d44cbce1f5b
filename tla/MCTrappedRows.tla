--------------------------- MODULE MCTrappedRows ---------------------------
(* Model values for TrappedRows: a bill or invoice, a contact, an account. *)
EXTENDS TrappedRows, TLC

CONSTANTS t1, c1, a1, r1, r2, r3, w1, w2

MCThreeDocs == {t1, c1, a1}
MCThreeKindOf == (t1 :> "transaction") @@ (c1 :> "contact") @@ (a1 :> "account")
MCThreeIssuesOf == (t1 :> {"duplicate_bill", "old_unpaid"})
                   @@ (c1 :> {"contact_defaults"})
                   @@ (a1 :> {"missing_accrual"})
MCDupIssues == {"duplicate_bill"}
MCRows == {r1, r2, r3}
MCWorkers == {w1, w2}
RowSymmetry == Permutations(MCRows)

\* The workers are interchangeable: where none is at work, w1 starts.
MCFirstWorkerFirst ==
  (\A w \in Workers : stage[w] = "idle") => stage'[w2] = "idle"

MCFailedChunk == \E w \in Workers : plan[w].checked # plan[w].evaluated
MCMet(d) == (\E r \in Rows : rows[r] # None /\ rows[r].doc = d)
              \/ \E w \in Workers : plan[w].found[d] # {}

\* Bound: at most one user request where a chunk failed or two documents were
\* flagged or listed, and none where the account was one of the two.
MCMetDocs == {d \in Docs : MCMet(d)}
MCFewRequests ==
  /\ MCFailedChunk \/ Cardinality(MCMetDocs) > 1 \/ a1 \in MCMetDocs => requests <= 1
  /\ a1 \in MCMetDocs => ~ MCFailedChunk /\ (c1 \in MCMetDocs => requests = 0)

\* Bound: audits overlap on one flagged document, without a failed chunk and
\* before any user request; one request may follow a second row.
MCFewInOverlap ==
  /\ (\A w \in Workers : stage[w] # "idle") =>
       /\ requests = 0
       /\ Cardinality(MCMetDocs) <= 1
       /\ ~ MCFailedChunk
  /\ (\E r, q \in Used : r # q /\ rows[r].doc = rows[q].doc
                          /\ KindOf[rows[r].doc] # "contact") => requests <= 1
============================================================================
