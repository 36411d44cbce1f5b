------------------------- MODULE TrappedRowsProofs -------------------------
(***************************************************************************)
(* Proofs about the rows of a company and about the AI notes shown with    *)
(* them: TrappedRows, for any documents, issues, keys and bounds, and      *)
(* AiNotes, for any finite documents, any issues, jobs and bounds.         *)
(***************************************************************************)
EXTENDS TrappedRows, AiNotes, FiniteSetTheorems, SequenceTheorems, TLAPS

-----------------------------------------------------------------------------
(* What the row operators return.                                          *)

LEMMA IssuesOfDoc == \A d \in Docs : IssuesOf[d] \subseteq Issues
  BY DEF Issues

LEMMA NothingSeenType == NothingSeen \in [Rows -> Row \cup {None}]
  BY DEF NothingSeen

LEMMA NoPlanType == NoPlan \in Plan
  BY DEF NoPlan, Plan, Scopes

\* Every user operation keeps a row a row, of the same document.
LEMMA ApplyType ==
  ASSUME NEW row \in Row, NEW op \in RowOps \cup ContactOps
  PROVE  Apply(op, row) \in Row /\ Apply(op, row).doc = row.doc
  BY DEF Apply, Row, RowOps, ContactOps, Marks, EndStates, HideMarks

LEMMA RescoreType ==
  ASSUME NEW row \in Row, NEW p \in Plan
  PROVE  Rescore(row, p) \in Row /\ Rescore(row, p).doc = row.doc
  BY DEF Rescore, Row, Plan

LEMMA ClearedRowType ==
  ASSUME NEW row \in Row, NEW p \in Plan
  PROVE  ClearedRow(row, p) \in Row /\ ClearedRow(row, p).doc = row.doc
  BY DEF ClearedRow, Row, Marks

LEMMA NewRowType ==
  ASSUME NEW d \in Docs, NEW p \in Plan
  PROVE  NewRow(d, p) \in Row /\ NewRow(d, p).doc = d
  BY DEF NewRow, Row, Plan

LEMMA WorkType ==
  ASSUME NEW p \in Plan, NEW s \in Stages
  PROVE  Work(p, s) \subseteq Docs
  BY DEF Work, Plan, Stages, PersistStages, ClearStages, Flagged, OfKind, Stale

LEMMA NextStageType ==
  \A s \in PersistStages \cup ClearStages : NextStage[s] \in Stages
  BY DEF NextStage, Stages, PersistStages, ClearStages

-----------------------------------------------------------------------------
(* Type correctness.                                                       *)

LEMMA EnterType ==
  ASSUME TypeOK, NEW w \in Workers, NEW s \in Stages, NEW p \in Plan, Enter(w, s, p)
  PROVE  /\ stage' \in [Workers -> Stages]
         /\ plan' \in [Workers -> Plan]
         /\ todo' \in [Workers -> SUBSET Docs]
         /\ missing' \in [Workers -> SUBSET Docs]
         /\ seen' \in [Sessions -> [Rows -> Row \cup {None}]]
  BY WorkType, NoPlanType, NothingSeenType DEF TypeOK, Enter, Sessions

LEMMA CommitType ==
  ASSUME TypeOK, NEW p, Commit(p)
  PROVE  touched' \in [Workers -> SUBSET Rows]
  BY DEF TypeOK, Commit

(* One commit of an audit's persist transaction: the keys it inserts under *)
(* were free, every other row keeps its document.                          *)
LEMMA PersistCommitRows ==
  ASSUME TypeOK, NEW w \in Workers, PersistCommit(w)
  PROVE  /\ rows' \in [Rows -> Row \cup {None}]
         /\ \E key \in [missing[w] -> Free] :
              /\ \A d, e \in missing[w] : key[d] = key[e] => d = e
              /\ \A r \in Rows :
                   \/ \E d \in missing[w] : key[d] = r /\ rows'[r] = NewRow(d, plan[w])
                   \/ /\ seen[w][r] # None
                      /\ Rescorable(seen[w][r])
                      /\ rows'[r] = Rescore(seen[w][r], plan[w])
                   \/ rows'[r] = rows[r]
  <1>1. PICK key \in [missing[w] -> Free] :
          /\ \A d, e \in missing[w] : key[d] = key[e] => d = e
          /\ rows' = [r \in Rows |->
               IF \E d \in missing[w] : key[d] = r
                 THEN NewRow(CHOOSE d \in missing[w] : key[d] = r, plan[w])
               ELSE IF seen[w][r] # None /\ Rescorable(seen[w][r])
                 THEN Rescore(seen[w][r], plan[w])
               ELSE rows[r]]
    BY DEF PersistCommit
  <1>2. ASSUME NEW r \in Rows
        PROVE  \/ \E d \in missing[w] : key[d] = r /\ rows'[r] = NewRow(d, plan[w])
               \/ /\ seen[w][r] # None
                  /\ Rescorable(seen[w][r])
                  /\ rows'[r] = Rescore(seen[w][r], plan[w])
               \/ rows'[r] = rows[r]
    <2>1. CASE \E d \in missing[w] : key[d] = r
      <3> DEFINE c == CHOOSE d \in missing[w] : key[d] = r
      <3>1. c \in missing[w] /\ key[c] = r
        BY <2>1
      <3>2. rows'[r] = NewRow(c, plan[w])
        BY <1>1, <2>1
      <3>3. QED BY <3>1, <3>2
    <2>2. CASE ~ \E d \in missing[w] : key[d] = r
      BY <1>1, <2>2
    <2>3. QED BY <2>1, <2>2
  <1>3. \A r \in Rows : rows'[r] \in Row \cup {None}
    <2> SUFFICES ASSUME NEW r \in Rows PROVE rows'[r] \in Row \cup {None}
      OBVIOUS
    <2>1. plan[w] \in Plan /\ missing[w] \subseteq Docs
      BY DEF TypeOK
    <2>2. seen[w][r] \in Row \cup {None} /\ rows[r] \in Row \cup {None}
      BY DEF TypeOK, Sessions
    <2>3. QED BY <1>2, <2>1, <2>2, NewRowType, RescoreType
  <1>4. rows' = [r \in Rows |-> rows'[r]]
    BY <1>1
  <1>5. QED BY <1>1, <1>2, <1>3, <1>4

LEMMA InitTypeOK == Init => TypeOK /\ SessionsAgree
  BY NothingSeenType, NoPlanType, BoundAssumption, NoneAssumption
  DEF Init, TypeOK, SessionsAgree, NothingSeen, Stages, Sessions

LEMMA NextTypeOK == TypeOK /\ SessionsAgree /\ [Next]_vars => TypeOK'
  <1> SUFFICES ASSUME TypeOK, SessionsAgree, [Next]_vars PROVE TypeOK'
    OBVIOUS
  <1>1. ASSUME NEW w \in Workers, Evaluate(w) PROVE TypeOK'
    <2>1. PICK p \in Outcomes : Enter(w, "transaction", p)
      BY <1>1 DEF Evaluate
    <2>3. p \in Plan
      <3>1. \A flags : FlagsPerDocument(flags) \in [Docs -> SUBSET Issues]
        BY DEF FlagsPerDocument
      <3>2. QED BY <3>1 DEF Outcomes, Drafts, Plan
    <2>4. "transaction" \in Stages
      BY DEF Stages, PersistStages
    <2>5. Enter(w, "transaction", p)
      BY <2>1
    <2>6. /\ stage' \in [Workers -> Stages]
          /\ plan' \in [Workers -> Plan]
          /\ todo' \in [Workers -> SUBSET Docs]
          /\ missing' \in [Workers -> SUBSET Docs]
          /\ seen' \in [Sessions -> [Rows -> Row \cup {None}]]
      BY <2>3, <2>4, <2>5, EnterType
    <2>7. runs' \in 0 .. MaxRuns
      BY <1>1, BoundAssumption DEF Evaluate, TypeOK
    <2>8. touched' \in [Workers -> SUBSET Rows] /\ UNCHANGED <<rows, request, requests>>
      BY <1>1 DEF Evaluate, TypeOK
    <2>9. QED BY <2>6, <2>7, <2>8 DEF TypeOK
  <1>2. ASSUME NEW w \in Workers, NEW d \in Docs, SelectDocument(w, d) PROVE TypeOK'
    <2>1. seen' \in [Sessions -> [Rows -> Row \cup {None}]]
      <3>1. CASE seen' = seen
        BY <3>1 DEF TypeOK
      <3>2. ASSUME NEW r \in Rows, seen' = [seen EXCEPT ![w][r] = rows[r]]
            PROVE  seen' \in [Sessions -> [Rows -> Row \cup {None}]]
        BY <3>2 DEF TypeOK, Sessions
      <3>3. seen' = seen \/ \E r \in Candidates(d) : seen' = [seen EXCEPT ![w][r] = rows[r]]
        BY <1>2 DEF SelectDocument
      <3>4. Candidates(d) \subseteq Rows
        BY DEF Candidates, RowsFor, Used
      <3>5. QED BY <3>1, <3>2, <3>3, <3>4
    <2>2. missing' \in [Workers -> SUBSET Docs] /\ todo' \in [Workers -> SUBSET Docs]
      BY <1>2 DEF SelectDocument, TypeOK
    <2>3. UNCHANGED <<rows, stage, plan, request, runs, requests, touched>>
      BY <1>2 DEF SelectDocument
    <2>4. QED BY <2>1, <2>2, <2>3 DEF TypeOK
  <1>3. ASSUME NEW w \in Workers, PersistCommit(w) PROVE TypeOK'
    <2>1. NextStage[stage[w]] \in Stages /\ plan[w] \in Plan
      BY <1>3, NextStageType DEF PersistCommit, TypeOK
    <2>2. Enter(w, NextStage[stage[w]], plan[w]) /\ Commit(w)
          /\ UNCHANGED <<request, runs, requests>>
      BY <1>3 DEF PersistCommit
    <2>3. rows' \in [Rows -> Row \cup {None}]
      BY <1>3, PersistCommitRows
    <2>4. QED BY <2>1, <2>2, <2>3, EnterType, CommitType DEF TypeOK
  <1>4. ASSUME NEW w \in Workers, SelectStale(w) PROVE TypeOK'
    <2>1. [r \in Rows |-> IF rows[r] # None /\ rows[r].doc \in todo[w]
                          THEN rows[r] ELSE None] \in [Rows -> Row \cup {None}]
      BY DEF TypeOK
    <2>2. seen' \in [Sessions -> [Rows -> Row \cup {None}]]
      BY <1>4, <2>1 DEF SelectStale, TypeOK, Sessions
    <2>3. todo' \in [Workers -> SUBSET Docs]
          /\ UNCHANGED <<rows, stage, plan, missing, request, runs, requests, touched>>
      BY <1>4 DEF SelectStale, TypeOK
    <2>4. QED BY <2>2, <2>3 DEF TypeOK
  <1>5. ASSUME NEW w \in Workers, ClearCommit(w) PROVE TypeOK'
    <2>1. NextStage[stage[w]] \in Stages /\ plan[w] \in Plan
      BY <1>5, NextStageType DEF ClearCommit, TypeOK
    <2>2. Enter(w, NextStage[stage[w]], plan[w]) /\ Commit(w)
          /\ UNCHANGED <<request, runs, requests>>
      BY <1>5 DEF ClearCommit
    <2>3. \A r \in Rows : seen[w][r] \in Row \cup {None} /\ rows[r] \in Row \cup {None}
      BY DEF TypeOK, Sessions
    <2>4. rows' \in [Rows -> Row \cup {None}]
      BY <1>5, <2>1, <2>3, ClearedRowType DEF ClearCommit
    <2>5. QED BY <2>1, <2>2, <2>4, EnterType, CommitType DEF TypeOK
  <1>6. ASSUME NEW w \in Workers, AuditFails(w) PROVE TypeOK'
    <2>1. "idle" \in Stages
      BY DEF Stages
    <2>2. Enter(w, "idle", NoPlan)
      BY <1>6 DEF AuditFails
    <2>3. touched' \in [Workers -> SUBSET Rows]
          /\ UNCHANGED <<rows, request, runs, requests>>
      BY <1>6 DEF AuditFails, TypeOK
    <2>4. QED BY <2>1, <2>2, <2>3, EnterType, NoPlanType DEF TypeOK
  <1>7. ASSUME NEW u \in Users, NEW op \in RowOps, NEW r \in Rows, BeginRequest(u, op, r)
        PROVE  TypeOK'
    <2>1. request' \in [Users -> Request \cup {None}]
      BY <1>7 DEF BeginRequest, TypeOK, Request, Row
    <2>2. seen' \in [Sessions -> [Rows -> Row \cup {None}]]
      BY <1>7 DEF BeginRequest, TypeOK, Sessions
    <2>3. requests' \in 0 .. MaxRequests
      BY <1>7, BoundAssumption DEF BeginRequest, TypeOK
    <2>4. UNCHANGED <<rows, stage, plan, todo, missing, runs, touched>>
      BY <1>7 DEF BeginRequest, auditVars
    <2>5. QED BY <2>1, <2>2, <2>3, <2>4 DEF TypeOK
  <1>8. ASSUME NEW u \in Users, NEW op \in ContactOps, NEW d \in Docs,
               BeginContactRequest(u, op, d)
        PROVE  TypeOK'
    <2>1. request' \in [Users -> Request \cup {None}]
      BY <1>8 DEF BeginContactRequest, TypeOK, Request, DefaultsRows, RowsFor, Used
    <2>2. seen' \in [Sessions -> [Rows -> Row \cup {None}]]
      <3>1. CASE seen' = seen
        BY <3>1 DEF TypeOK
      <3>2. ASSUME NEW r \in Rows, seen' = [seen EXCEPT ![u][r] = rows[r]]
            PROVE  seen' \in [Sessions -> [Rows -> Row \cup {None}]]
        BY <3>2 DEF TypeOK, Sessions
      <3>3. QED BY <1>8, <3>1, <3>2 DEF BeginContactRequest, DefaultsRows, RowsFor, Used
    <2>3. requests' \in 0 .. MaxRequests
      BY <1>8, BoundAssumption DEF BeginContactRequest, TypeOK
    <2>4. UNCHANGED <<rows, stage, plan, todo, missing, runs, touched>>
      BY <1>8 DEF BeginContactRequest, auditVars
    <2>5. QED BY <2>1, <2>2, <2>3, <2>4 DEF TypeOK
  <1>9. ASSUME NEW u \in Users, CommitRequest(u) PROVE TypeOK'
    <2> DEFINE q == request[u].row
    <2>1. request[u] \in Request /\ q \in Rows /\ request[u].op \in RowOps \cup ContactOps
      BY <1>9 DEF CommitRequest, TypeOK, Request
    <2>2. seen[u][q] \in Row
      BY <1>9, <2>1 DEF CommitRequest, TypeOK, Sessions, SessionsAgree
    <2>3. rows' \in {[rows EXCEPT ![q] = Apply(request[u].op, seen[u][q])], rows}
      BY <1>9 DEF CommitRequest
    <2>4. rows' \in [Rows -> Row \cup {None}]
      BY <2>1, <2>2, <2>3, ApplyType DEF TypeOK
    <2>5. EndRequest(u) /\ Commit(u)
          /\ UNCHANGED <<stage, plan, todo, missing, runs, requests>>
      BY <1>9 DEF CommitRequest, auditVars
    <2>6. QED BY <2>4, <2>5, CommitType, NothingSeenType DEF TypeOK, EndRequest, Sessions
  <1>10. ASSUME NEW u \in Users, InsertDismissed(u) PROVE TypeOK'
    <2>1. request[u] \in Request /\ KindOf[request[u].doc] = "contact"
      BY <1>10 DEF InsertDismissed, TypeOK, SessionsAgree
    <2>2. ContactRule \in Issues
      BY <2>1, IssueAssumption DEF Issues, Request
    <2>3. [doc |-> request[u].doc, flagged |-> {ContactRule}, marks |-> {"dismissed"}] \in Row
      BY <2>1, <2>2 DEF Row, Request, Marks, EndStates
    <2>4. rows' \in [Rows -> Row \cup {None}]
      BY <1>10, <2>3 DEF InsertDismissed, TypeOK, Free
    <2>5. EndRequest(u) /\ Commit(u)
          /\ UNCHANGED <<stage, plan, todo, missing, runs, requests>>
      BY <1>10 DEF InsertDismissed, auditVars
    <2>6. QED BY <2>4, <2>5, CommitType, NothingSeenType DEF TypeOK, EndRequest, Sessions
  <1>11. ASSUME NEW u \in Users, AbandonRequest(u) PROVE TypeOK'
    <2>1. EndRequest(u) /\ UNCHANGED <<rows, stage, plan, todo, missing, runs, requests, touched>>
      BY <1>11 DEF AbandonRequest, auditVars
    <2>2. QED BY <2>1, NothingSeenType DEF TypeOK, EndRequest, Sessions
  <1>12. ASSUME NEW op \in BulkOps, NEW chosen \in SUBSET Used, Bulk(op, chosen)
         PROVE  TypeOK'
    <2>1. \A r \in chosen : rows[r] \in Row
      BY DEF Used, TypeOK
    <2>2. rows' = [r \in Rows |-> IF r \in chosen THEN Apply(op, rows[r]) ELSE rows[r]]
      BY <1>12 DEF Bulk
    <2>3. rows' \in [Rows -> Row \cup {None}]
      BY <2>1, <2>2, ApplyType DEF TypeOK, BulkOps
    <2>4. requests' \in 0 .. MaxRequests
      BY <1>12, BoundAssumption DEF Bulk, TypeOK
    <2>5. Commit(None) /\ UNCHANGED <<stage, plan, todo, missing, request, seen, runs>>
      BY <1>12 DEF Bulk, auditVars
    <2>6. QED BY <2>3, <2>4, <2>5, CommitType DEF TypeOK
  <1>13. CASE UNCHANGED vars
    BY <1>13 DEF vars, TypeOK
  <1>14. QED
    BY <1>1, <1>2, <1>3, <1>4, <1>5, <1>6, <1>7, <1>8, <1>9, <1>10, <1>11, <1>12, <1>13
    DEF Next
-----------------------------------------------------------------------------
(* Rows are never deleted and never change document.                       *)

KeepsDocs == \A r \in Rows :
  rows[r] # None => rows'[r] # None /\ rows'[r].doc = rows[r].doc

LEMMA RowsKeepDocs == TypeOK /\ SessionsAgree /\ [Next]_vars => KeepsDocs
  <1> SUFFICES ASSUME TypeOK, SessionsAgree, [Next]_vars,
                      NEW r \in Rows, rows[r] # None
               PROVE  rows'[r] # None /\ rows'[r].doc = rows[r].doc
    BY DEF KeepsDocs
  <1>a. rows[r] \in Row /\ None \notin Row
    BY NoneAssumption DEF TypeOK
  <1>1. ASSUME NEW w \in Workers, PersistCommit(w)
        PROVE  rows'[r] # None /\ rows'[r].doc = rows[r].doc
    <2>1. PICK key \in [missing[w] -> Free] :
            \/ \E d \in missing[w] : key[d] = r /\ rows'[r] = NewRow(d, plan[w])
            \/ /\ seen[w][r] # None
               /\ rows'[r] = Rescore(seen[w][r], plan[w])
            \/ rows'[r] = rows[r]
      BY <1>1, PersistCommitRows
    <2>2. ~ \E d \in missing[w] : key[d] = r
      BY DEF Free
    <2>3. CASE seen[w][r] # None /\ rows'[r] = Rescore(seen[w][r], plan[w])
      <3>1. seen[w][r] \in Row /\ plan[w] \in Plan /\ rows[r].doc = seen[w][r].doc
        BY <2>3 DEF TypeOK, SessionsAgree, Sessions
      <3>2. QED BY <2>3, <3>1, <1>a, RescoreType
    <2>4. QED BY <2>1, <2>2, <2>3, <1>a
  <1>2. ASSUME NEW w \in Workers, ClearCommit(w)
        PROVE  rows'[r] # None /\ rows'[r].doc = rows[r].doc
    <2>1. CASE seen[w][r] # None /\ Clearable(seen[w][r], plan[w])
      <3>1. rows'[r] = ClearedRow(seen[w][r], plan[w])
        BY <1>2, <2>1 DEF ClearCommit
      <3>2. seen[w][r] \in Row /\ plan[w] \in Plan /\ rows[r].doc = seen[w][r].doc
        BY <2>1 DEF TypeOK, SessionsAgree, Sessions
      <3>3. QED BY <3>1, <3>2, <1>a, ClearedRowType
    <2>2. CASE ~(seen[w][r] # None /\ Clearable(seen[w][r], plan[w]))
      BY <1>2, <2>2 DEF ClearCommit
    <2>3. QED BY <2>1, <2>2
  <1>3. ASSUME NEW u \in Users, CommitRequest(u)
        PROVE  rows'[r] # None /\ rows'[r].doc = rows[r].doc
    <2> DEFINE q == request[u].row
    <2>1. request[u] \in Request /\ q \in Rows /\ request[u].op \in RowOps \cup ContactOps
      BY <1>3 DEF CommitRequest, TypeOK, Request
    <2>2. seen[u][q] \in Row /\ rows[q].doc = seen[u][q].doc
      BY <1>3, <2>1 DEF CommitRequest, TypeOK, Sessions, SessionsAgree
    <2>3. rows' \in {[rows EXCEPT ![q] = Apply(request[u].op, seen[u][q])], rows}
      BY <1>3 DEF CommitRequest
    <2>4. CASE r = q
      BY <2>1, <2>2, <2>3, <2>4, <1>a, ApplyType DEF TypeOK
    <2>5. CASE r # q
      BY <2>3, <2>5, <2>1 DEF TypeOK
    <2>6. QED BY <2>4, <2>5
  <1>4. ASSUME NEW u \in Users, InsertDismissed(u)
        PROVE  rows'[r] # None /\ rows'[r].doc = rows[r].doc
    BY <1>4 DEF InsertDismissed, Free, TypeOK
  <1>5. ASSUME NEW op \in BulkOps, NEW chosen \in SUBSET Used, Bulk(op, chosen)
        PROVE  rows'[r] # None /\ rows'[r].doc = rows[r].doc
    <2>1. rows'[r] = IF r \in chosen THEN Apply(op, rows[r]) ELSE rows[r]
      BY <1>5 DEF Bulk
    <2>2. QED BY <2>1, <1>a, ApplyType DEF BulkOps
  <1>6. CASE UNCHANGED rows
    BY <1>6
  <1>7. QED
    BY <1>1, <1>2, <1>3, <1>4, <1>5, <1>6
    DEF Next, vars, Evaluate, SelectDocument, SelectStale, AuditFails, BeginRequest,
        BeginContactRequest, AbandonRequest

(* A session that starts over holds nothing.                               *)
LEMMA SeenAfterReset ==
  ASSUME TypeOK, NEW p \in Sessions, seen' = [seen EXCEPT ![p] = NothingSeen]
  PROVE  \A o \in Sessions, r \in Rows :
           seen'[o][r] # None => o # p /\ seen'[o][r] = seen[o][r]
  BY DEF TypeOK, NothingSeen

LEMMA NextSessionsAgree == TypeOK /\ SessionsAgree /\ [Next]_vars => SessionsAgree'
  <1> SUFFICES ASSUME TypeOK, SessionsAgree, [Next]_vars PROVE SessionsAgree'
    OBVIOUS
  <1> DEFINE A == \A p \in Sessions, r \in Rows :
                    seen[p][r] # None => rows[r] # None /\ rows[r].doc = seen[p][r].doc
             B == \A u \in Users :
                    request[u] # None =>
                      IF request[u].row = None THEN KindOf[request[u].doc] = "contact"
                      ELSE seen[u][request[u].row] # None
  <1>k. KeepsDocs
    BY RowsKeepDocs
  <1>s. Users \subseteq Sessions /\ Workers \subseteq Sessions /\ Workers \cap Users = {}
    BY ProcessAssumption DEF Sessions
  <1>1. ASSUME NEW w \in Workers, seen' = [seen EXCEPT ![w] = NothingSeen], request' = request
        PROVE  A' /\ B'
    <2>1. A'
      <3>1. \A o \in Sessions, r \in Rows : seen'[o][r] # None => seen'[o][r] = seen[o][r]
        BY <1>1, <1>s, SeenAfterReset
      <3>2. QED BY <3>1, <1>k DEF SessionsAgree, KeepsDocs
    <2>2. \A u \in Users : seen'[u] = seen[u]
      BY <1>1, <1>s DEF TypeOK
    <2>3. B'
      BY <1>1, <2>2 DEF SessionsAgree
    <2>4. QED BY <2>1, <2>3
  <1>2. ASSUME NEW w \in Workers, NEW r \in Rows, rows[r] # None, rows' = rows,
               seen' = [seen EXCEPT ![w][r] = rows[r]], request' = request
        PROVE  A' /\ B'
    <2>1. A'
      BY <1>2, <1>s DEF SessionsAgree, TypeOK
    <2>2. \A u \in Users : seen'[u] = seen[u]
      BY <1>2, <1>s DEF TypeOK
    <2>3. B'
      BY <1>2, <2>2 DEF SessionsAgree
    <2>4. QED BY <2>1, <2>3
  <1>3. ASSUME NEW w \in Workers, SelectStale(w)
        PROVE  A' /\ B'
    <2>1. A'
      BY <1>3, <1>s DEF SelectStale, SessionsAgree, TypeOK
    <2>2. \A u \in Users : seen'[u] = seen[u]
      BY <1>3, <1>s DEF SelectStale, TypeOK
    <2>3. B'
      BY <1>3, <2>2 DEF SelectStale, SessionsAgree
    <2>4. QED BY <2>1, <2>3
  <1>4. ASSUME NEW u \in Users, NEW q \in Request, NEW r \in Rows, rows[r] # None,
               rows' = rows, q.row = r, request' = [request EXCEPT ![u] = q],
               seen' = [seen EXCEPT ![u][r] = rows[r]]
        PROVE  A' /\ B'
    <2>1. A'
      BY <1>4, <1>s DEF SessionsAgree, TypeOK
    <2>2. seen'[u][r] # None
      BY <1>4, <1>s DEF TypeOK
    <2>3. \A v \in Users : v # u => seen'[v] = seen[v] /\ request'[v] = request[v]
      BY <1>4, <1>s DEF TypeOK
    <2>4. request'[u] = q
      BY <1>4 DEF TypeOK
    <2>5. r # None
      BY NoneAssumption
    <2>6. B'
      BY <1>4, <2>2, <2>3, <2>4, <2>5 DEF SessionsAgree
    <2>7. QED BY <2>1, <2>6
  <1>5. ASSUME NEW u \in Users, NEW q \in Request, rows' = rows, seen' = seen, q.row = None,
               KindOf[q.doc] = "contact", request' = [request EXCEPT ![u] = q]
        PROVE  A' /\ B'
    BY <1>5, <1>s DEF SessionsAgree, TypeOK
  <1>6. ASSUME NEW u \in Users, EndRequest(u)
        PROVE  A' /\ B'
    <2>1. A'
      <3>1. \A o \in Sessions, r \in Rows : seen'[o][r] # None => seen'[o][r] = seen[o][r]
        BY ZenonT(40), <1>6, <1>s, SeenAfterReset DEF EndRequest
      <3>2. QED BY <3>1, <1>k DEF SessionsAgree, KeepsDocs
    <2>2. \A v \in Users : v # u => seen'[v] = seen[v] /\ request'[v] = request[v]
      BY <1>6, <1>s DEF EndRequest, TypeOK
    <2>3. request'[u] = None
      BY <1>6 DEF EndRequest, TypeOK
    <2>4. B'
      BY <2>2, <2>3 DEF SessionsAgree
    <2>5. QED BY <2>1, <2>4
  <1>7. ASSUME UNCHANGED <<seen, request>>
        PROVE  A' /\ B'
    BY <1>7, <1>k DEF SessionsAgree, KeepsDocs
  <1>8. ASSUME NEW w \in Workers, NEW d \in Docs, SelectDocument(w, d)
        PROVE  A' /\ B'
    <2>1. CASE seen' = seen
      BY <1>7, <1>8, <2>1 DEF SelectDocument
    <2>2. ASSUME NEW r \in Candidates(d), seen' = [seen EXCEPT ![w][r] = rows[r]]
          PROVE  A' /\ B'
      BY <1>2, <1>8, <2>2 DEF SelectDocument, Candidates, RowsFor, Used
    <2>3. QED BY <1>8, <2>1, <2>2 DEF SelectDocument
  <1>9. ASSUME NEW u \in Users, NEW op \in RowOps, NEW r \in Rows, BeginRequest(u, op, r)
        PROVE  A' /\ B'
    <2> DEFINE q == [op |-> op, doc |-> rows[r].doc, row |-> r]
    <2>1. q \in Request /\ q.row = r
      BY <1>9 DEF BeginRequest, TypeOK, Row, Request
    <2>2. /\ rows[r] # None /\ rows' = rows
          /\ request' = [request EXCEPT ![u] = q]
          /\ seen' = [seen EXCEPT ![u][r] = rows[r]]
      BY <1>9 DEF BeginRequest
    <2> HIDE DEF q
    <2>3. QED BY <2>1, <2>2, <1>4
  <1>10. ASSUME NEW u \in Users, NEW op \in ContactOps, NEW d \in Docs,
                BeginContactRequest(u, op, d)
         PROVE  A' /\ B'
    <2>1. ASSUME NEW r \in DefaultsRows(d),
                 request' = [request EXCEPT ![u] = [op |-> op, doc |-> d, row |-> r]],
                 seen' = [seen EXCEPT ![u][r] = rows[r]]
          PROVE  A' /\ B'
      <3> DEFINE q == [op |-> op, doc |-> d, row |-> r]
      <3>1. q \in Request /\ q.row = r /\ r \in Rows /\ rows[r] # None
        BY <2>1 DEF Request, DefaultsRows, RowsFor, Used
      <3>2. rows' = rows /\ request' = [request EXCEPT ![u] = q]
        BY <1>10, <2>1 DEF BeginContactRequest
      <3> HIDE DEF q
      <3>3. QED BY ZenonT(40), <2>1, <3>1, <3>2, <1>4
    <2>2. ASSUME request' = [request EXCEPT ![u] = [op |-> op, doc |-> d, row |-> None]],
                 seen' = seen
          PROVE  A' /\ B'
      <3> DEFINE q == [op |-> op, doc |-> d, row |-> None]
      <3>1. q \in Request /\ q.row = None /\ KindOf[q.doc] = "contact"
        BY <1>10 DEF Request, BeginContactRequest
      <3>2. rows' = rows /\ request' = [request EXCEPT ![u] = q]
        BY <1>10, <2>2 DEF BeginContactRequest
      <3> HIDE DEF q
      <3>3. QED BY <2>2, <3>1, <3>2, <1>5
    <2>3. QED BY <1>10, <2>1, <2>2 DEF BeginContactRequest
  <1>11. QED
    <2>1. ASSUME NEW w \in Workers,
                 Evaluate(w) \/ PersistCommit(w) \/ ClearCommit(w) \/ AuditFails(w)
          PROVE  A' /\ B'
      BY <1>1, <2>1 DEF Evaluate, PersistCommit, ClearCommit, AuditFails, Enter
    <2>2. ASSUME NEW u \in Users, CommitRequest(u) \/ InsertDismissed(u) \/ AbandonRequest(u)
          PROVE  A' /\ B'
      BY <1>6, <2>2 DEF CommitRequest, InsertDismissed, AbandonRequest
    <2>3. ASSUME NEW op \in BulkOps, NEW chosen \in SUBSET Used, Bulk(op, chosen)
          PROVE  A' /\ B'
      BY <1>7, <2>3 DEF Bulk
    <2>4. ASSUME UNCHANGED vars PROVE A' /\ B'
      BY <1>7, <2>4 DEF vars
    <2>5. A' /\ B'
      <3> HIDE DEF A, B
      <3>1. QED BY <1>3, <1>8, <1>9, <1>10, <2>1, <2>2, <2>3, <2>4 DEF Next
    <2>6. QED BY <2>5 DEF SessionsAgree

(* Every variable keeps its type, and what a session holds stays true of   *)
(* the table while other sessions commit.                                  *)
THEOREM TypeCorrect == Spec => [](TypeOK /\ SessionsAgree)
  <1>1. TypeOK /\ SessionsAgree /\ [Next]_vars => (TypeOK /\ SessionsAgree)'
    BY NextTypeOK, NextSessionsAgree
  <1>2. QED BY <1>1, InitTypeOK, PTL DEF Spec
-----------------------------------------------------------------------------
(* Only stale copies lose decisions.                                       *)

LEMMA NextLosesOnlyStale ==
  ASSUME TypeOK, SessionsAgree, [Next]_vars, NEW r \in Used
  PROVE  /\ "resolved" \in EndStatesLost(r) => \E p \in Sessions : WroteStale(p, r)
         /\ \A w \in Workers :
              seen'[w] # seen[w] /\ EndStatesLost(r) # {} => WroteStale(w, r)
  <1>s. Users \subseteq Sessions /\ Workers \subseteq Sessions /\ Workers \cap Users = {}
    BY ProcessAssumption DEF Sessions
  <1>r. r \in Rows /\ rows[r] \in Row /\ rows[r] # None
    BY DEF Used, TypeOK
  <1>u. ASSUME NEW u \in Users, EndRequest(u)
        PROVE  \A w \in Workers : seen'[w] = seen[w]
    BY <1>u, <1>s DEF EndRequest, TypeOK
  <1>e. ASSUME NEW w \in Workers, seen[w][r] # None, seen' = [seen EXCEPT ![w] = NothingSeen]
        PROVE  seen'[w] # seen[w] /\ \A v \in Workers : seen'[v] # seen[v] => v = w
    BY <1>e, <1>r, <1>s DEF TypeOK, NothingSeen
  \* A session whose copy is current keeps the end states.
  <1>1. ASSUME NEW w \in Workers, PersistCommit(w), EndStatesLost(r) # {}
        PROVE  /\ WroteStale(w, r)
               /\ \A v \in Workers : seen'[v] # seen[v] => v = w
    <2>1. \/ \E d \in missing[w], key \in [missing[w] -> Free] : key[d] = r
          \/ /\ seen[w][r] # None
             /\ Rescorable(seen[w][r])
          \/ rows'[r] = rows[r]
      BY <1>1, <1>r, PersistCommitRows
    <2>2. r \notin Free
      BY <1>r DEF Free
    <2>3. rows'[r] # rows[r]
      BY <1>1 DEF EndStatesLost
    <2>4. seen[w][r] # None /\ Rescorable(seen[w][r])
      BY <2>1, <2>2, <2>3
    <2>5. rows[r].marks \cap EndStates # {}
      BY <1>1 DEF EndStatesLost
    <2>6. seen[w][r] # rows[r]
      BY <2>4, <2>5 DEF Rescorable
    <2>7. seen' = [seen EXCEPT ![w] = NothingSeen]
      BY <1>1 DEF PersistCommit, Enter
    <2>8. QED BY <2>4, <2>6, <2>7, <1>e DEF WroteStale
  <1>2. ASSUME NEW w \in Workers, ClearCommit(w), EndStatesLost(r) # {}
        PROVE  /\ WroteStale(w, r)
               /\ \A v \in Workers : seen'[v] # seen[v] => v = w
    <2>1. rows'[r] # rows[r]
      BY <1>2 DEF EndStatesLost
    <2>2. seen[w][r] # None /\ rows'[r] = ClearedRow(seen[w][r], plan[w])
      BY <1>2, <1>r, <2>1 DEF ClearCommit
    <2>3. seen[w][r] \in Row
      BY <2>2, <1>s, <1>r DEF TypeOK
    <2>4. seen[w][r].marks \subseteq rows'[r].marks
      BY <2>2, <2>3 DEF ClearedRow, Row
    <2>5. seen[w][r] # rows[r]
      BY <1>2, <2>4 DEF EndStatesLost
    <2>6. seen' = [seen EXCEPT ![w] = NothingSeen]
      BY <1>2 DEF ClearCommit, Enter
    <2>7. QED BY <2>2, <2>5, <2>6, <1>e DEF WroteStale
  <1>3. ASSUME NEW u \in Users, CommitRequest(u), "resolved" \in EndStatesLost(r)
        PROVE  WroteStale(u, r)
    <2> DEFINE q == request[u].row
    <2>1. q \in Rows /\ request[u].op \in RowOps \cup ContactOps
      BY <1>3 DEF CommitRequest, TypeOK, Request
    <2>2. rows' = [rows EXCEPT ![q] = Apply(request[u].op, seen[u][q])]
      <3>1. rows' \in {[rows EXCEPT ![q] = Apply(request[u].op, seen[u][q])], rows}
        BY <1>3 DEF CommitRequest
      <3>2. rows' # rows
        BY <1>3 DEF EndStatesLost
      <3>3. QED BY <3>1, <3>2
    <2>3. r = q
      BY <1>3, <1>r, <2>1, <2>2 DEF EndStatesLost, TypeOK
    <2>4. seen[u][r] \in Row /\ seen[u][r] # None
      BY <1>3, <1>s, <2>1, <2>3 DEF CommitRequest, TypeOK, SessionsAgree
    <2>5. rows'[r] = Apply(request[u].op, seen[u][r])
      BY <1>r, <2>2, <2>3 DEF TypeOK
    <2>6. "resolved" \notin seen[u][r].marks
      BY <1>3, <2>1, <2>4, <2>5 DEF EndStatesLost, Apply, RowOps, ContactOps, HideMarks, Row
    <2>7. seen[u][r] # rows[r]
      BY <1>3, <2>6 DEF EndStatesLost
    <2>8. seen'[u] # seen[u]
      BY <1>3, <1>r, <1>s, <2>4 DEF CommitRequest, EndRequest, TypeOK, NothingSeen
    <2>9. QED BY <2>4, <2>7, <2>8 DEF WroteStale
  <1>4. ASSUME NEW op \in BulkOps, NEW chosen \in SUBSET Used, Bulk(op, chosen)
        PROVE  "resolved" \notin EndStatesLost(r) /\ \A w \in Workers : seen'[w] = seen[w]
    <2>1. rows'[r] = IF r \in chosen THEN Apply(op, rows[r]) ELSE rows[r]
      BY <1>4, <1>r DEF Bulk
    <2>2. QED BY <1>4, <1>r, <2>1 DEF Bulk, EndStatesLost, Apply, BulkOps, RowOps, HideMarks, Row
  <1>5. ASSUME NEW u \in Users, InsertDismissed(u)
        PROVE  EndStatesLost(r) = {}
    BY <1>5, <1>r DEF InsertDismissed, Free, EndStatesLost, TypeOK
  <1>6. CASE UNCHANGED rows
    BY <1>6 DEF EndStatesLost
  <1>7. \A u \in Users : CommitRequest(u) => EndRequest(u)
    BY DEF CommitRequest
  <1>8. CASE \E w \in Workers : PersistCommit(w) \/ ClearCommit(w)
    BY <1>8, <1>1, <1>2, <1>s DEF EndStatesLost
  <1>9. CASE \E u \in Users : CommitRequest(u)
    BY <1>9, <1>3, <1>7, <1>s, <1>u
  <1>10. QED
    BY <1>4, <1>5, <1>6, <1>8, <1>9
    DEF Next, vars, Evaluate, SelectDocument, SelectStale, AuditFails, BeginRequest,
        BeginContactRequest, AbandonRequest

(* No audit overwrites a decision it has seen and nothing un-resolves a    *)
(* row: a decision can only be lost to a session that wrote back a copy    *)
(* older than the decision.                                                *)
THEOREM DecisionTheorem == Spec => OnlyStaleCopiesLoseDecisions
  <1>1. TypeOK /\ SessionsAgree /\ [Next]_vars =>
          [\A r \in Used :
             /\ "resolved" \in EndStatesLost(r) => \E p \in Sessions : WroteStale(p, r)
             /\ \A w \in Workers :
                  seen'[w] # seen[w] /\ EndStatesLost(r) # {} => WroteStale(w, r)]_vars
    BY NextLosesOnlyStale
  <1>2. QED BY <1>1, TypeCorrect, PTL DEF Spec, OnlyStaleCopiesLoseDecisions

-----------------------------------------------------------------------------
(* A run clears only what it fetched.                                      *)

\* What an audit is about to clear, or has loaded to clear, is among what it
\* evaluated and does not flag.
ClearsAreStale ==
  \A w \in Workers : stage[w] \in ClearStages =>
    /\ todo[w] \subseteq Stale(plan[w])
    /\ \A r \in Rows : seen[w][r] # None => seen[w][r].doc \in Stale(plan[w])

ClearInv == TypeOK /\ SessionsAgree /\ ClearsAreStale

\* Workers whose variables a step leaves alone keep what they have.
LEMMA OthersStayStale ==
  ASSUME ClearInv, NEW w \in Workers,
         stage'[w] = stage[w], todo'[w] = todo[w], plan'[w] = plan[w], seen'[w] = seen[w],
         stage'[w] \in ClearStages
  PROVE  /\ todo'[w] \subseteq Stale(plan'[w])
         /\ \A r \in Rows : seen'[w][r] # None => seen'[w][r].doc \in Stale(plan'[w])
  BY DEF ClearInv, ClearsAreStale

LEMMA EnterStaysStale ==
  ASSUME ClearInv, NEW w \in Workers, NEW s \in Stages, NEW p \in Plan, Enter(w, s, p)
  PROVE  ClearsAreStale'
  <1> SUFFICES ASSUME NEW v \in Workers, stage'[v] \in ClearStages
               PROVE  /\ todo'[v] \subseteq Stale(plan'[v])
                      /\ \A r \in Rows : seen'[v][r] # None => seen'[v][r].doc \in Stale(plan'[v])
    BY DEF ClearsAreStale
  <1>s. w \in Sessions /\ v \in Sessions
    BY DEF Sessions
  <1>1. CASE v = w
    <2>1. stage'[w] = s /\ todo'[w] = Work(p, s) /\ seen'[w] = NothingSeen
      BY <1>s DEF Enter, ClearInv, TypeOK
    <2>2. s \in ClearStages /\ s # "idle"
      BY <1>1, <2>1 DEF ClearStages
    <2>3. plan'[w] = p
      BY <2>2 DEF Enter, ClearInv, TypeOK
    <2>4. Work(p, s) \subseteq Stale(p)
      BY <2>2 DEF Work, ClearStages, PersistStages
    <2>5. QED BY <1>1, <2>1, <2>3, <2>4 DEF NothingSeen
  <1>2. CASE v # w
    <2>1. stage'[v] = stage[v] /\ todo'[v] = todo[v] /\ plan'[v] = plan[v] /\ seen'[v] = seen[v]
      BY <1>2, <1>s DEF Enter, ClearInv, TypeOK
    <2>2. QED BY <2>1, OthersStayStale
  <1>3. QED BY <1>1, <1>2

LEMMA NextStaysStale == ClearInv /\ [Next]_vars => ClearsAreStale'
  <1> SUFFICES ASSUME ClearInv, [Next]_vars PROVE ClearsAreStale'
    OBVIOUS
  <1>t. TypeOK /\ SessionsAgree
    BY DEF ClearInv
  <1>s. Users \subseteq Sessions /\ Workers \subseteq Sessions /\ Workers \cap Users = {}
    BY ProcessAssumption DEF Sessions
  <1>1. ASSUME UNCHANGED auditVars, \A w \in Workers : seen'[w] = seen[w]
        PROVE  ClearsAreStale'
    BY <1>1, OthersStayStale DEF ClearsAreStale, auditVars
  <1>2. ASSUME NEW w \in Workers, Evaluate(w)
        PROVE  ClearsAreStale'
    <2>1. PICK p \in Outcomes : Enter(w, "transaction", p)
      BY <1>2 DEF Evaluate
    <2>2. todo'[w] \subseteq Docs /\ stage'[w] = "transaction"
      BY <2>1, <1>t DEF Enter, TypeOK, Work, PersistStages, Flagged
    <2> SUFFICES ASSUME NEW v \in Workers, stage'[v] \in ClearStages
                 PROVE  /\ todo'[v] \subseteq Stale(plan'[v])
                        /\ \A r \in Rows : seen'[v][r] # None => seen'[v][r].doc \in Stale(plan'[v])
      BY DEF ClearsAreStale
    <2>3. v # w
      BY <2>2 DEF ClearStages
    <2>4. stage'[v] = stage[v] /\ todo'[v] = todo[v] /\ plan'[v] = plan[v] /\ seen'[v] = seen[v]
      BY <2>1, <2>3, <1>s, <1>t DEF Enter, TypeOK
    <2>5. QED BY <2>4, OthersStayStale
  <1>3. ASSUME NEW w \in Workers, PersistCommit(w) \/ ClearCommit(w)
        PROVE  ClearsAreStale'
    <2>1. stage[w] \in PersistStages \cup ClearStages /\ plan[w] \in Plan
      BY <1>3, <1>t DEF PersistCommit, ClearCommit, TypeOK
    <2>2. NextStage[stage[w]] \in Stages
      BY <2>1, NextStageType
    <2>3. Enter(w, NextStage[stage[w]], plan[w])
      BY <1>3 DEF PersistCommit, ClearCommit
    <2>4. QED BY <2>1, <2>2, <2>3, EnterStaysStale
  <1>4. ASSUME NEW w \in Workers, AuditFails(w)
        PROVE  ClearsAreStale'
    BY <1>4, NoPlanType, EnterStaysStale DEF AuditFails, Stages
  <1>5. ASSUME NEW w \in Workers, NEW d \in Docs, SelectDocument(w, d)
        PROVE  ClearsAreStale'
    <2> SUFFICES ASSUME NEW v \in Workers, stage'[v] \in ClearStages
                 PROVE  /\ todo'[v] \subseteq Stale(plan'[v])
                        /\ \A r \in Rows : seen'[v][r] # None => seen'[v][r].doc \in Stale(plan'[v])
      BY DEF ClearsAreStale
    <2>1. v # w /\ stage'[v] = stage[v] /\ plan'[v] = plan[v]
      BY <1>5 DEF SelectDocument, PersistStages, ClearStages
    <2>2. todo'[v] = todo[v] /\ seen'[v] = seen[v]
      BY <1>5, <1>s, <1>t, <2>1 DEF SelectDocument, TypeOK
    <2>3. QED BY <2>1, <2>2, OthersStayStale
  <1>6. ASSUME NEW w \in Workers, SelectStale(w)
        PROVE  ClearsAreStale'
    <2> SUFFICES ASSUME NEW v \in Workers, stage'[v] \in ClearStages
                 PROVE  /\ todo'[v] \subseteq Stale(plan'[v])
                        /\ \A r \in Rows : seen'[v][r] # None => seen'[v][r].doc \in Stale(plan'[v])
      BY DEF ClearsAreStale
    <2>1. stage' = stage /\ plan' = plan
      BY <1>6 DEF SelectStale
    <2>2. CASE v = w
      <3>1. todo'[w] = {}
        BY <1>6, <1>t DEF SelectStale, TypeOK
      <3>2. \A r \in Rows : seen'[w][r] # None => seen'[w][r] = rows[r] /\ rows[r].doc \in todo[w]
        BY <1>6, <1>s, <1>t DEF SelectStale, TypeOK
      <3>3. todo[w] \subseteq Stale(plan[w])
        BY <2>1, <2>2 DEF ClearInv, ClearsAreStale
      <3>4. QED BY <2>1, <2>2, <3>1, <3>2, <3>3
    <2>3. CASE v # w
      <3>1. todo'[v] = todo[v] /\ seen'[v] = seen[v]
        BY <1>6, <1>s, <1>t, <2>3 DEF SelectStale, TypeOK
      <3>2. QED BY <2>1, <3>1, OthersStayStale
    <2>4. QED BY <2>2, <2>3
  <1>7. ASSUME NEW u \in Users,
               UNCHANGED auditVars,
               seen' = seen \/ \E f : seen' = [seen EXCEPT ![u] = f]
        PROVE  ClearsAreStale'
    <2>1. \A w \in Workers : seen'[w] = seen[w]
      BY <1>7, <1>s, <1>t DEF TypeOK
    <2>2. QED BY <1>7, <2>1, <1>1
  <1>8. ASSUME NEW u \in Users, CommitRequest(u) \/ InsertDismissed(u) \/ AbandonRequest(u)
        PROVE  ClearsAreStale'
    BY <1>8, <1>7 DEF CommitRequest, InsertDismissed, AbandonRequest, EndRequest
  <1>9. ASSUME NEW u \in Users, NEW op, NEW r, BeginRequest(u, op, r)
        PROVE  ClearsAreStale'
    BY <1>9, <1>7 DEF BeginRequest
  <1>10. ASSUME NEW u \in Users, NEW op, NEW d, BeginContactRequest(u, op, d)
         PROVE  ClearsAreStale'
    BY <1>10, <1>7 DEF BeginContactRequest
  <1>11. ASSUME NEW op, NEW chosen, Bulk(op, chosen)
         PROVE  ClearsAreStale'
    BY <1>11, <1>1 DEF Bulk
  <1>12. CASE UNCHANGED vars
    BY <1>12, <1>1 DEF vars, auditVars
  <1>13. QED
    BY <1>2, <1>3, <1>4, <1>5, <1>6, <1>8, <1>9, <1>10, <1>11, <1>12 DEF Next

\* The step of a run that stamps a row is its ClearCommit, and the row is one
\* it loaded.
LEMMA ClearsLoaded ==
  ASSUME ClearInv, [Next]_vars, NEW w \in Workers, NEW r \in Used, stage'[w] # stage[w], Clears(r)
  PROVE  stage[w] \in ClearStages /\ seen[w][r] # None
  <1>t. TypeOK /\ SessionsAgree
    BY DEF ClearInv
  <1>r. r \in Rows /\ rows[r] \in Row /\ rows[r] # None /\ rows'[r] # rows[r]
    BY <1>t DEF Used, TypeOK, Clears
  <1>1. ASSUME NEW v \in Workers, NEW s, NEW p, Enter(v, s, p)
        PROVE  v = w
    BY <1>1, <1>t DEF Enter, TypeOK
  <1>2. ASSUME NEW v \in Workers, PersistCommit(v)
        PROVE  FALSE
    <2>1. /\ plan[v] \in Plan /\ missing[v] \subseteq Docs
          /\ seen[v][r] # None => seen[v][r] \in Row
      BY <1>t, <1>r DEF TypeOK, Sessions
    <2>2. \/ \E d \in missing[v], key \in [missing[v] -> Free] : key[d] = r
          \/ seen[v][r] # None /\ rows'[r] = Rescore(seen[v][r], plan[v])
      BY <1>2, <1>r, <1>t, PersistCommitRows
    <2>3. r \notin Free
      BY <1>r DEF Free
    <2>4. rows'[r] = Rescore(seen[v][r], plan[v]) /\ seen[v][r] \in Row
      BY <2>1, <2>2, <2>3
    <2>5. rows'[r].marks = {}
      BY <2>4 DEF Rescore, Row
    <2>6. QED BY <2>5 DEF Clears
  <1>3. ASSUME NEW v \in Workers, ClearCommit(v)
        PROVE  stage[w] \in ClearStages /\ seen[w][r] # None
    <2>1. v = w
      BY <1>1, <1>3 DEF ClearCommit
    <2>2. QED BY <1>3, <1>r, <2>1 DEF ClearCommit
  <1>4. CASE rows' = rows
    BY <1>4, <1>r
  <1>5. CASE stage' = stage
    BY <1>5
  <1>6. QED
    BY <1>2, <1>3, <1>4, <1>5
    DEF Next, vars, auditVars, Evaluate, SelectDocument, SelectStale, AuditFails, BeginRequest,
        BeginContactRequest, CommitRequest, InsertDismissed, AbandonRequest, Bulk

(* A run hides a row only if it fetched the document and did not flag it:  *)
(* what a period filter or a partial listing left out keeps its rows       *)
(* (_auto_clear_stale), whatever other sessions do between its statements. *)
THEOREM ClearsTheorem == Spec => ClearsOnlyWhatItFetched
  <1>1. Init => ClearInv
    BY InitTypeOK DEF Init, ClearInv, ClearsAreStale, ClearStages
  <1>2. ClearInv /\ [Next]_vars => ClearInv'
    BY NextTypeOK, NextSessionsAgree, NextStaysStale, RowsKeepDocs DEF ClearInv
  <1>3. ASSUME ClearInv, [Next]_vars, NEW w \in Workers, NEW r \in Used,
               stage'[w] # stage[w], Clears(r)
        PROVE  /\ plan[w].found[rows[r].doc] = {}
               /\ rows[r].doc \in plan[w].evaluated
    <2>1. stage[w] \in ClearStages /\ seen[w][r] # None /\ r \in Rows
      BY <1>3, ClearsLoaded DEF Used
    <2>2. rows[r].doc = seen[w][r].doc
      BY <1>3, <2>1 DEF ClearInv, SessionsAgree, Sessions
    <2>3. rows[r].doc \in Stale(plan[w])
      BY <1>3, <2>1, <2>2 DEF ClearInv, ClearsAreStale
    <2>4. plan[w].evaluated \subseteq Docs
      BY <1>3 DEF ClearInv, TypeOK, Plan
    <2>5. QED BY <2>3, <2>4 DEF Stale, Flagged
  <1>4. ClearInv /\ [Next]_vars =>
          [\A w \in Workers, r \in Used :
             stage'[w] # stage[w] /\ Clears(r) =>
               /\ plan[w].found[rows[r].doc] = {}
               /\ rows[r].doc \in plan[w].evaluated]_vars
    BY <1>3
  <1>5. QED BY <1>1, <1>2, <1>4, PTL DEF Spec, ClearsOnlyWhatItFetched
-----------------------------------------------------------------------------
(* A run and everybody else.                                               *)

Mine(w) == <<stage[w], plan[w], todo[w], missing[w], seen[w]>>

\* The steps of the run of w itself.
Own(w) ==
  \/ Evaluate(w)
  \/ \E d \in Docs : SelectDocument(w, d)
  \/ PersistCommit(w)
  \/ SelectStale(w)
  \/ ClearCommit(w)
  \/ AuditFails(w)

\* All the others leave what the run holds alone and report the rows they change.
Elsewhere(w) ==
  /\ UNCHANGED Mine(w)
  /\ stage[w] # "idle" =>
       /\ touched[w] \subseteq touched'[w]
       /\ \A r \in Rows : rows'[r] # rows[r] => r \in touched'[w]

\* What entering a stage leaves.
LEMMA EnterEffect ==
  ASSUME TypeOK, NEW w \in Workers, NEW s, NEW p, Enter(w, s, p)
  PROVE  /\ stage'[w] = s /\ plan'[w] = (IF s = "idle" THEN NoPlan ELSE p)
         /\ todo'[w] = Work(p, s) /\ missing'[w] = {} /\ seen'[w] = NothingSeen
         /\ \A v \in Workers : v # w => UNCHANGED Mine(v)
         /\ \A q \in Sessions : q # w => seen'[q] = seen[q]
  BY DEF Enter, TypeOK, Sessions, Mine

LEMMA CommitEffect ==
  ASSUME TypeOK, NEW p, Commit(p), NEW w \in Workers
  PROVE  /\ touched'[w] = IF stage'[w] = "idle" THEN {} ELSE IF w = p THEN touched[w]
                          ELSE touched[w] \cup {r \in Rows : rows'[r] # rows[r]}
         /\ w # p /\ stage'[w] # "idle" =>
              /\ touched[w] \subseteq touched'[w]
              /\ \A r \in Rows : rows'[r] # rows[r] => r \in touched'[w]
  BY DEF Commit

\* Every step is a run's own or happens elsewhere.
LEMMA FrameStep ==
  ASSUME TypeOK, [Next]_vars, NEW w \in Workers
  PROVE  Own(w) \/ Elsewhere(w)
  <1>s. Users \subseteq Sessions /\ Workers \subseteq Sessions /\ Workers \cap Users = {}
    BY ProcessAssumption DEF Sessions
  <1>1. ASSUME UNCHANGED Mine(w), UNCHANGED <<rows, touched>> PROVE Elsewhere(w)
    BY <1>1 DEF Elsewhere
  <1>2. ASSUME UNCHANGED Mine(w), NEW p, p # w, Commit(p) PROVE Elsewhere(w)
    BY <1>2, CommitEffect DEF Elsewhere, Mine
  <1>3. ASSUME NEW v \in Workers, v # w, Own(v) PROVE Elsewhere(w)
    <2>1. UNCHANGED Mine(w)
      <3>1. CASE \E s, p : Enter(v, s, p)
        BY <1>3, <3>1, EnterEffect
      <3>2. CASE (\E d \in Docs : SelectDocument(v, d)) \/ SelectStale(v)
        BY <1>3, <1>s, <3>2 DEF SelectDocument, SelectStale, Mine, TypeOK
      <3>3. QED BY <1>3, <3>1, <3>2 DEF Own, Evaluate, PersistCommit, ClearCommit, AuditFails
    <2>2. CASE PersistCommit(v) \/ ClearCommit(v)
      BY <1>2, <1>3, <2>1, <2>2 DEF PersistCommit, ClearCommit
    <2>3. CASE ~ (PersistCommit(v) \/ ClearCommit(v))
      <3>1. rows' = rows /\ touched'[w] = touched[w]
        BY <1>3, <2>3 DEF Own, Evaluate, SelectDocument, SelectStale, AuditFails, TypeOK
      <3>2. QED BY <2>1, <3>1 DEF Elsewhere
    <2>4. QED BY <2>2, <2>3
  <1>4. ASSUME NEW u \in Users, UNCHANGED auditVars, seen' = seen \/ \E f : seen' = [seen EXCEPT ![u] = f]
        PROVE  UNCHANGED Mine(w) /\ u # w
    BY <1>4, <1>s DEF auditVars, Mine, TypeOK
  <1>5. ASSUME NEW u \in Users, CommitRequest(u) \/ InsertDismissed(u)
        PROVE  Elsewhere(w)
    BY <1>2, <1>4, <1>5 DEF CommitRequest, InsertDismissed, EndRequest
  <1>6. ASSUME NEW u \in Users,
               \/ AbandonRequest(u)
               \/ \E op \in RowOps, r \in Rows : BeginRequest(u, op, r)
               \/ \E op \in ContactOps, d \in Docs : BeginContactRequest(u, op, d)
        PROVE  Elsewhere(w)
    BY <1>1, <1>4, <1>6 DEF AbandonRequest, BeginRequest, BeginContactRequest, EndRequest
  <1>7. ASSUME NEW op \in BulkOps, NEW chosen \in SUBSET Used, Bulk(op, chosen)
        PROVE  Elsewhere(w)
    <2>1. UNCHANGED Mine(w) /\ Commit(None)
      BY <1>7 DEF Bulk, Mine, auditVars
    <2>2. None # w
      BY NoneAssumption
    <2>3. QED BY <1>2, <2>1, <2>2
  <1>8. CASE UNCHANGED vars
    BY <1>1, <1>8 DEF vars, auditVars, Mine
  <1>9. QED BY <1>3, <1>5, <1>6, <1>7, <1>8 DEF Next, Own
-----------------------------------------------------------------------------
(* A second row takes an overlap.                                          *)

\* What the SELECT of a run missed, somebody else wrote after it.
MissingIsNew(w) ==
  missing[w] # {} =>
    stage[w] # "idle" /\ \A d \in missing[w] : RowsFor(d) \subseteq touched[w]

MissingInv == TypeOK /\ SessionsAgree /\ \A w \in Workers : MissingIsNew(w)

LEMMA NextMissing == MissingInv /\ [Next]_vars => MissingInv'
  <1> SUFFICES ASSUME MissingInv, [Next]_vars PROVE MissingInv'
    OBVIOUS
  <1>1. TypeOK /\ SessionsAgree /\ KeepsDocs /\ TypeOK' /\ SessionsAgree'
    BY RowsKeepDocs, NextTypeOK, NextSessionsAgree DEF MissingInv
  <1> SUFFICES ASSUME NEW w \in Workers PROVE MissingIsNew(w)'
    BY <1>1 DEF MissingInv
  <1>2. MissingIsNew(w)
    BY DEF MissingInv
  <1>3. CASE Elsewhere(w)
    <2>1. ASSUME NEW d \in missing[w], NEW r \in RowsFor(d)'
          PROVE  r \in touched'[w]
      <3>1. r \in Rows /\ rows'[r] # None /\ rows'[r].doc = d
        BY DEF RowsFor, Used
      <3>2. CASE rows'[r] = rows[r]
        BY <1>2, <1>3, <3>1, <3>2 DEF MissingIsNew, Elsewhere, RowsFor, Used
      <3>3. CASE rows'[r] # rows[r]
        BY <1>2, <1>3, <3>1, <3>3 DEF MissingIsNew, Elsewhere
      <3>4. QED BY <3>2, <3>3
    <2>2. UNCHANGED <<missing[w], stage[w]>>
      BY <1>3 DEF Elsewhere, Mine
    <2>3. QED BY <1>2, <2>1, <2>2 DEF MissingIsNew
  <1>4. CASE \E s, p : Enter(w, s, p)
    BY <1>1, <1>4, EnterEffect DEF MissingIsNew
  <1>5. ASSUME NEW d \in Docs, SelectDocument(w, d)
        PROVE  MissingIsNew(w)'
    <2>1. UNCHANGED <<rows, stage, touched>> /\ stage[w] # "idle"
      BY <1>5 DEF SelectDocument, PersistStages
    <2>2. CASE Candidates(d) = {} /\ missing' = [missing EXCEPT ![w] = @ \cup {d}]
      <3>1. \A e \in missing'[w] : e \in missing[w] \/ e = d
        BY <1>1, <2>2 DEF TypeOK
      <3>2. RowsFor(d) = {}
        BY <2>2 DEF Candidates
      <3>3. \A e \in missing'[w] : RowsFor(e) \subseteq touched[w]
        BY <1>2, <3>1, <3>2 DEF MissingIsNew
      <3>4. QED BY <2>1, <3>3 DEF MissingIsNew, RowsFor, Used
    <2>3. CASE missing' = missing
      BY <1>2, <2>1, <2>3 DEF MissingIsNew, RowsFor, Used
    <2>4. QED BY <1>5, <2>2, <2>3 DEF SelectDocument
  <1>6. CASE SelectStale(w)
    BY <1>2, <1>6 DEF SelectStale, MissingIsNew, RowsFor, Used
  <1>7. QED BY <1>1, <1>3, <1>4, <1>5, <1>6, FrameStep
            DEF Own, Evaluate, PersistCommit, ClearCommit, AuditFails

\* The box of SecondRowNeedsOverlap, for one run and one document.
NeedsOverlap(w, d) ==
  stage'[w] # stage[w] /\ NewRowsFor(d) # {} => RowsFor(d) \subseteq touched[w]

LEMMA OverlapStep ==
  ASSUME MissingInv, [Next]_vars, NEW w \in Workers, NEW d \in Docs
  PROVE  NeedsOverlap(w, d)
  <1> SUFFICES ASSUME stage'[w] # stage[w], NEW r \in NewRowsFor(d)
               PROVE  RowsFor(d) \subseteq touched[w]
    BY DEF NeedsOverlap
  <1>1. TypeOK /\ SessionsAgree /\ MissingIsNew(w)
    BY DEF MissingInv
  <1>2. r \in Rows /\ rows[r] = None /\ rows'[r] # None /\ rows'[r].doc = d
    BY DEF NewRowsFor, Free
  <1>3. Own(w)
    BY <1>1, FrameStep DEF Elsewhere, Mine
  <1>4. ~ ClearCommit(w)
    BY <1>1, <1>2 DEF ClearCommit, SessionsAgree, Sessions
  <1>5. PersistCommit(w)
    BY <1>2, <1>3, <1>4 DEF Own, Evaluate, SelectDocument, SelectStale, AuditFails
  <1>6. PICK key \in [missing[w] -> Free] :
          /\ \A e, f \in missing[w] : key[e] = key[f] => e = f
          /\ \A x \in Rows :
               \/ \E e \in missing[w] : key[e] = x /\ rows'[x] = NewRow(e, plan[w])
               \/ /\ seen[w][x] # None
                  /\ rows'[x] = Rescore(seen[w][x], plan[w])
               \/ rows'[x] = rows[x]
    BY <1>1, <1>5, PersistCommitRows
  <1>7. seen[w][r] = None
    BY <1>1, <1>2 DEF SessionsAgree, Sessions
  <1>8. \E e \in missing[w] : rows'[r] = NewRow(e, plan[w])
    BY <1>2, <1>6, <1>7
  <1>9. d \in missing[w]
    BY <1>1, <1>2, <1>8, NewRowType DEF TypeOK
  <1>10. QED BY <1>1, <1>9 DEF MissingIsNew

Overlaps == \A w \in Workers, d \in Docs : NeedsOverlap(w, d)

(***************************************************************************)
(* However many audits of a company run at the same time, one of them      *)
(* gives a document a second row only if all the rows it has were written  *)
(* by others while that audit ran: one audit after the other never does.   *)
(***************************************************************************)
THEOREM OverlapTheorem == Spec => SecondRowNeedsOverlap
  <1>1. Init => MissingInv
    BY InitTypeOK DEF Init, MissingInv, MissingIsNew
  <1>2. Spec => []MissingInv
    BY <1>1, NextMissing, PTL DEF Spec
  <1>3. MissingInv /\ [Next]_vars => [Overlaps]_vars
    BY OverlapStep DEF Overlaps
  <1>4. Spec => [][Overlaps]_vars
    BY <1>2, <1>3, PTL DEF Spec
  <1>5. QED BY <1>4 DEF SecondRowNeedsOverlap, Overlaps, NeedsOverlap

-----------------------------------------------------------------------------
(* A duplicates run keeps what it did not evaluate.                        *)

\* A duplicates run finds nothing but duplicates.
FindsDuplicates(w) ==
  plan[w].scope = "duplicates" => \A d \in Docs : plan[w].found[d] \subseteq DupIssues

ScopeInv == TypeOK /\ SessionsAgree /\ \A w \in Workers : FindsDuplicates(w)

LEMMA NextScope == ScopeInv /\ [Next]_vars => ScopeInv'
  <1> SUFFICES ASSUME ScopeInv, [Next]_vars PROVE ScopeInv'
    OBVIOUS
  <1>1. TypeOK /\ SessionsAgree /\ TypeOK' /\ SessionsAgree'
    BY NextTypeOK, NextSessionsAgree DEF ScopeInv
  <1>2. ASSUME NEW w \in Workers PROVE FindsDuplicates(w)'
    <2>1. ASSUME plan'[w] = plan[w] PROVE FindsDuplicates(w)'
      BY <2>1 DEF ScopeInv, FindsDuplicates
    <2>2. ASSUME plan'[w] = NoPlan PROVE FindsDuplicates(w)'
      BY <2>2 DEF NoPlan, FindsDuplicates
    <2>3. CASE Elsewhere(w)
      BY <2>1, <2>3 DEF Elsewhere, Mine
    <2>4. CASE Evaluate(w)
      <3>1. PICK p \in Outcomes : Enter(w, "transaction", p)
        BY <2>4 DEF Evaluate
      <3>2. plan'[w] = p
        BY <1>1, <3>1, EnterEffect
      <3>3. p.scope = "duplicates" => \A d \in Docs : p.found[d] \subseteq DupIssues
        BY DEF Outcomes
      <3>4. QED BY <3>2, <3>3 DEF FindsDuplicates
    <2>5. CASE PersistCommit(w) \/ ClearCommit(w) \/ AuditFails(w)
      BY <1>1, <2>1, <2>2, <2>5, EnterEffect DEF PersistCommit, ClearCommit, AuditFails
    <2>6. CASE SelectStale(w) \/ \E d \in Docs : SelectDocument(w, d)
      BY <2>1, <2>6 DEF SelectStale, SelectDocument
    <2>7. QED BY <1>1, <2>3, <2>4, <2>5, <2>6, FrameStep DEF Own
  <1>3. QED BY <1>1, <1>2 DEF ScopeInv

KeepsOthers(w, r) ==
  /\ rows'[r].flagged \ DupIssues = rows[r].flagged \ DupIssues
  /\ Clears(r) => rows[r].flagged \subseteq DupIssues

\* On a row it holds as it is, a duplicates run only touches duplicate flags.
LEMMA ScopedStep ==
  ASSUME ScopeInv, [Next]_vars, NEW w \in Workers, NEW r \in Used,
         stage'[w] # stage[w], plan[w].scope = "duplicates", seen[w][r] = rows[r]
  PROVE  KeepsOthers(w, r)
  <1>1. TypeOK /\ r \in Rows /\ rows[r] \in Row /\ rows[r] # None /\ r \notin Free
    BY DEF ScopeInv, Used, Free, TypeOK
  <1>2. plan[w] \in Plan /\ rows[r].doc \in Docs /\ plan[w].found[rows[r].doc] \subseteq DupIssues
    BY <1>1 DEF ScopeInv, FindsDuplicates, TypeOK, Row
  <1>3. CASE rows'[r] = rows[r]
    BY <1>3 DEF KeepsOthers, Clears
  <1>4. CASE PersistCommit(w) /\ rows'[r] # rows[r]
    <2>1. rows'[r] = Rescore(rows[r], plan[w])
      BY <1>1, <1>4, PersistCommitRows
    <2>2. /\ rows'[r].flagged = plan[w].found[rows[r].doc] \cup (rows[r].flagged \ DupIssues)
          /\ rows'[r].marks = {}
      BY <1>1, <2>1 DEF Rescore, Row, Scopes
    <2>3. QED BY <1>2, <2>2 DEF KeepsOthers, Clears
  <1>5. CASE ClearCommit(w) /\ rows'[r] # rows[r]
    <2>1. rows'[r] = ClearedRow(rows[r], plan[w])
      BY <1>1, <1>5 DEF ClearCommit
    <2>2. CASE rows[r].flagged \subseteq DupIssues
      <3>1. rows'[r].flagged = rows[r].flagged
        BY <1>1, <2>1, <2>2 DEF ClearedRow, Row
      <3>2. QED BY <2>2, <3>1 DEF KeepsOthers
    <2>3. CASE ~ (rows[r].flagged \subseteq DupIssues)
      <3>1. rows'[r].flagged = rows[r].flagged \ DupIssues /\ rows'[r].marks = rows[r].marks
        BY <1>1, <2>1, <2>3 DEF ClearedRow, Row
      <3>2. QED BY <3>1 DEF KeepsOthers, Clears
    <2>4. QED BY <2>2, <2>3
  <1>6. Own(w)
    BY <1>1, FrameStep DEF Elsewhere, Mine
  <1>7. QED BY <1>3, <1>4, <1>5, <1>6
            DEF Own, Evaluate, SelectDocument, SelectStale, AuditFails

(***************************************************************************)
(* A duplicates run neither drops nor hides an issue of a type it did not  *)
(* evaluate, on any row that is still as it loaded it (_persist_trapped    *)
(* merges, _reconcile_stale_duplicates strips).                            *)
(***************************************************************************)
THEOREM ScopedTheorem == Spec => ScopedRunKeepsOtherIssues
  <1>1. Init => ScopeInv
    <2> SUFFICES ASSUME Init PROVE ScopeInv
      OBVIOUS
    <2>1. \A w \in Workers : plan[w] = NoPlan
      BY DEF Init
    <2>2. QED BY <2>1, InitTypeOK DEF ScopeInv, FindsDuplicates, NoPlan
  <1>2. ScopeInv /\ [Next]_vars =>
          [\A w \in Workers, r \in Used :
             /\ stage'[w] # stage[w]
             /\ plan[w].scope = "duplicates"
             /\ seen[w][r] = rows[r]
             => /\ rows'[r].flagged \ DupIssues = rows[r].flagged \ DupIssues
                /\ Clears(r) => rows[r].flagged \subseteq DupIssues]_vars
    BY ScopedStep DEF KeepsOthers
  <1>3. QED BY <1>1, <1>2, NextScope, PTL DEF Spec, ScopedRunKeepsOtherIssues
-----------------------------------------------------------------------------
(* The latest run wins.                                                    *)

WorkOf(w) == Work(plan[w], stage[w])

\* The stages after the one that persists documents of kind k.
After(k) == CASE k = "transaction" -> {"contact", "account", "clear_account", "clear"}
              [] k = "contact"     -> {"account", "clear_account", "clear"}
              [] k = "account"     -> {"clear_account", "clear"}

\* The run holds row r as it is, unless another session wrote it.
Current(w, r) == r \in touched[w] \/ seen[w][r] = rows[r]

\* A row of a flagged document is as the run found it, and one of a stale
\* document hidden, unless others wrote it or a user decided it.
Shows(w, d, r) ==
  \/ r \in touched[w]
  \/ Decided(rows[r])
  \/ plan[w].scope = "full" => Visible(rows[r]) /\ rows[r].flagged = plan[w].found[d]
Hides(w, r) == r \in touched[w] \/ Decided(rows[r]) \/ "auto_cleared" \in rows[r].marks

\* What the run holds is of the documents of its stage.
InWork(w) ==
  /\ todo[w] \subseteq WorkOf(w)
  /\ missing[w] \subseteq WorkOf(w)
  /\ \A r \in Rows : seen[w][r] # None => seen[w][r].doc \in WorkOf(w) /\ Current(w, r)

\* Each flagged document of the stage is to be looked up, has no row or one
\* the run holds.
Selected(w) ==
  stage[w] \in PersistStages =>
    \A d \in WorkOf(w) : \/ d \in todo[w] \cup missing[w]
                         \/ \E r \in Rows : seen[w][r] # None /\ seen[w][r].doc = d

\* The rows of the stale documents are to be read, or all held.
Gathered(w) ==
  stage[w] \in ClearStages =>
    \/ todo[w] = WorkOf(w)
    \/ todo[w] = {} /\ \A d \in WorkOf(w) : \A r \in RowsFor(d) : Current(w, r)

\* A flagged document has a row from its stage on, and the only one shows it.
Persisted(w) ==
  \A d \in Flagged(plan[w]) : stage[w] \in After(KindOf[d]) =>
    \E r \in RowsFor(d) : RowsFor(d) # {r} \/ Shows(w, d, r)

\* The stale accounts are hidden when the others are about to be.
AccountsHidden(w) ==
  stage[w] = "clear" /\ plan[w].scope = "full" =>
    \A d \in Stale(plan[w]) \cap OfKind("account") : \A r \in RowsFor(d) : Hides(w, r)

WinInv(w) == InWork(w) /\ Selected(w) /\ Gathered(w) /\ Persisted(w) /\ AccountsHidden(w)

LatestInv == TypeOK /\ SessionsAgree /\ \A w \in Workers : WinInv(w)

\* Documents keep their rows.
LEMMA RowsForGrows ==
  ASSUME KeepsDocs, NEW d \in Docs
  PROVE  /\ RowsFor(d) \subseteq RowsFor(d)'
         /\ \A r \in RowsFor(d)' : rows'[r] = rows[r] => r \in RowsFor(d)
  BY DEF KeepsDocs, RowsFor, Used

\* A row that shows its document does so until another session writes it.
LEMMA StillPersisted ==
  ASSUME TypeOK, KeepsDocs, NEW w \in Workers, NEW d \in Docs,
         UNCHANGED <<plan[w]>>, touched[w] \subseteq touched'[w],
         \A r \in RowsFor(d) : rows'[r] # rows[r] => r \in touched'[w],
         \E r \in RowsFor(d) : RowsFor(d) # {r} \/ Shows(w, d, r)
  PROVE  (\E r \in RowsFor(d) : RowsFor(d) # {r} \/ Shows(w, d, r))'
  <1>1. PICK r \in RowsFor(d) : RowsFor(d) # {r} \/ Shows(w, d, r)
    OBVIOUS
  <1>2. RowsFor(d) \subseteq RowsFor(d)'
    BY RowsForGrows
  <1>3. CASE RowsFor(d) # {r}
    <2>1. RowsFor(d)' # {r}
      BY <1>1, <1>2, <1>3
    <2>2. QED BY <1>1, <1>2, <2>1
  <1>4. CASE Shows(w, d, r)
    <2>1. Shows(w, d, r)'
      BY <1>1, <1>4 DEF Shows
    <2>2. QED BY <1>1, <1>2, <2>1
  <1>5. QED BY <1>1, <1>3, <1>4

\* What others do.
LEMMA WinElsewhere ==
  ASSUME TypeOK, KeepsDocs, NEW w \in Workers, WinInv(w), Elsewhere(w)
  PROVE  WinInv(w)'
  <1>1. UNCHANGED Mine(w) /\ WorkOf(w)' = WorkOf(w)
    BY DEF Elsewhere, Mine, WorkOf
  <1>2. CASE stage[w] = "idle"
    <2>1. WorkOf(w) = {}
      BY <1>2 DEF WorkOf, Work, PersistStages
    <2>2. InWork(w)'
      BY <1>1, <2>1 DEF WinInv, InWork, Mine
    <2>3. /\ "idle" \notin PersistStages /\ "idle" \notin ClearStages
          /\ \A d \in Docs : "idle" \notin After(KindOf[d])
      BY KindAssumption DEF PersistStages, ClearStages, After, Kinds
    <2>4. \A p : Flagged(p) \subseteq Docs
      BY DEF Flagged
    <2>5. QED BY <1>1, <1>2, <2>2, <2>3, <2>4
              DEF WinInv, Selected, Gathered, Persisted, AccountsHidden, Mine
  <1>3. CASE stage[w] # "idle"
    <2>1. /\ touched[w] \subseteq touched'[w]
          /\ \A r \in Rows : rows'[r] # rows[r] => r \in touched'[w]
      BY <1>3 DEF Elsewhere
    <2>2. \A r \in Rows : Current(w, r) => Current(w, r)'
      BY <1>1, <2>1 DEF Current, Mine
    <2>3. \A d \in Docs : RowsFor(d) \subseteq Rows /\ RowsFor(d)' \subseteq Rows
      BY DEF RowsFor, Used
    <2>4. WorkOf(w) \subseteq Docs /\ Flagged(plan[w]) \subseteq Docs /\ Stale(plan[w]) \subseteq Docs
      BY WorkType DEF WorkOf, TypeOK, Flagged, Stale, Plan
    <2>5. InWork(w)'
      BY <1>1, <2>2 DEF WinInv, InWork, Mine
    <2>6. Selected(w)'
      BY <1>1 DEF WinInv, Selected, Mine
    <2>7. Gathered(w)'
      <3> SUFFICES ASSUME stage[w] \in ClearStages, todo[w] # WorkOf(w),
                          NEW d \in WorkOf(w), NEW r \in RowsFor(d)'
                   PROVE  Current(w, r)'
        BY <1>1 DEF WinInv, Gathered, Mine
      <3>1. CASE rows'[r] = rows[r]
        BY <2>2, <2>3, <2>4, <3>1, RowsForGrows DEF WinInv, Gathered
      <3>2. CASE rows'[r] # rows[r]
        BY <2>1, <2>3, <2>4, <3>2 DEF Current
      <3>3. QED BY <3>1, <3>2
    <2>8. Persisted(w)'
      <3> SUFFICES ASSUME NEW d \in Flagged(plan[w]), stage[w] \in After(KindOf[d])
                   PROVE  (\E r \in RowsFor(d) : RowsFor(d) # {r} \/ Shows(w, d, r))'
        BY <1>1 DEF Persisted, Mine
      <3>1. \E r \in RowsFor(d) : RowsFor(d) # {r} \/ Shows(w, d, r)
        BY DEF WinInv, Persisted
      <3>2. QED BY <1>1, <2>1, <2>3, <2>4, <3>1, StillPersisted DEF Mine
    <2>9. AccountsHidden(w)'
      <3> SUFFICES ASSUME stage[w] = "clear", plan[w].scope = "full",
                          NEW d \in Stale(plan[w]) \cap OfKind("account"), NEW r \in RowsFor(d)'
                   PROVE  Hides(w, r)'
        BY <1>1 DEF AccountsHidden, Mine
      <3>1. CASE rows'[r] = rows[r]
        BY <2>1, <2>4, <3>1, RowsForGrows DEF WinInv, AccountsHidden, Hides
      <3>2. CASE rows'[r] # rows[r]
        BY <2>1, <2>3, <2>4, <3>2 DEF Hides
      <3>3. QED BY <3>1, <3>2
    <2>10. QED BY <2>5, <2>6, <2>7, <2>8, <2>9 DEF WinInv
  <1>4. QED BY <1>2, <1>3
\* A stage begins with all its documents to be looked up and nothing held.
LEMMA EnterWin ==
  ASSUME TypeOK, NEW w \in Workers, NEW s \in Stages, NEW p \in Plan, Enter(w, s, p)
  PROVE  InWork(w)' /\ Selected(w)' /\ Gathered(w)'
  <1>1. /\ stage'[w] = s /\ plan'[w] = (IF s = "idle" THEN NoPlan ELSE p)
        /\ todo'[w] = Work(p, s) /\ missing'[w] = {} /\ seen'[w] = NothingSeen
    BY EnterEffect
  <1>2. WorkOf(w)' = todo'[w]
    BY <1>1 DEF WorkOf, Work, PersistStages
  <1>3. QED BY <1>1, <1>2 DEF InWork, Selected, Gathered, NothingSeen

\* Outside a run nothing is owed.
LEMMA IdleWin ==
  ASSUME TypeOK, NEW w \in Workers, NEW p \in Plan, Enter(w, "idle", p)
  PROVE  WinInv(w)'
  <1>1. stage'[w] = "idle"
    BY EnterEffect
  <1>2. \A d \in Docs : "idle" \notin After(KindOf[d])
    BY KindAssumption DEF After, Kinds
  <1>3. Persisted(w)' /\ AccountsHidden(w)'
    BY <1>1, <1>2 DEF Persisted, AccountsHidden, Flagged
  <1>4. QED BY <1>3, EnterWin DEF WinInv, Stages

LEMMA EvaluateWin ==
  ASSUME TypeOK, TypeOK', NEW w \in Workers, Evaluate(w)
  PROVE  WinInv(w)'
  <1>1. PICK p \in Outcomes : Enter(w, "transaction", p)
    BY DEF Evaluate
  <1>2. stage'[w] = "transaction" /\ plan'[w] = p
    BY <1>1, EnterEffect
  <1>3. p \in Plan
    BY <1>2 DEF TypeOK
  <1>4. \A d \in Docs : "transaction" \notin After(KindOf[d])
    BY KindAssumption DEF After, Kinds
  <1>5. Persisted(w)' /\ AccountsHidden(w)'
    BY <1>2, <1>4 DEF Persisted, AccountsHidden, Flagged
  <1>6. QED BY <1>1, <1>3, <1>5, EnterWin DEF WinInv, Stages, PersistStages

\* The look-up of a document finds one of its rows, or none.
LEMMA SelectWin ==
  ASSUME TypeOK, SessionsAgree, NEW w \in Workers, WinInv(w), NEW d \in Docs, SelectDocument(w, d)
  PROVE  WinInv(w)'
  <1>1. w \in Sessions
    BY DEF Sessions
  <1>2. /\ stage[w] \in PersistStages /\ stage[w] \notin ClearStages /\ d \in todo[w]
        /\ todo'[w] = todo[w] \ {d}
        /\ UNCHANGED <<rows, stage, plan, touched>> /\ WorkOf(w)' = WorkOf(w)
    BY DEF SelectDocument, TypeOK, WorkOf, PersistStages, ClearStages
  <1>3. d \in WorkOf(w)
    BY <1>2 DEF WinInv, InWork
  <1>4. CASE missing' = [missing EXCEPT ![w] = @ \cup {d}] /\ seen' = seen
    <2>1. missing'[w] = missing[w] \cup {d} /\ seen'[w] = seen[w]
      BY <1>4 DEF TypeOK
    <2>2. InWork(w)'
      BY <1>2, <1>3, <2>1 DEF WinInv, InWork, Current
    <2>3. Selected(w)'
      BY <1>2, <2>1 DEF WinInv, Selected
    <2>4. QED BY <1>2, <2>2, <2>3 DEF WinInv, Gathered, Persisted, AccountsHidden, Shows, Hides, RowsFor, Used
  <1>5. ASSUME NEW r \in Candidates(d), seen' = [seen EXCEPT ![w][r] = rows[r]], missing' = missing
        PROVE  WinInv(w)'
    <2>1. r \in Rows /\ rows[r] # None /\ rows[r].doc = d
      BY DEF Candidates, RowsFor, Used
    <2>2. seen'[w][r] = rows[r] /\ \A q \in Rows : q # r => seen'[w][q] = seen[w][q]
      BY <1>1, <1>5, <2>1 DEF TypeOK
    <2>3. InWork(w)'
      BY <1>2, <1>3, <1>5, <2>1, <2>2 DEF WinInv, InWork, Current
    <2>4. Selected(w)'
      <3> SUFFICES ASSUME NEW e \in WorkOf(w), e \notin todo'[w] \cup missing'[w]
                   PROVE  \E q \in Rows : seen'[w][q] # None /\ seen'[w][q].doc = e
        BY <1>2 DEF Selected
      <3>1. CASE e = d
        BY <2>1, <2>2, <3>1
      <3>2. CASE e # d
        <4>1. PICK q \in Rows : seen[w][q] # None /\ seen[w][q].doc = e
          BY <1>2, <1>5, <3>2 DEF WinInv, Selected
        <4>2. q # r
          BY <1>1, <2>1, <3>2, <4>1 DEF SessionsAgree
        <4>3. QED BY <2>2, <4>1, <4>2
      <3>3. QED BY <3>1, <3>2
    <2>5. QED BY <1>2, <2>3, <2>4 DEF WinInv, Gathered, Persisted, AccountsHidden, Shows, Hides, RowsFor, Used
  <1>6. QED BY <1>4, <1>5 DEF SelectDocument

\* One SELECT reads every row of the stale documents.
LEMMA GatherWin ==
  ASSUME TypeOK, NEW w \in Workers, WinInv(w), SelectStale(w)
  PROVE  WinInv(w)'
  <1>1. w \in Sessions
    BY DEF Sessions
  <1>2. /\ stage[w] \in ClearStages /\ stage[w] \notin PersistStages /\ todo[w] # {} /\ todo'[w] = {}
        /\ UNCHANGED <<rows, stage, plan, touched, missing>> /\ WorkOf(w)' = WorkOf(w)
        /\ seen'[w] = [r \in Rows |-> IF rows[r] # None /\ rows[r].doc \in todo[w] THEN rows[r] ELSE None]
    BY <1>1 DEF SelectStale, TypeOK, WorkOf, PersistStages, ClearStages
  <1>3. todo[w] = WorkOf(w)
    BY <1>2 DEF WinInv, Gathered
  <1>4. \A d \in WorkOf(w) : \A r \in RowsFor(d) : r \in Rows /\ seen'[w][r] = rows[r]
    BY <1>2, <1>3 DEF RowsFor, Used
  <1>5. InWork(w)'
    BY <1>2, <1>3 DEF WinInv, InWork, Current
  <1>6. Gathered(w)'
    BY <1>2, <1>4 DEF Gathered, Current, RowsFor, Used
  <1>7. QED BY <1>2, <1>5, <1>6 DEF WinInv, Selected, Persisted, AccountsHidden, Shows, Hides, RowsFor, Used
\* What a persist transaction leaves: a row for each missing document, the
\* rows it holds re-scored, and nothing else.
LEMMA PersistCommitIs ==
  ASSUME TypeOK, SessionsAgree, NEW w \in Workers, PersistCommit(w)
  PROVE  /\ \A d \in missing[w] : \E r \in Free : rows'[r] = NewRow(d, plan[w])
         /\ \A r \in Free : rows'[r] # None => \E d \in missing[w] : rows'[r] = NewRow(d, plan[w])
         /\ \A r \in Used : rows'[r] = IF seen[w][r] # None /\ Rescorable(seen[w][r])
                                       THEN Rescore(seen[w][r], plan[w]) ELSE rows[r]
  <1>1. PICK key \in [missing[w] -> Free] :
          /\ \A d, e \in missing[w] : key[d] = key[e] => d = e
          /\ rows' = [r \in Rows |->
               IF \E d \in missing[w] : key[d] = r
                 THEN NewRow(CHOOSE d \in missing[w] : key[d] = r, plan[w])
               ELSE IF seen[w][r] # None /\ Rescorable(seen[w][r])
                 THEN Rescore(seen[w][r], plan[w])
               ELSE rows[r]]
    BY DEF PersistCommit
  <1>2. Free \subseteq Rows /\ Used \subseteq Rows /\ \A r \in Used : r \notin Free
    BY DEF Free, Used
  <1>3. ASSUME NEW d \in missing[w] PROVE \E r \in Free : rows'[r] = NewRow(d, plan[w])
    <2> DEFINE c == CHOOSE e \in missing[w] : key[e] = key[d]
    <2>1. key[d] \in Free
      BY <1>1
    <2>2. c \in missing[w] /\ key[c] = key[d]
      OBVIOUS
    <2>3. c = d
      BY <1>1, <2>2
    <2>4. rows'[key[d]] = NewRow(c, plan[w])
      BY <1>1, <1>2, <2>1
    <2>5. QED BY <2>1, <2>3, <2>4
  <1>4. ASSUME NEW r \in Free, rows'[r] # None PROVE \E d \in missing[w] : rows'[r] = NewRow(d, plan[w])
    <2>1. rows[r] = None /\ r \in Rows
      BY DEF Free
    <2>2. seen[w][r] = None
      BY <2>1 DEF SessionsAgree, Sessions
    <2>3. QED BY <1>4, <2>1, <2>2, PersistCommitRows
  <1>5. ASSUME NEW r \in Used
        PROVE  rows'[r] = IF seen[w][r] # None /\ Rescorable(seen[w][r])
                          THEN Rescore(seen[w][r], plan[w]) ELSE rows[r]
    <2>1. ~ \E d \in missing[w] : key[d] = r
      BY <1>1, <1>2
    <2>2. QED BY <1>1, <1>2, <2>1
  <1>6. QED BY <1>3, <1>4, <1>5

\* The documents of the stage come out as the run found them.
LEMMA PersistShows ==
  ASSUME TypeOK, SessionsAgree, KeepsDocs, NEW w \in Workers, WinInv(w), PersistCommit(w),
         plan'[w] = plan[w], touched'[w] = touched[w],
         NEW d \in WorkOf(w), d \in Docs
  PROVE  \E r \in RowsFor(d)' : Shows(w, d, r)'
  <1>1. stage[w] \in PersistStages /\ todo[w] = {} /\ plan[w] \in Plan /\ None \notin Row
    BY NoneAssumption DEF PersistCommit, TypeOK
  <1>2. CASE d \in missing[w]
    <2>1. PICK r \in Free : rows'[r] = NewRow(d, plan[w])
      BY <1>2, PersistCommitIs
    <2>2. r \in Rows /\ rows'[r] \in Row /\ rows'[r].doc = d
      BY <1>1, <2>1, NewRowType DEF Free
    <2>3. rows'[r].marks = {} /\ rows'[r].flagged = plan[w].found[d]
      BY <2>1 DEF NewRow
    <2>4. r \in RowsFor(d)'
      BY <1>1, <2>2 DEF RowsFor, Used
    <2>5. Shows(w, d, r)'
      BY <2>3 DEF Shows, Visible
    <2>6. QED BY <2>4, <2>5
  <1>3. ASSUME NEW r \in Rows, seen[w][r] # None, seen[w][r].doc = d
        PROVE  \E q \in RowsFor(d)' : Shows(w, d, q)'
    <2>1. rows[r] # None /\ rows[r].doc = d /\ r \in Used /\ seen[w][r] \in Row
      BY <1>3 DEF SessionsAgree, Sessions, Used, TypeOK
    <2>2. r \in RowsFor(d)'
      BY <2>1 DEF KeepsDocs, RowsFor, Used
    <2>3. CASE r \in touched[w]
      BY <2>2, <2>3 DEF Shows
    <2>4. CASE r \notin touched[w]
      <3>1. seen[w][r] = rows[r]
        BY <1>3, <2>4 DEF WinInv, InWork, Current
      <3>2. CASE Rescorable(rows[r])
        <4>1. rows'[r] = Rescore(rows[r], plan[w])
          BY <1>3, <2>1, <3>1, <3>2, PersistCommitIs
        <4>2. /\ rows'[r].marks = {}
              /\ plan[w].scope = "full" => rows'[r].flagged = plan[w].found[d]
          BY <2>1, <3>1, <4>1 DEF Rescore, Row
        <4>3. QED BY <2>2, <4>2 DEF Shows, Visible
      <3>3. CASE ~ Rescorable(rows[r])
        <4>1. rows'[r] = rows[r]
          BY <2>1, <3>1, <3>3, PersistCommitIs
        <4>2. Decided(rows[r])
          BY <3>3 DEF Rescorable, Decided
        <4>3. QED BY <2>2, <4>1, <4>2 DEF Shows
      <3>4. QED BY <3>2, <3>3
    <2>5. QED BY <2>3, <2>4
  <1>4. QED BY <1>1, <1>2, <1>3 DEF WinInv, Selected

\* A commit of the run leaves the rows of other documents alone.
LEMMA CommitKeepsRows ==
  ASSUME TypeOK, SessionsAgree, NEW w \in Workers, WinInv(w), PersistCommit(w) \/ ClearCommit(w),
         NEW d \in Docs, d \notin WorkOf(w)
  PROVE  \A r \in RowsFor(d) \cup RowsFor(d)' : rows'[r] = rows[r]
  <1> SUFFICES ASSUME NEW r \in RowsFor(d) \cup RowsFor(d)' PROVE rows'[r] = rows[r]
    OBVIOUS
  <1>1. /\ r \in Rows /\ w \in Sessions /\ plan[w] \in Plan
        /\ (rows[r] # None /\ rows[r].doc = d) \/ (rows'[r] # None /\ rows'[r].doc = d)
    BY DEF RowsFor, Used, Sessions, TypeOK
  <1>2. CASE r \in Used
    <2>1. CASE seen[w][r] = None
      BY <1>1, <1>2, <2>1, PersistCommitIs DEF ClearCommit
    <2>2. CASE seen[w][r] # None
      <3>1. seen[w][r] \in Row /\ seen[w][r].doc \in WorkOf(w) /\ rows[r].doc = seen[w][r].doc
        BY <1>1, <2>2 DEF WinInv, InWork, SessionsAgree, TypeOK
      <3>2. rows'[r] # rows[r] =>
              rows'[r] \in {Rescore(seen[w][r], plan[w]), ClearedRow(seen[w][r], plan[w])}
        BY <1>1, <1>2, PersistCommitIs DEF ClearCommit
      <3>3. Rescore(seen[w][r], plan[w]).doc # d /\ ClearedRow(seen[w][r], plan[w]).doc # d
        BY <1>1, <3>1, RescoreType, ClearedRowType
      <3>4. QED BY <1>1, <3>1, <3>2, <3>3
    <2>3. QED BY <2>1, <2>2
  <1>3. CASE r \notin Used
    <2>1. rows[r] = None /\ r \in Free /\ seen[w][r] = None /\ rows'[r] # None /\ rows'[r].doc = d
      BY <1>1, <1>3 DEF Used, Free, SessionsAgree
    <2>2. CASE ClearCommit(w)
      BY <1>1, <2>1, <2>2 DEF ClearCommit
    <2>3. CASE PersistCommit(w)
      <3>1. PICK e \in missing[w] : rows'[r] = NewRow(e, plan[w])
        BY <2>1, <2>3, PersistCommitIs
      <3>2. e \in WorkOf(w) /\ e \in Docs
        BY DEF WinInv, InWork, TypeOK
      <3>3. QED BY <1>1, <2>1, <3>1, <3>2, NewRowType
    <2>4. QED BY <2>2, <2>3
  <1>4. QED BY <1>2, <1>3
\* The documents a run has persisted stay so at its later commits.
LEMMA CommitPersisted ==
  ASSUME TypeOK, SessionsAgree, KeepsDocs, NEW w \in Workers, WinInv(w),
         PersistCommit(w) \/ ClearCommit(w),
         plan'[w] = plan[w], touched'[w] = touched[w],
         NEW d \in Flagged(plan[w]), stage[w] \in After(KindOf[d]), d \notin WorkOf(w)
  PROVE  (\E r \in RowsFor(d) : RowsFor(d) # {r} \/ Shows(w, d, r))'
  <1>1. d \in Docs
    BY DEF Flagged
  <1>2. \A r \in RowsFor(d) : rows'[r] = rows[r]
    BY <1>1, CommitKeepsRows
  <1>3. \E r \in RowsFor(d) : RowsFor(d) # {r} \/ Shows(w, d, r)
    BY DEF WinInv, Persisted
  <1>4. QED BY <1>1, <1>2, <1>3, StillPersisted

LEMMA PersistWin ==
  ASSUME TypeOK, SessionsAgree, KeepsDocs, NEW w \in Workers, WinInv(w), PersistCommit(w)
  PROVE  WinInv(w)'
  <1> DEFINE s == NextStage[stage[w]]
  <1>1. stage[w] \in PersistStages /\ plan[w] \in Plan /\ Enter(w, s, plan[w]) /\ Commit(w)
    BY DEF PersistCommit, TypeOK
  <1>2. s \in Stages /\ s # "idle" /\ s # "clear"
    <2>1. s \in {"contact", "account", "clear_account"}
      BY <1>1 DEF NextStage, PersistStages
    <2> HIDE DEF s
    <2>2. QED BY <2>1 DEF Stages, PersistStages, ClearStages
  <1> HIDE DEF s
  <1>3. stage'[w] = s /\ plan'[w] = plan[w] /\ touched'[w] = touched[w]
    <2>1. stage'[w] = s /\ plan'[w] = plan[w]
      BY <1>1, <1>2, EnterEffect
    <2>2. Commit(w) /\ stage'[w] # "idle"
      BY <1>1, <1>2, <2>1
    <2>3. touched'[w] = touched[w]
      BY <2>2 DEF Commit
    <2>4. QED BY <2>1, <2>3
  <1> USE DEF s
  <1>4. WorkOf(w) = Flagged(plan[w]) \cap OfKind(stage[w])
    <2>1. stage[w] \in {"transaction", "contact", "account"}
      BY <1>1 DEF PersistStages
    <2>2. QED BY <2>1 DEF WorkOf, Work, PersistStages
  <1>5. Persisted(w)'
    <2> SUFFICES ASSUME NEW d \in Flagged(plan[w]), s \in After(KindOf[d])
                 PROVE  (\E r \in RowsFor(d) : RowsFor(d) # {r} \/ Shows(w, d, r))'
      BY <1>3 DEF Persisted
    <2>1. d \in Docs /\ KindOf[d] \in Kinds
      BY KindAssumption DEF Flagged
    <2>2. CASE KindOf[d] = stage[w]
      <3>1. d \in WorkOf(w)
        BY <1>4, <2>1, <2>2 DEF OfKind
      <3>2. QED BY <1>3, <2>1, <3>1, PersistShows
    <2>3. CASE KindOf[d] # stage[w]
      <3>1. d \notin WorkOf(w)
        BY <1>4, <2>3 DEF OfKind
      <3>2. stage[w] \in After(KindOf[d])
        BY <1>1, <2>1, <2>3 DEF After, NextStage, PersistStages, Kinds
      <3>3. QED BY <1>3, <3>1, <3>2, CommitPersisted
    <2>4. QED BY <2>2, <2>3
  <1>6. AccountsHidden(w)'
    BY <1>2, <1>3 DEF AccountsHidden
  <1>7. QED BY <1>1, <1>2, <1>5, <1>6, EnterWin DEF WinInv

\* The stale documents of the stage come out hidden.
LEMMA ClearHides ==
  ASSUME TypeOK, SessionsAgree, NEW w \in Workers, WinInv(w), ClearCommit(w),
         plan[w].scope = "full", NEW d \in WorkOf(w), d \in Docs, NEW r \in RowsFor(d)'
  PROVE  \/ r \in touched[w]
         \/ Decided(rows'[r])
         \/ "auto_cleared" \in rows'[r].marks
  <1>1. /\ stage[w] \in ClearStages /\ todo[w] = {} /\ plan[w] \in Plan /\ w \in Sessions
        /\ r \in Rows /\ rows'[r] # None /\ rows'[r].doc = d
        /\ rows' = [q \in Rows |-> IF seen[w][q] # None /\ Clearable(seen[w][q], plan[w])
                                   THEN ClearedRow(seen[w][q], plan[w]) ELSE rows[q]]
    BY DEF ClearCommit, TypeOK, Sessions, RowsFor, Used
  <1>2. rows[r] # None /\ rows[r].doc = d
    <2>1. CASE seen[w][r] = None
      BY <1>1, <2>1
    <2>2. CASE seen[w][r] # None
      <3>1. seen[w][r] \in Row /\ rows[r] # None /\ rows[r].doc = seen[w][r].doc
        BY <1>1, <2>2 DEF TypeOK, SessionsAgree
      <3>2. rows'[r] # rows[r] => rows'[r] = ClearedRow(seen[w][r], plan[w])
        BY <1>1
      <3>3. QED BY <1>1, <3>1, <3>2, ClearedRowType
    <2>3. QED BY <2>1, <2>2
  <1>3. r \in touched[w] \/ seen[w][r] = rows[r]
    BY <1>1, <1>2 DEF WinInv, Gathered, Current, RowsFor, Used
  <1>4. CASE seen[w][r] = rows[r] /\ Clearable(rows[r], plan[w])
    <2>1. rows'[r] = ClearedRow(rows[r], plan[w]) /\ rows[r] \in Row
      BY <1>1, <1>2, <1>4 DEF TypeOK
    <2>2. rows'[r].marks = rows[r].marks \cup {"auto_cleared"}
      BY <2>1 DEF ClearedRow, Row
    <2>3. QED BY <2>2
  <1>5. CASE seen[w][r] = rows[r] /\ ~ Clearable(rows[r], plan[w])
    <2>1. rows'[r] = rows[r]
      BY <1>1, <1>5
    <2>2. rows[r].marks \cap (EndStates \cup {"auto_cleared"}) # {}
      BY <1>5 DEF Clearable
    <2>3. QED BY <2>1, <2>2 DEF Decided
  <1>6. QED BY <1>3, <1>4, <1>5

LEMMA ClearWin ==
  ASSUME TypeOK, SessionsAgree, KeepsDocs, NEW w \in Workers, WinInv(w), ClearCommit(w)
  PROVE  WinInv(w)'
  <1>1. stage[w] \in ClearStages /\ plan[w] \in Plan /\ Enter(w, NextStage[stage[w]], plan[w]) /\ Commit(w)
    BY DEF ClearCommit, TypeOK
  <1>2. CASE stage[w] = "clear"
    BY <1>1, <1>2, IdleWin DEF NextStage
  <1>3. CASE stage[w] = "clear_account"
    <2>1. NextStage[stage[w]] = "clear"
      BY <1>3 DEF NextStage
    <2>2. stage'[w] = "clear" /\ plan'[w] = plan[w] /\ touched'[w] = touched[w]
      <3>1. Enter(w, "clear", plan[w])
        BY <1>1, <2>1
      <3>2. stage'[w] = "clear" /\ plan'[w] = plan[w]
        BY <3>1, EnterEffect
      <3>3. QED BY <1>1, <3>2, CommitEffect
    <2>3. WorkOf(w) = Stale(plan[w]) \cap OfKind("account")
      BY <1>3 DEF WorkOf, Work, PersistStages
    <2>4. Persisted(w)'
      <3> SUFFICES ASSUME NEW d \in Flagged(plan[w])
                   PROVE  (\E r \in RowsFor(d) : RowsFor(d) # {r} \/ Shows(w, d, r))'
        BY <2>2 DEF Persisted
      <3>1. d \in Docs /\ KindOf[d] \in Kinds /\ d \notin WorkOf(w)
        BY <2>3, KindAssumption DEF Flagged, Stale
      <3>2. stage[w] \in After(KindOf[d])
        BY <1>3, <3>1 DEF After, Kinds
      <3>3. QED BY <2>2, <3>1, <3>2, CommitPersisted
    <2>5. AccountsHidden(w)'
      <3> SUFFICES ASSUME plan[w].scope = "full", NEW d \in WorkOf(w), NEW r \in RowsFor(d)'
                   PROVE  Hides(w, r)'
        BY <2>2, <2>3 DEF AccountsHidden
      <3>1. d \in Docs
        BY <2>3 DEF OfKind
      <3>2. QED BY <2>2, <3>1, ClearHides DEF Hides
    <2>6. QED BY <1>1, <2>1, <2>4, <2>5, EnterWin DEF WinInv, Stages, ClearStages
  <1>4. QED BY <1>1, <1>2, <1>3 DEF ClearStages
LEMMA NextWin == LatestInv /\ [Next]_vars => LatestInv'
  <1> SUFFICES ASSUME LatestInv, [Next]_vars PROVE LatestInv'
    OBVIOUS
  <1>1. TypeOK /\ SessionsAgree /\ TypeOK' /\ SessionsAgree' /\ KeepsDocs
    BY NextTypeOK, NextSessionsAgree, RowsKeepDocs DEF LatestInv
  <1>2. ASSUME NEW w \in Workers PROVE WinInv(w)'
    <2>1. WinInv(w)
      BY DEF LatestInv
    <2>2. CASE Elsewhere(w)
      BY <1>1, <2>1, <2>2, WinElsewhere
    <2>3. CASE Evaluate(w)
      BY <1>1, <2>3, EvaluateWin
    <2>4. CASE \E d \in Docs : SelectDocument(w, d)
      BY <1>1, <2>1, <2>4, SelectWin
    <2>5. CASE PersistCommit(w)
      BY <1>1, <2>1, <2>5, PersistWin
    <2>6. CASE SelectStale(w)
      BY <1>1, <2>1, <2>6, GatherWin
    <2>7. CASE ClearCommit(w)
      BY <1>1, <2>1, <2>7, ClearWin
    <2>8. CASE AuditFails(w)
      BY <1>1, <2>8, NoPlanType, IdleWin DEF AuditFails
    <2>9. QED BY <1>1, <2>2, <2>3, <2>4, <2>5, <2>6, <2>7, <2>8, FrameStep DEF Own
  <1>3. QED BY <1>1, <1>2 DEF LatestInv

\* What the last commit of a full run leaves of a document it evaluated.
Wins(w, d) ==
  LET Now == {r \in Rows : rows'[r] # None /\ rows'[r].doc = d}
      found == plan[w].found[d]
  IN  /\ found # {} => Now # {}
      /\ \A r \in Now :
           \/ r \in touched[w]
           \/ Now # {r}
           \/ Decided(rows'[r])
           \/ IF found = {} THEN "auto_cleared" \in rows'[r].marks
              ELSE Visible(rows'[r]) /\ rows'[r].flagged = found

LEMMA LastCommitWins ==
  ASSUME LatestInv, KeepsDocs, NEW w \in Workers, ClearCommit(w), stage[w] = "clear",
         plan[w].scope = "full", NEW d \in plan[w].evaluated
  PROVE  Wins(w, d)
  <1> DEFINE Now == {r \in Rows : rows'[r] # None /\ rows'[r].doc = d}
             found == plan[w].found[d]
  <1>1. TypeOK /\ SessionsAgree /\ WinInv(w) /\ d \in Docs /\ KindOf[d] \in Kinds
    BY KindAssumption DEF LatestInv, TypeOK, Plan
  <1>2. Now = RowsFor(d)'
    BY DEF RowsFor, Used
  <1>3. WorkOf(w) = Stale(plan[w]) \ OfKind("account")
    BY DEF WorkOf, Work, PersistStages
  <1>4. CASE found # {}
    <2>1. d \in Flagged(plan[w]) /\ d \notin WorkOf(w)
      BY <1>1, <1>3, <1>4 DEF Flagged, Stale
    <2>2. stage[w] \in After(KindOf[d])
      BY <1>1 DEF After, Kinds
    <2>3. PICK r \in RowsFor(d) : RowsFor(d) # {r} \/ Shows(w, d, r)
      BY <1>1, <2>1, <2>2 DEF WinInv, Persisted
    <2>4. RowsFor(d) \subseteq RowsFor(d)' /\ \A q \in RowsFor(d) : rows'[q] = rows[q]
      BY <1>1, <2>1, RowsForGrows, CommitKeepsRows
    <2>5. Now # {}
      BY <1>2, <2>3, <2>4
    <2>6. ASSUME NEW q \in Now, q \notin touched[w], Now = {q}, ~ Decided(rows'[q])
          PROVE  Visible(rows'[q]) /\ rows'[q].flagged = found
      <3>1. r = q /\ RowsFor(d) = {r}
        BY <1>2, <2>3, <2>4, <2>6
      <3>2. Shows(w, d, q) /\ rows'[q] = rows[q]
        BY <2>3, <2>4, <3>1
      <3>3. QED BY <2>6, <3>2 DEF Shows
    <2>7. QED BY <1>4, <2>5, <2>6 DEF Wins
  <1>5. CASE found = {}
    <2>1. d \in Stale(plan[w])
      BY <1>1, <1>5 DEF Stale, Flagged
    <2>2. ASSUME NEW r \in Now
          PROVE  r \in touched[w] \/ Decided(rows'[r]) \/ "auto_cleared" \in rows'[r].marks
      <3>1. CASE d \in WorkOf(w)
        BY <1>1, <1>2, <3>1, ClearHides
      <3>2. CASE d \notin WorkOf(w)
        <4>1. d \in Stale(plan[w]) \cap OfKind("account")
          BY <1>1, <1>3, <2>1, <3>2
        <4>2. rows'[r] = rows[r]
          BY <1>1, <1>2, <3>2, CommitKeepsRows
        <4>3. r \in RowsFor(d)
          BY <1>1, <1>2, <4>2, RowsForGrows
        <4>4. Hides(w, r)
          BY <1>1, <4>1, <4>3 DEF WinInv, AccountsHidden
        <4>5. QED BY <4>2, <4>4 DEF Hides
      <3>3. QED BY <3>1, <3>2
    <2>3. QED BY <1>5, <2>2 DEF Wins
  <1>6. QED BY <1>4, <1>5

(***************************************************************************)
(* Latest run wins.  When a full run ends, every document it evaluated has *)
(* the row the run found: in the feed with exactly these flags, or hidden  *)
(* by its stamp; but for rows another session wrote meanwhile or a user    *)
(* had decided.  For any number of runs and requests of one company.       *)
(***************************************************************************)
THEOREM LatestTheorem == Spec => LatestRunWins
  <1>1. Init => LatestInv
    <2> SUFFICES ASSUME Init PROVE LatestInv
      OBVIOUS
    <2>1. ASSUME NEW w \in Workers PROVE WinInv(w)
      <3>1. /\ stage[w] = "idle" /\ todo[w] = {} /\ missing[w] = {} /\ seen[w] = NothingSeen
            /\ plan[w] = NoPlan
        BY DEF Init, Sessions
      <3>2. /\ "idle" \notin PersistStages /\ "idle" \notin ClearStages
            /\ \A d \in Docs : "idle" \notin After(KindOf[d])
        BY KindAssumption DEF PersistStages, ClearStages, After, Kinds
      <3>3. \A p : Flagged(p) \subseteq Docs
        BY DEF Flagged
      <3>4. QED BY <3>1, <3>2, <3>3
                DEF WinInv, InWork, Selected, Gathered, Persisted, AccountsHidden, NothingSeen
    <2>2. QED BY <2>1, InitTypeOK DEF LatestInv
  <1>2. LatestInv /\ [Next]_vars =>
          [\A w \in Workers :
             ClearCommit(w) /\ stage[w] = "clear" /\ plan[w].scope = "full" =>
               \A d \in plan[w].evaluated : Wins(w, d)]_vars
    BY LastCommitWins, RowsKeepDocs DEF LatestInv
  <1>3. Spec => [][\A w \in Workers :
                     ClearCommit(w) /\ stage[w] = "clear" /\ plan[w].scope = "full" =>
                       \A d \in plan[w].evaluated : Wins(w, d)]_vars
    BY <1>1, <1>2, NextWin, PTL DEF Spec
  <1>4. QED BY <1>3 DEF LatestRunWins, Wins

-----------------------------------------------------------------------------
(***************************************************************************)
(* The notes.                                                              *)
(***************************************************************************)
(* What a job holds.                                                       *)

HandOf(b) ==
  IF b.at \in {"persisted", "listed"} THEN Range(b.all)
  ELSE Range(b.todo) \cup {answer.from : answer \in Range(b.ready) \ {NoNote}}

\* A job writes nothing it was not started with, it asks about something, and
\* no answer of an earlier call is left when it asks.
InOrder(b) ==
  /\ b \in Job
  /\ HandOf(b) \subseteq Range(b.all)
  /\ b.at # "writing" => b.ready = <<>>
  /\ b.at = "free" => b.todo = <<>>
  /\ b.at = "asking" => b.todo # <<>>
  /\ \A answer \in Range(b.ready) \ {NoNote} : answer.doc = answer.from.doc

StartOf(facts) ==
  IF facts = <<>> THEN FreeJob
  ELSE [FreeJob EXCEPT !.at = "asking", !.all = facts, !.todo = facts]

LEMMA EmptyRange == Range(<<>>) = {}
  BY DEF Range

LEMMA RangeOfFacts ==
  ASSUME NEW S, NEW s \in Seq(S)
  PROVE  Range(s) \subseteq S
  BY DEF Range

LEMMA HandsOfJobs ==
  ASSUME NEW j
  PROVE  InHand(j) = HandOf(job[j])
  BY DEF InHand, HandOf

LEMMA FreeIsInOrder == InOrder(FreeJob) /\ HandOf(FreeJob) = {} /\ FreeJob.at = "free"
  <1>1. FreeJob \in Job
    BY DEF FreeJob, Job
  <1>2. /\ FreeJob.at = "free" /\ FreeJob.all = <<>> /\ FreeJob.todo = <<>> /\ FreeJob.ready = <<>>
    BY DEF FreeJob
  <1>3. HandOf(FreeJob) = {}
    BY <1>2, EmptyRange DEF HandOf
  <1>4. QED BY <1>1, <1>2, <1>3, EmptyRange DEF InOrder

LEMMA StartedInOrder ==
  ASSUME NEW facts \in Seq(Fact)
  PROVE  /\ InOrder(StartOf(facts)) /\ HandOf(StartOf(facts)) = Range(facts)
         /\ StartOf(facts).at \in {"free", "asking"}
  <1>1. CASE facts = <<>>
    BY <1>1, FreeIsInOrder, EmptyRange DEF StartOf
  <1>2. CASE facts # <<>>
    <2> DEFINE b == [at |-> "asking", all |-> facts, todo |-> facts, ready |-> <<>>]
    <2>1. StartOf(facts) = b
      BY <1>2 DEF StartOf, FreeJob
    <2>2. b \in Job
      BY DEF Job
    <2>3. b.at = "asking" /\ b.all = facts /\ b.todo = facts /\ b.ready = <<>>
      OBVIOUS
    <2> HIDE DEF b
    <2>4. HandOf(b) = Range(facts)
      BY <2>3, EmptyRange DEF HandOf
    <2>5. InOrder(b)
      BY <1>2, <2>2, <2>3, <2>4, EmptyRange DEF InOrder
    <2>6. QED BY <2>1, <2>3, <2>4, <2>5
  <1>3. QED BY <1>1, <1>2

\* The listing of a finite set has its elements and no others.
LEMMA ListedOnce ==
  ASSUME NEW S, IsFiniteSet(S)
  PROVE  SetToSeq(S) \in Seq(S) /\ Range(SetToSeq(S)) = S
  <1> DEFINE n == Cardinality(S)
             s == SetToSeq(S)
  <1>1. n \in Nat /\ ExistsBijection(1..n, S)
    BY FS_CardinalityType
  <1>2. \E f \in [1..n -> S] : IsInjective(f)
    BY <1>1 DEF ExistsBijection, Bijection, Injection
  <1>3. s \in [1..n -> S] /\ IsInjective(s)
    BY <1>2 DEF SetToSeq
  <1> HIDE DEF s
  <1>4. s \in Injection(1..n, S)
    BY <1>3 DEF Injection
  <1>5. Cardinality(1..n) = n
    BY <1>1, FS_Interval
  <1>6. s \in Surjection(1..n, S)
    BY <1>4, <1>5, FS_Injection
  <1>7. Range(s) = S
    BY <1>3, <1>6 DEF Surjection, Range
  <1>8. s \in Seq(S)
    <2> HIDE DEF n
    <2>1. QED BY <1>1, <1>3
  <1>9. QED BY <1>7, <1>8 DEF s

\* The chunk a job asks about and the rest are what it still had to ask about.
LEMMA Chunked ==
  ASSUME NEW j, job[j].todo \in Seq(Fact), job[j].todo # <<>>
  PROVE  /\ ChunkOf(j) \in Seq(Fact) /\ ChunkOf(j) # <<>> /\ RestOf(j) \in Seq(Fact)
         /\ Range(job[j].todo) = Range(ChunkOf(j)) \cup Range(RestOf(j))
  <1> DEFINE given == job[j].todo
             n == Len(given)
             m == SizeOf(j)
             chunk == SubSeq(given, 1, m)
             rest == SubSeq(given, m + 1, n)
  <1>1. n \in Nat /\ n > 0 /\ DOMAIN given = 1..n /\ \A i \in 1..n : given[i] \in Fact
    OBVIOUS
  <1>2. m \in 1..n
    BY <1>1 DEF SizeOf
  <1>3. ChunkOf(j) = chunk /\ RestOf(j) = rest
    BY DEF ChunkOf, RestOf
  <1> HIDE DEF given, n, m
  <1>4. /\ chunk \in Seq(Fact) /\ Len(chunk) = m
        /\ \A i \in 1..m : chunk[i] = given[i]
    <2>1. \A i \in 1..m : given[i] \in Fact
      BY <1>1, <1>2
    <2>2. QED BY <1>1, <1>2, <2>1, SubSeqProperties
  <1>5. /\ rest \in Seq(Fact) /\ Len(rest) = n - m
        /\ \A i \in 1..(n - m) : rest[i] = given[m + i]
    <2>1. \A i \in (m + 1)..n : given[i] \in Fact
      BY <1>1, <1>2
    <2>2. /\ rest \in Seq(Fact) /\ Len(rest) = IF m + 1 <= n THEN n - (m + 1) + 1 ELSE 0
          /\ \A i \in 1..(n - (m + 1) + 1) : rest[i] = given[(m + 1) + i - 1]
      BY <1>1, <1>2, <2>1, SubSeqProperties
    <2>3. QED BY <1>1, <1>2, <2>2
  <1> HIDE DEF chunk, rest
  <1>6. DOMAIN chunk = 1..m /\ DOMAIN rest = 1..(n - m)
    BY <1>4, <1>5
  <1>7. Range(given) = Range(chunk) \cup Range(rest)
    <2>1. ASSUME NEW f \in Range(given)
          PROVE  f \in Range(chunk) \cup Range(rest)
      <3>1. PICK i \in 1..n : f = given[i]
        BY <1>1 DEF Range
      <3>2. CASE i <= m
        <4>1. i \in 1..m
          BY <1>2, <3>2
        <4>2. QED BY <1>4, <1>6, <3>1, <4>1 DEF Range
      <3>3. CASE i > m
        <4>1. i - m \in 1..(n - m) /\ m + (i - m) = i
          BY <1>1, <1>2, <3>3
        <4>2. rest[i - m] = f
          BY <1>5, <3>1, <4>1
        <4>3. QED BY <1>6, <4>1, <4>2 DEF Range
      <3>4. QED BY <1>1, <1>2, <3>1, <3>2, <3>3
    <2>2. ASSUME NEW f \in Range(chunk)
          PROVE  f \in Range(given)
      <3>1. PICK i \in 1..m : f = chunk[i]
        BY <1>6 DEF Range
      <3>2. i \in 1..n /\ f = given[i]
        BY <1>1, <1>2, <1>4, <3>1
      <3>3. QED BY <1>1, <3>2 DEF Range
    <2>3. ASSUME NEW f \in Range(rest)
          PROVE  f \in Range(given)
      <3>1. PICK i \in 1..(n - m) : f = rest[i]
        BY <1>6 DEF Range
      <3>2. m + i \in 1..n /\ f = given[m + i]
        BY <1>1, <1>2, <1>5, <3>1
      <3>3. QED BY <1>1, <3>2 DEF Range
    <2>4. QED BY <2>1, <2>2, <2>3
  <1>8. chunk # <<>>
    BY <1>2, <1>4, <1>1
  <1>9. QED BY <1>3, <1>4, <1>5, <1>7, <1>8 DEF given

\* What becomes of the answers to a chunk: a note of each row that got one,
\* about that row and no other; the documents of the others are dropped.
LEMMA Recorded ==
  ASSUME NEW chunk \in Seq(Fact), NEW ids
  PROVE  LET ready == Records(chunk, ids)
             froms == {answer.from : answer \in Range(ready) \ {NoNote}}
         IN /\ ready \in Seq(Note \cup {NoNote})
            /\ froms \subseteq Range(chunk)
            /\ \A answer \in Range(ready) \ {NoNote} : answer.doc = answer.from.doc
            /\ \A fact \in Range(chunk) : fact \in froms \/ fact.doc \in Unanswered(chunk, ready)
            /\ Unanswered(chunk, ready) \subseteq Documents
  <1> DEFINE ready == Records(chunk, ids)
             froms == {answer.from : answer \in Range(ready) \ {NoNote}}
             noteOf(i) == [doc |-> chunk[i].doc, from |-> chunk[i]]
             got == {i \in DOMAIN chunk : \E a \in DOMAIN ids : ids[a] = i}
  <1>1. Len(chunk) \in Nat /\ DOMAIN chunk = 1..Len(chunk) /\ \A i \in DOMAIN chunk : chunk[i] \in Fact
    OBVIOUS
  <1>2. /\ DOMAIN ready = DOMAIN chunk
        /\ \A i \in DOMAIN chunk : ready[i] = IF i \in got THEN noteOf(i) ELSE NoNote
        /\ ready = [i \in 1..Len(chunk) |-> ready[i]]
    BY <1>1 DEF Records
  <1>3. \A i \in DOMAIN chunk : /\ noteOf(i) \in Note /\ noteOf(i) # NoNote
                                /\ noteOf(i).doc = chunk[i].doc /\ noteOf(i).from = chunk[i]
                                /\ chunk[i].doc \in Documents
    BY <1>1, DocumentsAssumption DEF Note, Fact
  <1> HIDE DEF ready, noteOf, got
  <1>4. ready \in Seq(Note \cup {NoNote})
    <2>1. \A i \in 1..Len(chunk) : ready[i] \in Note \cup {NoNote}
      BY <1>1, <1>2, <1>3
    <2>2. QED BY <1>1, <1>2, <2>1
  <1>5. \A answer \in Range(ready) \ {NoNote} : \E i \in DOMAIN chunk : i \in got /\ answer = noteOf(i)
    BY <1>2 DEF Range
  <1>6. \A answer \in Range(ready) \ {NoNote} :
          answer.doc = answer.from.doc /\ answer.from \in Range(chunk)
    BY <1>3, <1>5 DEF Range
  <1>7. ASSUME NEW fact \in Range(chunk)
        PROVE  fact \in froms \/ fact.doc \in Unanswered(chunk, ready)
    <2>1. PICK i \in DOMAIN chunk : fact = chunk[i]
      BY DEF Range
    <2>2. CASE i \in got
      <3>1. ready[i] = noteOf(i) /\ i \in DOMAIN ready
        BY <1>2, <2>2
      <3>2. noteOf(i) \in Range(ready) \ {NoNote}
        BY <1>3, <3>1 DEF Range
      <3>3. QED BY <1>3, <2>1, <3>2
    <2>3. CASE i \notin got
      BY <1>2, <2>1, <2>3 DEF Unanswered
    <2>4. QED BY <2>2, <2>3
  <1>8. Unanswered(chunk, ready) \subseteq Documents
    BY <1>2, <1>3 DEF Unanswered
  <1>9. QED BY <1>4, <1>6, <1>7, <1>8 DEF ready

\* The record a job is at and those behind it.
LEMMA HeadAndTail ==
  ASSUME NEW S, NEW s \in Seq(S), s # <<>>
  PROVE  /\ Head(s) \in S /\ Tail(s) \in Seq(S)
         /\ Range(s) = {Head(s)} \cup Range(Tail(s))
  <1>1. /\ Head(s) \in S /\ Tail(s) \in Seq(S) /\ Len(Tail(s)) = Len(s) - 1
        /\ \A i \in 1 .. Len(Tail(s)) : Tail(s)[i] = s[i+1]
        /\ Len(s) \in Nat /\ Len(s) > 0
    BY HeadTailProperties
  <1> DEFINE t == Tail(s)
             n == Len(s)
  <1>2. DOMAIN s = 1..n /\ DOMAIN t = 1..(n - 1) /\ Head(s) = s[1] /\ n \in Nat /\ n > 0
    BY <1>1
  <1>3. \A i \in 1..(n - 1) : t[i] = s[i + 1]
    BY <1>1
  <1> HIDE DEF t, n
  <1>4. ASSUME NEW x \in Range(s)
        PROVE  x \in {Head(s)} \cup Range(t)
    <2>1. PICK i \in 1..n : x = s[i]
      BY <1>2 DEF Range
    <2>2. CASE i = 1
      BY <1>2, <2>1, <2>2
    <2>3. CASE i # 1
      <3>1. i - 1 \in 1..(n - 1) /\ (i - 1) + 1 = i
        BY <1>2, <2>3
      <3>2. t[i - 1] = x
        BY <1>3, <2>1, <3>1
      <3>3. QED BY <1>2, <3>1, <3>2 DEF Range
    <2>4. QED BY <2>2, <2>3
  <1>5. ASSUME NEW x \in Range(t)
        PROVE  x \in Range(s)
    <2>1. PICK i \in 1..(n - 1) : x = t[i]
      BY <1>2 DEF Range
    <2>2. i + 1 \in 1..n /\ x = s[i + 1]
      BY <1>2, <1>3, <2>1
    <2>3. QED BY <1>2, <2>2 DEF Range
  <1>6. Head(s) \in Range(s)
    BY <1>2 DEF Range
  <1>7. QED BY <1>1, <1>4, <1>5, <1>6 DEF t

-----------------------------------------------------------------------------
(* Who has to write for a row.  A job that is listing drops the rows that  *)
(* have a note by the time it selects: it counts for those that have none. *)

Present(d) == [doc |-> d, issues |-> rowOf[d].issues]
Excused == lost \cup moved \cup late

Pending(d) == \E j \in Jobs : job[j].at # "listed" /\ Present(d) \in InHand(j)
Listed(d) == note[d] = NoNote /\ \E j \in Jobs : job[j].at = "listed" /\ Present(d) \in InHand(j)

HandsAreCurrent == \A j \in Jobs : Outdated(InHand(j), rowOf) \subseteq Excused

RowsAreCovered ==
  \A d \in Documents : rowOf[d].at # "none" =>
    note[d] = Present(d) \/ Pending(d) \/ Listed(d) \/ d \in Excused

NotesInv ==
  /\ NotesTypeOK /\ NotesAreOfTheirDocument
  /\ \A j \in Jobs : InOrder(job[j])
  /\ HandsAreCurrent /\ RowsAreCovered

LEMMA CoveredAreUpToDate == RowsAreCovered => NotesAreUpToDate
  BY DEF RowsAreCovered, NotesAreUpToDate, Pending, Listed, Coming, Present, Excused

LEMMA HeldAreFacts ==
  ASSUME NEW b, InOrder(b)
  PROVE  HandOf(b) \subseteq Fact /\ DocsOf(HandOf(b)) \subseteq Documents
  <1>1. b.all \in Seq(Fact)
    BY DEF InOrder, Job
  <1>2. HandOf(b) \subseteq Fact
    BY <1>1, RangeOfFacts DEF InOrder
  <1>3. QED BY <1>2 DEF DocsOf, Fact

\* While the rows stay as they are: nobody takes up an outdated fact unless it
\* is excused, and whoever drops a current one has written it or is excused.
LEMMA StillCovered ==
  ASSUME HandsAreCurrent, RowsAreCovered, UNCHANGED rowOf, Excused \subseteq Excused',
         \A i \in Jobs : \A f \in InHand(i)' :
           \/ \E k \in Jobs : f \in InHand(k)
           \/ f.issues = rowOf[f.doc].issues \/ f.doc \in Excused',
         \A i \in Jobs, d \in Documents : Present(d) \in InHand(i) =>
           \/ job'[i] = job[i]
           \/ \E k \in Jobs : job'[k].at # "listed" /\ Present(d) \in InHand(k)'
           \/ note'[d] = Present(d) \/ d \in Excused'
           \/ job[i].at = "listed" /\ note[d] # NoNote,
         \A d \in Documents : note'[d] \in {note[d], Present(d)} \/ d \in Excused'
  PROVE  HandsAreCurrent' /\ RowsAreCovered'
  <1>1. \A d \in Documents : Present(d)' = Present(d)
    BY DEF Present
  <1>2. \A i \in Jobs : job'[i] = job[i] => InHand(i)' = InHand(i)
    BY DEF InHand
  <1>3. HandsAreCurrent'
    BY DEF HandsAreCurrent, Outdated, DocsOf
  <1>4. ASSUME NEW d \in Documents, rowOf'[d].at # "none", d \notin Excused', note'[d] # Present(d)
        PROVE  Pending(d)' \/ Listed(d)'
    <2>1. note'[d] = note[d] /\ note[d] # Present(d)
      BY <1>4
    <2>2. Pending(d) \/ Listed(d)
      BY <1>4, <2>1 DEF RowsAreCovered
    <2>3. CASE Pending(d)
      <3>1. PICK i \in Jobs : job[i].at # "listed" /\ Present(d) \in InHand(i)
        BY <2>3 DEF Pending
      <3>2. CASE job'[i] = job[i]
        BY <1>1, <1>2, <3>1, <3>2 DEF Pending
      <3>3. CASE \E k \in Jobs : job'[k].at # "listed" /\ Present(d) \in InHand(k)'
        BY <1>1, <3>3 DEF Pending
      <3>4. QED BY <1>4, <3>1, <3>2, <3>3
    <2>4. CASE Listed(d)
      <3>1. note[d] = NoNote /\ note'[d] = NoNote
        BY <2>1, <2>4 DEF Listed
      <3>2. PICK i \in Jobs : job[i].at = "listed" /\ Present(d) \in InHand(i)
        BY <2>4 DEF Listed
      <3>3. CASE job'[i] = job[i]
        BY <1>1, <1>2, <3>1, <3>2, <3>3 DEF Listed
      <3>4. CASE \E k \in Jobs : job'[k].at # "listed" /\ Present(d) \in InHand(k)'
        BY <1>1, <3>4 DEF Pending
      <3>5. QED BY <1>4, <3>1, <3>2, <3>3, <3>4
    <2>5. QED BY <2>2, <2>3, <2>4
  <1>5. RowsAreCovered'
    BY <1>1, <1>4 DEF RowsAreCovered
  <1>6. QED BY <1>3, <1>5

\* The same for the steps of one job, which goes from what it was to b.
LEMMA OneJobGoesOn ==
  ASSUME NotesInv, UNCHANGED rowOf, Excused \subseteq Excused',
         NEW j \in Jobs, NEW b, Set(j, b), InOrder(b),
         \A f \in HandOf(b) :
           f \in HandOf(job[j]) \/ f.issues = rowOf[f.doc].issues \/ f.doc \in Excused',
         b.at = "listed" => HandOf(job[j]) = {},
         \A d \in Documents : Present(d) \in HandOf(job[j]) =>
           \/ Present(d) \in HandOf(b)
           \/ note'[d] = Present(d) \/ d \in Excused'
           \/ job[j].at = "listed" /\ note[d] # NoNote,
         \A d \in Documents : note'[d] \in {note[d], Present(d)} \/ d \in Excused'
  PROVE  /\ job' \in [Jobs -> Job] /\ \A i \in Jobs : InOrder(job'[i])
         /\ HandsAreCurrent' /\ RowsAreCovered'
  <1>1. job \in [Jobs -> Job] /\ \A i \in Jobs : InOrder(job[i])
    BY DEF NotesInv, NotesTypeOK
  <1>2. /\ job' \in [Jobs -> Job]
        /\ job'[j] = b /\ \A i \in Jobs \ {j} : job'[i] = job[i]
    BY <1>1 DEF Set, InOrder
  <1>3. \A i \in Jobs : InOrder(job'[i])
    BY <1>1, <1>2
  <1>4. \A i \in Jobs : InHand(i) = HandOf(job[i]) /\ InHand(i)' = HandOf(job'[i])
    BY DEF InHand, HandOf
  <1>5. HandsAreCurrent /\ RowsAreCovered
    BY DEF NotesInv
  <1>6. \A i \in Jobs : \A f \in InHand(i)' :
          \/ \E k \in Jobs : f \in InHand(k)
          \/ f.issues = rowOf[f.doc].issues \/ f.doc \in Excused'
    BY <1>2, <1>4
  <1>7. ASSUME NEW i \in Jobs, NEW d \in Documents, Present(d) \in InHand(i)
        PROVE  \/ job'[i] = job[i]
               \/ \E k \in Jobs : job'[k].at # "listed" /\ Present(d) \in InHand(k)'
               \/ note'[d] = Present(d) \/ d \in Excused'
               \/ job[i].at = "listed" /\ note[d] # NoNote
    <2>1. CASE i # j
      BY <1>2, <2>1
    <2>2. CASE i = j
      <3>1. b.at # "listed"
        BY <1>4, <1>7, <2>2
      <3>2. QED BY <1>2, <1>4, <1>7, <2>2, <3>1
    <2>3. QED BY <2>1, <2>2
  <1>8. HandsAreCurrent' /\ RowsAreCovered'
    BY <1>5, <1>6, <1>7, StillCovered
  <1>9. QED BY <1>2, <1>3, <1>8

-----------------------------------------------------------------------------
(* The steps of a job.                                                     *)

\* The setting, the counts of audits, asks and faults, and the observers, keep their types.
CountsKept ==
  /\ enabled' \in BOOLEAN
  /\ audits' \in 0 .. MaxAudits /\ asks' \in 0 .. MaxAsks /\ faults' \in 0 .. MaxFaults
CausesKept == lost' \subseteq Documents /\ moved' \subseteq Documents /\ late' \subseteq Documents

LEMMA Counting ==
  ASSUME NotesInv, UNCHANGED enabled, Audit \/ audits' = audits, Ask \/ asks' = asks, Fault \/ faults' = faults
  PROVE  CountsKept
  BY JobBoundAssumption DEF NotesInv, NotesTypeOK, Audit, Ask, Fault, CountsKept

\* A step of one job that writes no note.
LEMMA JobMovesOn ==
  ASSUME NotesInv, UNCHANGED <<rowOf, note>>, CausesKept, CountsKept, Excused \subseteq Excused',
         NEW j \in Jobs, NEW b, Set(j, b), InOrder(b),
         \A f \in HandOf(b) :
           f \in HandOf(job[j]) \/ f.issues = rowOf[f.doc].issues \/ f.doc \in Excused',
         b.at = "listed" => HandOf(job[j]) = {},
         \A d \in Documents : Present(d) \in HandOf(job[j]) =>
           \/ Present(d) \in HandOf(b)
           \/ d \in Excused'
           \/ job[j].at = "listed" /\ note[d] # NoNote
  PROVE  NotesInv'
  <1>1. /\ job' \in [Jobs -> Job] /\ \A i \in Jobs : InOrder(job'[i])
        /\ HandsAreCurrent' /\ RowsAreCovered'
    BY OneJobGoesOn
  <1>2. NotesTypeOK' /\ NotesAreOfTheirDocument'
    BY <1>1 DEF NotesInv, NotesTypeOK, NotesAreOfTheirDocument, CausesKept, CountsKept
  <1>3. QED BY <1>1, <1>2 DEF NotesInv

LEMMA JobsAre ==
  ASSUME NotesInv, NEW j \in Jobs
  PROVE  /\ InOrder(job[j]) /\ job[j] \in Job
         /\ job[j].all \in Seq(Fact) /\ job[j].todo \in Seq(Fact) /\ job[j].ready \in Seq(Note \cup {NoNote})
         /\ HandOf(job[j]) \subseteq Fact /\ DocsOf(HandOf(job[j])) \subseteq Documents
  <1>1. InOrder(job[j]) /\ job[j] \in Job
    BY DEF NotesInv, NotesTypeOK
  <1>2. QED BY <1>1, HeldAreFacts DEF Job

LEMMA CausesAre ==
  ASSUME NotesInv
  PROVE  lost \subseteq Documents /\ moved \subseteq Documents /\ late \subseteq Documents
  BY DEF NotesInv, NotesTypeOK

LEMMA PrewarmKeeps ==
  ASSUME NotesInv, NEW j \in Jobs, Prewarm(j)
  PROVE  NotesInv'
  <1> DEFINE b == StartOf(job[j].all)
  <1>1. Set(j, b) /\ job[j].at = "persisted" /\ UNCHANGED <<rowOf, note, causes, bounds>>
    BY DEF Prewarm, Start, StartOf
  <1>2. InOrder(b) /\ HandOf(b) = Range(job[j].all) /\ b.at # "listed"
    BY JobsAre, StartedInOrder
  <1>3. HandOf(job[j]) = Range(job[j].all)
    BY <1>1 DEF HandOf
  <1>4. CausesKept /\ CountsKept /\ Excused' = Excused
    BY <1>1, CausesAre, Counting DEF causes, bounds, CausesKept, Excused
  <1> HIDE DEF b
  <1>5. QED BY <1>1, <1>2, <1>3, <1>4, JobMovesOn

\* A job that ends with all it was started with excused.
LEMMA JobGivesUp ==
  ASSUME NotesInv, UNCHANGED <<rowOf, note, enabled, audits, asks, faults>>, NEW j \in Jobs,
         Set(j, FreeJob), CausesKept, Excused \subseteq Excused',
         DocsOf(Range(job[j].all)) \subseteq Excused'
  PROVE  NotesInv'
  <1>1. CountsKept
    BY Counting
  <1>2. HandOf(job[j]) \subseteq Range(job[j].all)
    BY JobsAre DEF InOrder
  <1>3. \A d \in Documents : Present(d) \in HandOf(job[j]) => d \in Excused'
    <2>1. \A d \in Documents : Present(d).doc = d
      BY DEF Present
    <2>2. QED BY <1>2, <2>1 DEF DocsOf
  <1>4. QED BY <1>1, <1>3, FreeIsInOrder, JobMovesOn

LEMMA ArgumentsAre ==
  ASSUME NotesInv, NEW j \in Jobs
  PROVE  DocsOf(Range(job[j].all)) \subseteq Documents
  <1>1. Range(job[j].all) \subseteq Fact
    BY JobsAre, RangeOfFacts
  <1>2. QED BY <1>1 DEF DocsOf, Fact

LEMMA NoPrewarmKeeps ==
  ASSUME NotesInv, NEW j \in Jobs, NoPrewarm(j)
  PROVE  NotesInv'
  <1>1. /\ Set(j, FreeJob) /\ moved' = moved \cup DocsOf(Range(job[j].all))
        /\ UNCHANGED <<rowOf, note, lost, late, enabled, audits, asks, faults>>
    BY DEF NoPrewarm, bounds
  <1>2. CausesKept /\ Excused \subseteq Excused' /\ DocsOf(Range(job[j].all)) \subseteq Excused'
    BY <1>1, ArgumentsAre, CausesAre DEF CausesKept, Excused
  <1>3. QED BY <1>1, <1>2, JobGivesUp

LEMMA TurnedAwayKeeps ==
  ASSUME NotesInv, NEW j \in Jobs, TurnedAway(j)
  PROVE  NotesInv'
  <1>1. /\ Set(j, FreeJob) /\ lost' = lost \cup DocsOf(Range(job[j].all))
        /\ UNCHANGED <<rowOf, note, moved, late, enabled, audits, asks, faults>>
    BY DEF TurnedAway, bounds
  <1>2. CausesKept /\ Excused \subseteq Excused' /\ DocsOf(Range(job[j].all)) \subseteq Excused'
    BY <1>1, ArgumentsAre, CausesAre DEF CausesKept, Excused
  <1>3. QED BY <1>1, <1>2, JobGivesUp

\* A job that starts with the rows it was given, and has asked about none.
LEMMA FilledJob ==
  ASSUME NEW at \in {"persisted", "listed"}, NEW facts \in Seq(Fact)
  PROVE  LET b == [FreeJob EXCEPT !.at = at, !.all = facts]
         IN b \in Job /\ b.at = at /\ b.all = facts /\ b.todo = <<>> /\ b.ready = <<>>
  <1> DEFINE of(f) == [f EXCEPT !.at = at, !.all = facts]
  <1>1. ASSUME NEW f \in Job
        PROVE  /\ of(f) \in Job /\ of(f).at = at /\ of(f).all = facts
               /\ of(f).todo = f.todo /\ of(f).ready = f.ready
    BY DEF Job
  <1>2. FreeJob \in Job
    BY DEF FreeJob, Job
  <1>3. FreeJob.todo = <<>> /\ FreeJob.ready = <<>>
    BY DEF FreeJob
  <1> HIDE DEF of
  <1>4. LET b == of(FreeJob)
        IN b \in Job /\ b.at = at /\ b.all = facts /\ b.todo = <<>> /\ b.ready = <<>>
    BY <1>1, <1>2, <1>3
  <1>5. QED BY <1>4 DEF of

LEMMA SweepListKeeps ==
  ASSUME NotesInv, NEW j \in Jobs, SweepList(j)
  PROVE  NotesInv'
  <1>1. PICK ok \in SUBSET RowsAt("closed") :
          Set(j, [FreeJob EXCEPT !.at = "listed",
            !.all = SetToSeq({[doc |-> d, issues |-> rowOf[d].issues] : d \in RowsAt("open") \cup ok})])
    BY DEF SweepList
  <1> DEFINE listing == {[doc |-> d, issues |-> rowOf[d].issues] : d \in RowsAt("open") \cup ok}
             facts == SetToSeq(listing)
             b == [FreeJob EXCEPT !.at = "listed", !.all = facts]
  <1>2. Set(j, [FreeJob EXCEPT !.at = "listed", !.all = facts])
    BY <1>1
  <1>3. job[j].at = "free" /\ Ask /\ UNCHANGED <<rowOf, note, causes, enabled, audits, faults>>
    BY DEF SweepList
  <1>4. listing \subseteq Fact /\ \A f \in listing : f.issues = rowOf[f.doc].issues
    BY DEF Fact, RowsAt, NotesInv, NotesTypeOK
  <1>5. IsFiniteSet(listing)
    <2>1. RowsAt("open") \cup ok \subseteq Documents
      BY DEF RowsAt
    <2>2. IsFiniteSet(RowsAt("open") \cup ok)
      BY <2>1, DocumentsAssumption, FS_Subset
    <2> DEFINE current == [d \in RowsAt("open") \cup ok |-> [doc |-> d, issues |-> rowOf[d].issues]]
    <2>3. current \in Surjection(RowsAt("open") \cup ok, listing)
      BY DEF Surjection
    <2>4. QED BY <2>2, <2>3, FS_Surjection
  <1> HIDE DEF listing
  <1>6. facts \in Seq(Fact) /\ Range(facts) = listing
    <2>1. facts \in Seq(listing) /\ Range(facts) = listing
      BY <1>5, ListedOnce
    <2>2. QED BY <1>4, <2>1
  <1> HIDE DEF facts
  <1>7. Set(j, b) /\ b \in Job
    BY <1>2, <1>6, FilledJob
  <1>8. b.at = "listed" /\ b.all = facts /\ b.todo = <<>> /\ b.ready = <<>>
    BY <1>6, FilledJob
  <1> HIDE DEF b
  <1>9. HandOf(b) = listing /\ InOrder(b)
    BY <1>6, <1>7, <1>8, EmptyRange DEF HandOf, InOrder
  <1>10. HandOf(job[j]) = {}
    <2>1. InOrder(job[j])
      BY JobsAre
    <2>2. job[j].todo = <<>> /\ job[j].ready = <<>>
      BY <1>3, <2>1 DEF InOrder
    <2>3. QED BY <1>3, <2>2, EmptyRange DEF HandOf
  <1>11. CausesKept /\ CountsKept /\ Excused' = Excused
    BY <1>3, CausesAre, Counting DEF causes, CausesKept, Excused
  <1>12. QED BY <1>3, <1>4, <1>7, <1>9, <1>10, <1>11, JobMovesOn

LEMMA SweepSelectKeeps ==
  ASSUME NotesInv, NEW j \in Jobs, SweepSelect(j)
  PROVE  NotesInv'
  <1> DEFINE unnoted == {fact \in Range(job[j].all) : note[fact.doc] = NoNote}
             facts == SetToSeq(unnoted)
             b == StartOf(facts)
  <1>1. Set(j, b) /\ job[j].at = "listed" /\ UNCHANGED <<rowOf, note, causes, bounds>>
    BY DEF SweepSelect, Start, StartOf
  <1>2. HandOf(job[j]) = Range(job[j].all)
    BY <1>1 DEF HandOf
  <1>3. IsFiniteSet(unnoted)
    <2>1. job[j].all \in Seq(Fact)
      BY JobsAre
    <2>2. job[j].all \in Surjection(1..Len(job[j].all), Range(job[j].all)) /\ Len(job[j].all) \in Nat
      BY <2>1 DEF Surjection, Range
    <2>3. IsFiniteSet(Range(job[j].all))
      BY <2>2, FS_Interval, FS_Surjection
    <2>4. QED BY <2>3, FS_Subset
  <1>4. unnoted \subseteq HandOf(job[j])
    BY <1>2
  <1>5. \A d \in Documents : Present(d) \in HandOf(job[j]) => Present(d) \in unnoted \/ note[d] # NoNote
    BY <1>2 DEF Present
  <1> HIDE DEF unnoted
  <1>6. facts \in Seq(Fact) /\ Range(facts) = unnoted
    <2>1. facts \in Seq(unnoted) /\ Range(facts) = unnoted
      BY <1>3, ListedOnce
    <2>2. unnoted \subseteq Fact
      BY <1>4, JobsAre
    <2>3. QED BY <2>1, <2>2
  <1> HIDE DEF facts
  <1>7. InOrder(b) /\ HandOf(b) = unnoted /\ b.at # "listed"
    BY <1>6, StartedInOrder
  <1>8. CausesKept /\ CountsKept /\ Excused' = Excused
    BY <1>1, CausesAre, Counting DEF causes, bounds, CausesKept, Excused
  <1> HIDE DEF b
  <1>9. QED BY <1>1, <1>4, <1>5, <1>7, <1>8, JobMovesOn

LEMMA SweepSelectsAllKeeps ==
  ASSUME NotesInv, NEW j \in Jobs, SweepSelectsAll(j)
  PROVE  NotesInv'
  <1> DEFINE b == StartOf(job[j].all)
  <1>1. /\ Set(j, b) /\ job[j].at = "listed" /\ Fault
        /\ UNCHANGED <<rowOf, note, causes, enabled, audits, asks>>
    BY DEF SweepSelectsAll, Start, StartOf
  <1>2. InOrder(b) /\ HandOf(b) = Range(job[j].all) /\ b.at # "listed"
    BY JobsAre, StartedInOrder
  <1>3. HandOf(job[j]) = Range(job[j].all)
    BY <1>1 DEF HandOf
  <1>4. CausesKept /\ CountsKept /\ Excused' = Excused
    BY <1>1, CausesAre, Counting DEF causes, CausesKept, Excused
  <1> HIDE DEF b
  <1>5. QED BY <1>1, <1>2, <1>3, <1>4, JobMovesOn

LEMMA FreeHoldsNothing ==
  ASSUME NotesInv, NEW j \in Jobs, job[j].at = "free"
  PROVE  HandOf(job[j]) = {}
  <1>1. InOrder(job[j])
    BY JobsAre
  <1>2. job[j].todo = <<>> /\ job[j].ready = <<>>
    BY <1>1 DEF InOrder
  <1>3. QED BY <1>2, EmptyRange DEF HandOf

LEMMA OpenKeeps ==
  ASSUME NotesInv, NEW j \in Jobs, NEW d \in Documents, Open(j, d)
  PROVE  NotesInv'
  <1> DEFINE facts == <<Present(d)>>
             b == StartOf(facts)
  <1>1. /\ Set(j, b) /\ job[j].at = "free" /\ Ask
        /\ UNCHANGED <<rowOf, note, causes, enabled, audits, faults>>
    BY DEF Open, Start, StartOf, Present
  <1>2. facts \in Seq(Fact) /\ Range(facts) = {Present(d)} /\ Present(d).issues = rowOf[Present(d).doc].issues
    <2>1. Present(d) \in Fact /\ Present(d).issues = rowOf[Present(d).doc].issues
      BY DEF Present, Fact, NotesInv, NotesTypeOK
    <2>2. QED BY <2>1 DEF Range
  <1> HIDE DEF facts
  <1>3. InOrder(b) /\ HandOf(b) = {Present(d)} /\ b.at # "listed"
    BY <1>2, StartedInOrder
  <1>4. HandOf(job[j]) = {}
    BY <1>1, FreeHoldsNothing
  <1>5. CausesKept /\ CountsKept /\ Excused' = Excused
    BY <1>1, CausesAre, Counting DEF causes, CausesKept, Excused
  <1> HIDE DEF b
  <1>6. QED BY <1>1, <1>2, <1>3, <1>4, <1>5, JobMovesOn

LEMMA AnswerKeeps ==
  ASSUME NotesInv, NEW j \in Jobs, Answer(j)
  PROVE  NotesInv'
  <1> DEFINE chunk == ChunkOf(j)
             rest == RestOf(j)
  <1>1. PICK ids \in Answers(Len(chunk)) :
          LET ready == Records(chunk, ids)
              dropped == Unanswered(chunk, ready)
          IN /\ IF dropped # {} THEN Fault ELSE UNCHANGED faults
             /\ lost' = lost \cup dropped
             /\ Set(j, [job[j] EXCEPT !.at = "writing", !.ready = ready, !.todo = rest])
    BY DEF Answer
  <1> DEFINE ready == Records(chunk, ids)
             froms == {answer.from : answer \in Range(ready) \ {NoNote}}
             dropped == Unanswered(chunk, ready)
             b == [job[j] EXCEPT !.at = "writing", !.ready = ready, !.todo = rest]
  <1>2. /\ job[j].at = "asking" /\ UNCHANGED <<rowOf, note, moved, late, enabled, audits, asks>>
        /\ Fault \/ faults' = faults
        /\ lost' = lost \cup dropped /\ Set(j, b)
    BY <1>1 DEF Answer, Asking
  <1>3. /\ InOrder(job[j]) /\ job[j] \in Job
        /\ job[j].todo \in Seq(Fact) /\ job[j].todo # <<>> /\ job[j].ready = <<>>
    BY <1>2, JobsAre DEF InOrder
  <1>4. /\ chunk \in Seq(Fact) /\ rest \in Seq(Fact)
        /\ Range(job[j].todo) = Range(chunk) \cup Range(rest)
    BY <1>3, Chunked
  <1> HIDE DEF chunk, rest
  <1>5. /\ ready \in Seq(Note \cup {NoNote})
        /\ froms \subseteq Range(chunk)
        /\ \A answer \in Range(ready) \ {NoNote} : answer.doc = answer.from.doc
        /\ \A fact \in Range(chunk) : fact \in froms \/ fact.doc \in dropped
        /\ dropped \subseteq Documents
    BY <1>4, Recorded
  <1>6. HandOf(job[j]) = Range(chunk) \cup Range(rest)
    BY <1>2, <1>3, <1>4, EmptyRange DEF HandOf
  <1> HIDE DEF ready, dropped
  <1>7. /\ b \in Job /\ b.at = "writing" /\ b.ready = ready /\ b.todo = rest /\ b.all = job[j].all
    BY <1>3, <1>4, <1>5 DEF Job
  <1> HIDE DEF b
  <1>8. HandOf(b) = Range(rest) \cup froms
    BY <1>7 DEF HandOf
  <1> HIDE DEF froms
  <1>9. InOrder(b)
    <2>1. HandOf(b) \subseteq Range(b.all)
      BY <1>3, <1>5, <1>6, <1>7, <1>8 DEF InOrder
    <2>2. QED BY <1>5, <1>7, <2>1 DEF InOrder
  <1>10. CausesKept /\ CountsKept /\ Excused \subseteq Excused' /\ dropped \subseteq Excused'
    BY <1>2, <1>5, CausesAre, Counting DEF CausesKept, Excused
  <1>11. \A d \in Documents : Present(d) \in HandOf(job[j]) => Present(d) \in HandOf(b) \/ d \in Excused'
    <2>1. SUFFICES ASSUME NEW d \in Documents, Present(d) \in HandOf(job[j]), Present(d) \notin HandOf(b)
                   PROVE  d \in Excused'
      OBVIOUS
    <2>2. Present(d) \in Range(chunk) /\ Present(d) \notin froms
      BY <1>6, <1>8, <2>1
    <2>3. Present(d).doc \in dropped
      BY <1>5, <2>2
    <2>4. QED BY <1>10, <2>3 DEF Present
  <1>12. HandOf(b) \subseteq HandOf(job[j])
    BY <1>5, <1>6, <1>8
  <1>13. b.at # "listed" /\ UNCHANGED <<rowOf, note>>
    BY <1>2, <1>7
  <1>14. QED BY <1>2, <1>9, <1>10, <1>11, <1>12, <1>13, JobMovesOn

\* The record a job is at leaves its hands, and nothing else does.
LEMMA RecordLeaves ==
  ASSUME NotesInv, NEW j \in Jobs, job[j].at = "writing", job[j].ready # <<>>
  PROVE  LET b == [job[j] EXCEPT !.ready = Tail(@)]
             first == Head(job[j].ready)
         IN /\ InOrder(b) /\ b.at = "writing"
            /\ HandOf(b) \subseteq HandOf(job[j])
            /\ first = NoNote => HandOf(job[j]) = HandOf(b)
            /\ first # NoNote =>
                 /\ first \in Note /\ first.doc = first.from.doc
                 /\ first.from \in HandOf(job[j])
                 /\ HandOf(job[j]) = HandOf(b) \cup {first.from}
  <1> DEFINE ready == job[j].ready
             first == Head(ready)
             tail == Tail(ready)
             b == [job[j] EXCEPT !.ready = tail]
             held(s) == {answer.from : answer \in Range(s) \ {NoNote}}
  <1>1. InOrder(job[j]) /\ job[j] \in Job /\ ready \in Seq(Note \cup {NoNote})
    BY JobsAre
  <1>2. /\ first \in Note \cup {NoNote} /\ tail \in Seq(Note \cup {NoNote})
        /\ Range(ready) = {first} \cup Range(tail)
    BY <1>1, HeadAndTail
  <1>3. HandOf(job[j]) = Range(job[j].todo) \cup held(ready)
    BY DEF HandOf
  <1>4. \A answer \in Range(ready) \ {NoNote} : answer.doc = answer.from.doc
    BY <1>1 DEF InOrder
  <1> HIDE DEF ready, first, tail
  <1>5. b \in Job /\ b.at = "writing" /\ b.ready = tail /\ b.todo = job[j].todo /\ b.all = job[j].all
    BY <1>1, <1>2 DEF Job
  <1> HIDE DEF b
  <1>6. HandOf(b) = Range(job[j].todo) \cup held(tail)
    BY <1>5 DEF HandOf
  <1>7. held(ready) = held(tail) \cup {answer.from : answer \in {first} \ {NoNote}}
    BY <1>2
  <1>8. first = NoNote => held(ready) = held(tail)
    BY <1>7
  <1>9. first # NoNote => held(ready) = held(tail) \cup {first.from}
    BY <1>7
  <1> HIDE DEF held
  <1>10. /\ HandOf(b) \subseteq HandOf(job[j])
         /\ first = NoNote => HandOf(job[j]) = HandOf(b)
         /\ first # NoNote => HandOf(job[j]) = HandOf(b) \cup {first.from}
    BY <1>3, <1>6, <1>8, <1>9
  <1>11. first # NoNote => first \in Note /\ first.doc = first.from.doc
    BY <1>2, <1>4
  <1>12. InOrder(b)
    <2>1. HandOf(b) \subseteq Range(b.all)
      BY <1>1, <1>5, <1>10 DEF InOrder
    <2>2. \A answer \in Range(tail) \ {NoNote} : answer.doc = answer.from.doc
      BY <1>2, <1>4
    <2>3. QED BY <1>5, <2>1, <2>2 DEF InOrder
  <1>13. QED BY <1>5, <1>10, <1>11, <1>12 DEF b, first, ready, tail

LEMMA SkipKeeps ==
  ASSUME NotesInv, NEW j \in Jobs, Skip(j)
  PROVE  NotesInv'
  <1> DEFINE b == [job[j] EXCEPT !.ready = Tail(@)]
  <1>1. /\ Set(j, b) /\ job[j].at = "writing" /\ job[j].ready # <<>> /\ Head(job[j].ready) = NoNote
        /\ UNCHANGED <<rowOf, note, causes, bounds>>
    BY DEF Skip, Skipped
  <1>2. InOrder(b) /\ b.at = "writing" /\ HandOf(b) = HandOf(job[j])
    BY <1>1, RecordLeaves
  <1>3. CausesKept /\ CountsKept /\ Excused' = Excused
    BY <1>1, CausesAre, Counting DEF causes, bounds, CausesKept, Excused
  <1> HIDE DEF b
  <1>4. QED BY <1>1, <1>2, <1>3, JobMovesOn

LEMMA WriteFailsKeeps ==
  ASSUME NotesInv, NEW j \in Jobs, WriteFails(j)
  PROVE  NotesInv'
  <1> DEFINE b == [job[j] EXCEPT !.ready = Tail(@)]
             first == Head(job[j].ready)
  <1>1. /\ Set(j, b) /\ job[j].at = "writing" /\ job[j].ready # <<>> /\ first # NoNote
        /\ Fault /\ lost' = lost \cup {first.doc}
        /\ UNCHANGED <<rowOf, note, moved, late, enabled, audits, asks>>
    BY DEF WriteFails, Answered
  <1>2. /\ InOrder(b) /\ b.at = "writing"
        /\ first \in Note /\ first.doc = first.from.doc
        /\ HandOf(job[j]) = HandOf(b) \cup {first.from}
    BY <1>1, RecordLeaves
  <1>3. first.doc \in Documents
    BY <1>2 DEF Note
  <1>4. CausesKept /\ CountsKept /\ Excused \subseteq Excused' /\ first.doc \in Excused'
    BY <1>1, <1>3, CausesAre, Counting DEF CausesKept, Excused
  <1> HIDE DEF b, first
  <1>5. \A d \in Documents : Present(d) = first.from => d \in Excused'
    <2>1. SUFFICES ASSUME NEW d \in Documents, Present(d) = first.from PROVE d \in Excused'
      OBVIOUS
    <2>2. Present(d).doc = d
      BY DEF Present
    <2>3. QED BY <1>2, <1>4, <2>1, <2>2
  <1>6. QED BY <1>1, <1>2, <1>4, <1>5, JobMovesOn

LEMMA WriteKeeps ==
  ASSUME NotesInv, NEW j \in Jobs, Write(j)
  PROVE  NotesInv'
  <1> DEFINE b == [job[j] EXCEPT !.ready = Tail(@)]
             first == Head(job[j].ready)
  <1>1. /\ Set(j, b) /\ job[j].at = "writing" /\ job[j].ready # <<>> /\ first # NoNote
        /\ note' = [note EXCEPT ![first.doc] = first.from]
        /\ UNCHANGED <<rowOf, causes, bounds>>
    BY DEF Write, Answered
  <1>2. /\ InOrder(b) /\ b.at = "writing"
        /\ first \in Note /\ first.doc = first.from.doc
        /\ first.from \in HandOf(job[j])
        /\ HandOf(job[j]) = HandOf(b) \cup {first.from}
    BY <1>1, RecordLeaves
  <1>3. CausesKept /\ CountsKept /\ Excused' = Excused
    BY <1>1, CausesAre, Counting DEF causes, bounds, CausesKept, Excused
  <1> HIDE DEF b, first
  <1>4. first.doc \in Documents /\ first.from \in Fact
    BY <1>2 DEF Note
  <1>5. /\ note \in [Documents -> Fact \cup {NoNote}] /\ note' \in [Documents -> Fact \cup {NoNote}]
        /\ note'[first.doc] = first.from /\ \A d \in Documents \ {first.doc} : note'[d] = note[d]
    BY <1>1, <1>4 DEF NotesInv, NotesTypeOK
  <1>6. first.from = Present(first.doc) \/ first.doc \in Excused
    <2>1. InHand(j) = HandOf(job[j])
      BY HandsOfJobs
    <2>2. first.from.issues # rowOf[first.doc].issues => first.doc \in Excused
      BY <1>2, <2>1 DEF NotesInv, HandsAreCurrent, Outdated, DocsOf
    <2>3. first.from = [doc |-> first.from.doc, issues |-> first.from.issues]
      BY <1>4 DEF Fact
    <2>4. QED BY <1>2, <2>2, <2>3 DEF Present
  <1>7. \A d \in Documents : note'[d] \in {note[d], Present(d)} \/ d \in Excused'
    BY <1>3, <1>5, <1>6
  <1>8. \A d \in Documents : Present(d) \in HandOf(job[j]) =>
          Present(d) \in HandOf(b) \/ note'[d] = Present(d)
    <2>1. SUFFICES ASSUME NEW d \in Documents, Present(d) = first.from PROVE note'[d] = Present(d)
      BY <1>2
    <2>2. Present(d).doc = d
      BY DEF Present
    <2>3. QED BY <1>2, <1>5, <2>1, <2>2
  <1>9. /\ job' \in [Jobs -> Job] /\ \A i \in Jobs : InOrder(job'[i])
        /\ HandsAreCurrent' /\ RowsAreCovered'
    BY <1>1, <1>2, <1>3, <1>7, <1>8, OneJobGoesOn
  <1>10. NotesAreOfTheirDocument'
    BY <1>2, <1>5 DEF NotesInv, NotesAreOfTheirDocument
  <1>11. NotesTypeOK'
    BY <1>1, <1>3, <1>5, <1>9 DEF NotesInv, NotesTypeOK, CausesKept, CountsKept
  <1>12. QED BY <1>9, <1>10, <1>11 DEF NotesInv

LEMMA NextChunkKeeps ==
  ASSUME NotesInv, NEW j \in Jobs, NextChunk(j)
  PROVE  NotesInv'
  <1> DEFINE b == IF job[j].todo = <<>> THEN FreeJob ELSE [job[j] EXCEPT !.at = "asking"]
  <1>1. /\ Set(j, b) /\ job[j].at = "writing" /\ job[j].ready = <<>>
        /\ UNCHANGED <<rowOf, note, causes, bounds>>
    BY DEF NextChunk
  <1>2. InOrder(job[j]) /\ job[j] \in Job
    BY JobsAre
  <1>3. HandOf(job[j]) = Range(job[j].todo)
    BY <1>1, EmptyRange DEF HandOf
  <1>4. InOrder(b) /\ b.at # "listed" /\ HandOf(b) = HandOf(job[j])
    <2>1. CASE job[j].todo = <<>>
      BY <1>3, <2>1, FreeIsInOrder, EmptyRange
    <2>2. CASE job[j].todo # <<>>
      <3> DEFINE c == [job[j] EXCEPT !.at = "asking"]
      <3>1. /\ c \in Job /\ c.at = "asking" /\ c.ready = <<>> /\ c.todo = job[j].todo /\ c.all = job[j].all
        BY <1>1, <1>2 DEF Job
      <3>2. b = c
        BY <2>2
      <3> HIDE DEF b, c
      <3>3. HandOf(c) = HandOf(job[j])
        BY <1>3, <3>1, EmptyRange DEF HandOf
      <3>4. InOrder(c)
        BY <1>2, <2>2, <3>1, <3>3, EmptyRange DEF InOrder
      <3>5. QED BY <3>1, <3>2, <3>3, <3>4
    <2>3. QED BY <2>1, <2>2
  <1>5. CausesKept /\ CountsKept /\ Excused' = Excused
    BY <1>1, CausesAre, Counting DEF causes, bounds, CausesKept, Excused
  <1> HIDE DEF b
  <1>6. QED BY <1>1, <1>4, <1>5, JobMovesOn

LEMMA DieKeeps ==
  ASSUME NotesInv, NEW j \in Jobs, Die(j)
  PROVE  NotesInv'
  <1>1. /\ Set(j, FreeJob) /\ Fault /\ lost' = lost \cup DocsOf(HandOf(job[j]))
        /\ UNCHANGED <<rowOf, note, moved, late, enabled, audits, asks>>
    BY HandsOfJobs DEF Die
  <1>2. CausesKept /\ CountsKept /\ Excused \subseteq Excused' /\ DocsOf(HandOf(job[j])) \subseteq Excused'
    BY <1>1, JobsAre, CausesAre, Counting DEF CausesKept, Excused
  <1>3. \A d \in Documents : Present(d) \in HandOf(job[j]) => d \in Excused'
    <2>1. \A d \in Documents : Present(d).doc = d
      BY DEF Present
    <2>2. QED BY <1>2, <2>1 DEF DocsOf
  <1>4. QED BY <1>1, <1>2, <1>3, FreeIsInOrder, JobMovesOn

LEMMA CrashKeeps ==
  ASSUME NotesInv, NEW j \in Jobs, Crash(j)
  PROVE  NotesInv'
  <1> DEFINE b == StartOf(job[j].all)
             again == Outdated(Range(job[j].all), rowOf)
  <1>1. /\ Set(j, b) /\ job[j].at \in {"asking", "writing"} /\ Fault
        /\ late' = late \cup again
        /\ UNCHANGED <<rowOf, note, lost, moved, enabled, audits, asks>>
    BY DEF Crash, Start, StartOf
  <1>2. InOrder(b) /\ HandOf(b) = Range(job[j].all) /\ b.at # "listed"
    BY JobsAre, StartedInOrder
  <1>3. HandOf(job[j]) \subseteq HandOf(b) /\ HandOf(b) \subseteq Fact
    <2>1. Range(job[j].all) \subseteq Fact
      BY JobsAre, RangeOfFacts
    <2>2. QED BY <1>2, <2>1, JobsAre DEF InOrder
  <1>4. again \subseteq Documents /\ \A f \in HandOf(b) : f.issues = rowOf[f.doc].issues \/ f.doc \in again
    BY <1>2, <1>3 DEF Outdated, DocsOf, Fact
  <1> HIDE DEF b, again
  <1>5. CausesKept /\ CountsKept /\ Excused \subseteq Excused' /\ again \subseteq Excused'
    BY <1>1, <1>4, CausesAre, Counting DEF CausesKept, Excused
  <1>6. QED BY <1>1, <1>2, <1>3, <1>4, <1>5, JobMovesOn

\* The rows a call was asking about go on in the call, the rest in the sweep.
LEMMA TimeOutKeeps ==
  ASSUME NotesInv, NEW j \in Jobs, NEW k \in Jobs, TimeOut(j, k)
  PROVE  NotesInv'
  <1> DEFINE chunk == ChunkOf(j)
             rest == RestOf(j)
             b == IF rest = <<>> THEN FreeJob ELSE [job[j] EXCEPT !.todo = rest]
             c == StartOf(chunk)
  <1>1. /\ job[j].at = "asking" /\ job[k].at = "free" /\ Fault
        /\ UNCHANGED <<rowOf, note, causes, enabled, audits, asks>>
    BY DEF TimeOut, Asking
  <1>2. j # k
    BY <1>1
  <1>3. /\ InOrder(job[j]) /\ job[j] \in Job
        /\ job[j].todo \in Seq(Fact) /\ job[j].todo # <<>> /\ job[j].ready = <<>>
    BY <1>1, JobsAre DEF InOrder
  <1>4. /\ chunk \in Seq(Fact) /\ chunk # <<>> /\ rest \in Seq(Fact)
        /\ Range(job[j].todo) = Range(chunk) \cup Range(rest)
    BY <1>3, Chunked
  <1>5. job' = [job EXCEPT ![j] = b, ![k] = c]
    BY <1>4 DEF TimeOut, StartOf
  <1> HIDE DEF chunk, rest
  <1>6. HandOf(job[j]) = Range(chunk) \cup Range(rest) /\ HandOf(job[k]) = {}
    BY <1>1, <1>3, <1>4, EmptyRange, FreeHoldsNothing DEF HandOf
  <1>7. InOrder(c) /\ HandOf(c) = Range(chunk) /\ c.at # "listed"
    BY <1>4, StartedInOrder
  <1>8. InOrder(b) /\ HandOf(b) = Range(rest) /\ b.at # "listed"
    <2>1. CASE rest = <<>>
      BY <2>1, FreeIsInOrder, EmptyRange
    <2>2. CASE rest # <<>>
      <3> DEFINE d == [job[j] EXCEPT !.todo = rest]
      <3>1. d \in Job /\ d.at = "asking" /\ d.ready = <<>> /\ d.todo = rest /\ d.all = job[j].all
        BY <1>1, <1>3, <1>4 DEF Job
      <3>2. b = d
        BY <2>2
      <3> HIDE DEF b, d
      <3>3. HandOf(d) = Range(rest)
        BY <3>1, EmptyRange DEF HandOf
      <3>4. InOrder(d)
        BY <1>3, <1>6, <2>2, <3>1, <3>3, EmptyRange DEF InOrder
      <3>5. QED BY <3>1, <3>2, <3>3, <3>4
    <2>3. QED BY <2>1, <2>2
  <1> HIDE DEF b, c
  <1>9. /\ job' \in [Jobs -> Job] /\ job'[j] = b /\ job'[k] = c
        /\ \A i \in Jobs \ {j, k} : job'[i] = job[i]
        /\ \A i \in Jobs : InOrder(job'[i])
    <2>1. job \in [Jobs -> Job] /\ \A i \in Jobs : InOrder(job[i])
      BY DEF NotesInv, NotesTypeOK
    <2>2. job' \in [Jobs -> Job] /\ job'[j] = b /\ job'[k] = c /\ \A i \in Jobs \ {j, k} : job'[i] = job[i]
      BY <1>2, <1>5, <1>7, <1>8, <2>1 DEF InOrder
    <2>3. QED BY <1>7, <1>8, <2>1, <2>2
  <1>10. \A i \in Jobs : InHand(i) = HandOf(job[i]) /\ InHand(i)' = HandOf(job'[i])
    BY DEF InHand, HandOf
  <1>11. CausesKept /\ CountsKept /\ Excused' = Excused
    BY <1>1, CausesAre, Counting DEF causes, CausesKept, Excused
  <1>12. \A i \in Jobs : \A f \in InHand(i)' : \E l \in Jobs : f \in InHand(l)
    BY <1>6, <1>7, <1>8, <1>9, <1>10
  <1>13. ASSUME NEW i \in Jobs, NEW d \in Documents, Present(d) \in InHand(i)
         PROVE  \/ job'[i] = job[i]
                \/ \E l \in Jobs : job'[l].at # "listed" /\ Present(d) \in InHand(l)'
    BY <1>6, <1>7, <1>8, <1>9, <1>10, <1>13
  <1>14. HandsAreCurrent' /\ RowsAreCovered'
    <2>1. HandsAreCurrent /\ RowsAreCovered
      BY DEF NotesInv
    <2>2. QED BY <1>1, <1>11, <1>12, <1>13, <2>1, StillCovered
  <1>15. NotesTypeOK' /\ NotesAreOfTheirDocument'
    BY <1>1, <1>9, <1>11 DEF NotesInv, NotesTypeOK, NotesAreOfTheirDocument, CausesKept, CountsKept
  <1>16. QED BY <1>9, <1>14, <1>15 DEF NotesInv

-----------------------------------------------------------------------------
(* The steps of the rows.                                                  *)

\* A full audit: what it flags it has in hand itself, and who held something
\* else about those documents is noted.
LEMMA PersistKeeps ==
  ASSUME NotesInv, NEW j \in Jobs, NEW flags \in [Transactions -> Findings], Persist(j, flags)
  PROVE  NotesInv'
  <1> DEFINE again == {d \in Transactions : flags[d] # {} /\ rowOf[d].at # "closed"}
             listing == {[doc |-> d, issues |-> flags[d]] : d \in {x \in Transactions :
                                         flags[x] # {} /\ rowOf[x].at # "closed"}}
             facts == SetToSeq(listing)
             b == [FreeJob EXCEPT !.at = "persisted", !.all = facts]
             held == UNION {Outdated(InHand(k), rowOf') : k \in Jobs}
  <1>1. /\ job[j].at = "free" /\ Audit /\ rowOf' = Audited(Transactions, flags)
        /\ Set(j, [FreeJob EXCEPT !.at = "persisted", !.all = facts])
        /\ lost' = lost \ again /\ moved' = moved \ again
        /\ late' = (late \ again) \cup (again \cap held)
        /\ UNCHANGED <<note, enabled, asks, faults>>
    BY DEF Persist, Trapped
  <1>2. Transactions \subseteq Documents /\ \A d \in Transactions : flags[d] \in SUBSET IssueTypes
    BY FindingsAssumption DEF Transactions
  <1>3. /\ rowOf' \in [Documents -> [at : {"none", "open", "closed"}, issues : SUBSET IssueTypes]]
        /\ \A d \in again : rowOf'[d].issues = flags[d]
        /\ \A d \in Documents \ again : rowOf'[d] = rowOf[d]
    BY <1>1, <1>2 DEF Audited, NotesInv, NotesTypeOK
  <1>4. listing \subseteq Fact
    BY <1>2 DEF Fact
  <1>5. /\ \A f \in listing : f.issues = rowOf'[f.doc].issues
        /\ \A d \in again : Present(d)' \in listing
    <2>1. \A f \in listing : f.doc \in again /\ f.issues = flags[f.doc]
      OBVIOUS
    <2>2. \A d \in again : [doc |-> d, issues |-> flags[d]] \in listing
      OBVIOUS
    <2>3. \A d \in again : Present(d)' = [doc |-> d, issues |-> flags[d]]
      BY <1>3 DEF Present
    <2> HIDE DEF listing, again
    <2>4. QED BY <1>3, <2>1, <2>2, <2>3
  <1>6. IsFiniteSet(listing)
    <2> DEFINE found == [d \in again |-> [doc |-> d, issues |-> flags[d]]]
    <2>1. IsFiniteSet(again)
      BY <1>2, DocumentsAssumption, FS_Subset
    <2>2. found \in Surjection(again, listing)
      BY DEF Surjection
    <2>3. QED BY <2>1, <2>2, FS_Surjection
  <1> HIDE DEF listing
  <1>7. facts \in Seq(Fact) /\ Range(facts) = listing
    <2>1. facts \in Seq(listing) /\ Range(facts) = listing
      BY <1>6, ListedOnce
    <2>2. QED BY <1>4, <2>1
  <1> HIDE DEF facts
  <1>8. Set(j, b) /\ b \in Job
    BY <1>1, <1>7, FilledJob
  <1>9. b.at = "persisted" /\ b.all = facts /\ b.todo = <<>> /\ b.ready = <<>>
    BY <1>7, FilledJob
  <1> HIDE DEF b
  <1>10. HandOf(b) = listing /\ InOrder(b)
    BY <1>7, <1>8, <1>9, EmptyRange DEF HandOf, InOrder
  <1>11. HandOf(job[j]) = {}
    BY <1>1, FreeHoldsNothing
  <1>12. /\ job' \in [Jobs -> Job] /\ job'[j] = b /\ \A i \in Jobs \ {j} : job'[i] = job[i]
         /\ \A i \in Jobs : InOrder(job'[i])
    <2>1. job \in [Jobs -> Job] /\ \A i \in Jobs : InOrder(job[i])
      BY DEF NotesInv, NotesTypeOK
    <2>2. job' \in [Jobs -> Job] /\ job'[j] = b /\ \A i \in Jobs \ {j} : job'[i] = job[i]
      BY <1>8, <2>1 DEF Set
    <2>3. QED BY <1>10, <2>1, <2>2
  <1>13. \A i \in Jobs : InHand(i) = HandOf(job[i]) /\ InHand(i)' = HandOf(job'[i])
    BY DEF InHand, HandOf
  <1> HIDE DEF again, held
  <1>14. again \subseteq Documents
    BY <1>2 DEF again
  <1>15. HandsAreCurrent'
    <2>1. SUFFICES ASSUME NEW i \in Jobs, NEW f \in InHand(i)', f.issues # rowOf'[f.doc].issues
                   PROVE  f.doc \in Excused'
      BY DEF HandsAreCurrent, Outdated, DocsOf
    <2>2. i # j
      BY <1>5, <1>10, <1>12, <1>13, <2>1
    <2>3. f \in InHand(i) /\ f \in Fact
      BY <1>12, <1>13, <2>1, <2>2, JobsAre
    <2>4. f.doc \in Documents
      BY <2>3 DEF Fact
    <2>5. CASE f.doc \in again
      <3>1. f.doc \in held
        BY <2>1, <2>3 DEF held, Outdated, DocsOf
      <3>2. QED BY <1>1, <2>5, <3>1 DEF Excused
    <2>6. CASE f.doc \notin again
      <3>1. f.issues # rowOf[f.doc].issues
        BY <1>3, <2>1, <2>4, <2>6
      <3>2. f.doc \in Excused
        BY <2>3, <3>1 DEF NotesInv, HandsAreCurrent, Outdated, DocsOf
      <3>3. QED BY <1>1, <2>6, <3>2 DEF Excused
    <2>7. QED BY <2>5, <2>6
  <1>16. RowsAreCovered'
    <2>1. SUFFICES ASSUME NEW d \in Documents, rowOf'[d].at # "none", d \notin Excused', note'[d] # Present(d)'
                   PROVE  Pending(d)' \/ Listed(d)'
      BY DEF RowsAreCovered
    <2>2. CASE d \in again
      <3>1. job'[j].at # "listed" /\ Present(d)' \in InHand(j)'
        BY <1>5, <1>9, <1>10, <1>12, <1>13, <2>2
      <3>2. QED BY <3>1 DEF Pending
    <2>3. CASE d \notin again
      <3>1. rowOf'[d] = rowOf[d] /\ Present(d)' = Present(d) /\ note'[d] = note[d] /\ d \notin Excused
        BY <1>1, <1>3, <2>1, <2>3 DEF Present, Excused
      <3>2. Pending(d) \/ Listed(d)
        BY <2>1, <3>1 DEF NotesInv, RowsAreCovered
      <3>3. \A i \in Jobs : Present(d) \in InHand(i) => i # j /\ job'[i] = job[i] /\ Present(d)' \in InHand(i)'
        BY <1>11, <1>12, <1>13, <3>1
      <3>4. QED BY <3>1, <3>2, <3>3 DEF Pending, Listed
    <2>4. QED BY <2>2, <2>3
  <1>17. NotesTypeOK' /\ NotesAreOfTheirDocument'
    <2>1. CausesKept /\ CountsKept
      BY <1>1, <1>14, CausesAre, Counting DEF CausesKept
    <2>2. QED BY <1>1, <1>3, <1>12, <2>1 DEF NotesInv, NotesTypeOK, NotesAreOfTheirDocument, CausesKept, CountsKept
  <1>18. QED BY <1>12, <1>15, <1>16, <1>17 DEF NotesInv

\* The jobs stay as they are, and rows change only where that is noted.
LEMMA RowsMoveOn ==
  ASSUME NotesInv, UNCHANGED <<note, job>>, CausesKept, CountsKept, Excused \subseteq Excused',
         rowOf' \in [Documents -> [at : {"none", "open", "closed"}, issues : SUBSET IssueTypes]],
         \A d \in Documents : d \notin Excused' =>
           rowOf'[d].issues = rowOf[d].issues /\ (rowOf[d].at = "none" => rowOf'[d].at = "none")
  PROVE  NotesInv'
  <1>1. \A i \in Jobs : InHand(i)' = InHand(i) /\ InHand(i) \subseteq Fact
    BY JobsAre, HandsOfJobs DEF InHand
  <1>2. HandsAreCurrent'
    <2>1. SUFFICES ASSUME NEW i \in Jobs, NEW f \in InHand(i), f.issues # rowOf'[f.doc].issues, f.doc \notin Excused'
                   PROVE  FALSE
      BY <1>1 DEF HandsAreCurrent, Outdated, DocsOf
    <2>2. f.doc \in Documents
      BY <1>1 DEF Fact
    <2>3. f.issues # rowOf[f.doc].issues
      BY <2>1, <2>2
    <2>4. QED BY <2>1, <2>3 DEF NotesInv, HandsAreCurrent, Outdated, DocsOf
  <1>3. RowsAreCovered'
    <2>1. SUFFICES ASSUME NEW d \in Documents, rowOf'[d].at # "none", d \notin Excused', note'[d] # Present(d)'
                   PROVE  Pending(d)' \/ Listed(d)'
      BY DEF RowsAreCovered
    <2>2. rowOf[d].at # "none" /\ Present(d)' = Present(d) /\ note'[d] = note[d] /\ d \notin Excused
      BY <2>1 DEF Present
    <2>3. Pending(d) \/ Listed(d)
      BY <2>1, <2>2 DEF NotesInv, RowsAreCovered
    <2>4. QED BY <1>1, <2>2, <2>3 DEF Pending, Listed
  <1>4. NotesTypeOK' /\ NotesAreOfTheirDocument' /\ \A j \in Jobs : InOrder(job'[j])
    BY DEF NotesInv, NotesTypeOK, NotesAreOfTheirDocument, CausesKept, CountsKept
  <1>5. QED BY <1>2, <1>3, <1>4 DEF NotesInv

LEMMA PersistApartKeeps ==
  ASSUME NotesInv, NEW j \in Jobs, NEW flags \in [Apart -> Findings], PersistApart(j, flags)
  PROVE  NotesInv'
  <1>1. /\ rowOf' = Audited(Apart, flags)
        /\ moved' = moved \cup {d \in Apart : rowOf'[d] # rowOf[d]}
        /\ UNCHANGED <<note, job, lost, late, enabled, audits, asks, faults>>
    BY DEF PersistApart, bounds
  <1>2. \A d \in Apart : flags[d] \in SUBSET IssueTypes
    BY FindingsAssumption
  <1>3. /\ rowOf' \in [Documents -> [at : {"none", "open", "closed"}, issues : SUBSET IssueTypes]]
        /\ \A d \in Documents \ Apart : rowOf'[d] = rowOf[d]
    BY <1>1, <1>2 DEF Audited, NotesInv, NotesTypeOK
  <1>4. CausesKept /\ CountsKept /\ Excused \subseteq Excused'
    BY <1>1, ApartAssumption, CausesAre, Counting DEF CausesKept, Excused
  <1>5. \A d \in Documents : d \notin Excused' => rowOf'[d] = rowOf[d]
    BY <1>1, <1>3 DEF Excused
  <1>6. QED BY <1>1, <1>3, <1>4, <1>5, RowsMoveOn

LEMMA DismissContactKeeps ==
  ASSUME NotesInv, NEW d \in Documents, NEW issue \in IssueTypes, DismissContact(d, issue)
  PROVE  NotesInv'
  <1>1. /\ rowOf' = [rowOf EXCEPT ![d] = [at |-> "closed", issues |-> {issue}]]
        /\ moved' = moved \cup {d}
        /\ UNCHANGED <<note, job, lost, late, enabled, audits, asks, faults>>
    BY DEF DismissContact, bounds
  <1>2. /\ rowOf' \in [Documents -> [at : {"none", "open", "closed"}, issues : SUBSET IssueTypes]]
        /\ \A x \in Documents \ {d} : rowOf'[x] = rowOf[x]
    BY <1>1 DEF NotesInv, NotesTypeOK
  <1>3. CausesKept /\ CountsKept /\ Excused \subseteq Excused' /\ d \in Excused'
    BY <1>1, CausesAre, Counting DEF CausesKept, Excused
  <1>4. QED BY <1>1, <1>2, <1>3, RowsMoveOn

LEMMA PersistScopedKeeps ==
  ASSUME NotesInv, NEW found \in SUBSET Transactions, NEW gone \in SUBSET Transactions, PersistScoped(found, gone)
  PROVE  NotesInv'
  <1>1. /\ Audit /\ rowOf' = Scoped(found, gone)
        /\ moved' = moved \cup {d \in Documents : rowOf'[d] # rowOf[d]}
        /\ UNCHANGED <<note, job, lost, late, enabled, asks, faults>>
    BY DEF PersistScoped
  <1>2. rowOf' \in [Documents -> [at : {"none", "open", "closed"}, issues : SUBSET IssueTypes]]
    BY <1>1, DuplicateAssumption DEF Scoped, NotesInv, NotesTypeOK
  <1>3. CausesKept /\ CountsKept /\ Excused \subseteq Excused'
    BY <1>1, CausesAre, Counting DEF CausesKept, Excused
  <1>4. \A d \in Documents : d \notin Excused' => rowOf'[d] = rowOf[d]
    BY <1>1 DEF Excused
  <1>5. QED BY <1>1, <1>2, <1>3, <1>4, RowsMoveOn

LEMMA UserKeeps ==
  ASSUME NotesInv, NEW d \in Documents, Close(d) \/ Restore(d)
  PROVE  NotesInv'
  <1>1. PICK at \in {"open", "closed"} : rowOf' = [rowOf EXCEPT ![d].at = at]
    BY DEF Close, Restore
  <1>2. rowOf[d].at # "none" /\ UNCHANGED <<note, job, causes, bounds>>
    BY DEF Close, Restore
  <1>3. rowOf' \in [Documents -> [at : {"none", "open", "closed"}, issues : SUBSET IssueTypes]]
    BY <1>1 DEF NotesInv, NotesTypeOK
  <1>4. CausesKept /\ CountsKept /\ Excused' = Excused
    BY <1>2, CausesAre, Counting DEF causes, bounds, CausesKept, Excused
  <1>5. \A x \in Documents : rowOf'[x].issues = rowOf[x].issues /\ (rowOf[x].at = "none" => rowOf'[x].at = "none")
    BY <1>1, <1>2 DEF NotesInv, NotesTypeOK
  <1>6. QED BY <1>2, <1>3, <1>4, <1>5, RowsMoveOn

-----------------------------------------------------------------------------
LEMMA NotesInvInit == NotesInit => NotesInv
  <1> SUFFICES ASSUME NotesInit PROVE NotesInv
    OBVIOUS
  <1>1. \A j \in Jobs : job[j] = FreeJob
    BY DEF NotesInit
  <1>2. \A j \in Jobs : InOrder(job[j]) /\ InHand(j) = {}
    BY <1>1, FreeIsInOrder, HandsOfJobs
  <1>3. NotesTypeOK
    <2>1. FreeJob \in Job
      BY FreeIsInOrder DEF InOrder
    <2>2. QED BY <2>1, JobBoundAssumption DEF NotesInit, NotesTypeOK, NoRow
  <1>4. NotesAreOfTheirDocument /\ RowsAreCovered
    BY DEF NotesInit, NotesAreOfTheirDocument, RowsAreCovered, NoRow
  <1>5. HandsAreCurrent
    BY <1>2 DEF HandsAreCurrent, Outdated, DocsOf
  <1>6. QED BY <1>2, <1>3, <1>4, <1>5 DEF NotesInv

LEMMA NotesInvNext == NotesInv /\ [NotesNext]_notesVars => NotesInv'
  <1> SUFFICES ASSUME NotesInv, [NotesNext]_notesVars
               PROVE  NotesInv'
    OBVIOUS
  <1>1. ASSUME NEW j \in Jobs, Proceed(j)
        PROVE  NotesInv'
    BY <1>1, PrewarmKeeps, NoPrewarmKeeps, SweepSelectKeeps, TurnedAwayKeeps, AnswerKeeps, WriteKeeps, SkipKeeps,
       NextChunkKeeps DEF Proceed
  <1>2. ASSUME NEW j \in Jobs,
               \/ WriteFails(j) \/ Die(j) \/ Crash(j)
               \/ SweepList(j) \/ SweepSelectsAll(j) \/ \E k \in Jobs : TimeOut(j, k)
               \/ \E flags \in [Transactions -> Findings] : Persist(j, flags)
               \/ \E flags \in [Apart -> Findings] : PersistApart(j, flags)
               \/ \E d \in Documents : Open(j, d)
        PROVE  NotesInv'
    BY <1>2, WriteFailsKeeps, DieKeeps, CrashKeeps, SweepListKeeps, SweepSelectsAllKeeps, TimeOutKeeps,
       PersistKeeps, PersistApartKeeps, OpenKeeps
  <1>3. CASE \E found \in SUBSET Transactions, gone \in SUBSET Transactions : PersistScoped(found, gone)
    BY <1>3, PersistScopedKeeps
  <1>4. CASE \E d \in Documents :
               Close(d) \/ Restore(d) \/ \E issue \in IssueTypes : DismissContact(d, issue)
    BY <1>4, UserKeeps, DismissContactKeeps
  <1>5. CASE UNCHANGED notesVars
    <2>1. UNCHANGED <<rowOf, note, job, causes, bounds>>
      BY <1>5 DEF notesVars, causes, bounds
    <2>2. CausesKept /\ CountsKept /\ Excused' = Excused
      BY <2>1, CausesAre, Counting DEF causes, bounds, CausesKept, Excused
    <2>3. rowOf \in [Documents -> [at : {"none", "open", "closed"}, issues : SUBSET IssueTypes]]
      BY DEF NotesInv, NotesTypeOK
    <2>4. QED BY <2>1, <2>2, <2>3, RowsMoveOn
  <1>6. QED BY <1>1, <1>2, <1>3, <1>4, <1>5 DEF NotesNext

\* The rows, the notes and the jobs keep their types.
THEOREM NotesTypeCorrect == NotesSpec => []NotesTypeOK
  <1>1. NotesInv => NotesTypeOK
    BY DEF NotesInv
  <1>2. QED BY <1>1, NotesInvInit, NotesInvNext, PTL DEF NotesSpec

\* A note is about the document it is shown with, whatever the order of the
\* answers, whichever are missing and whatever fails or is redelivered
\* (insight_service.py, by_id; tasks.py, by_id).
THEOREM NotesOfTheirDocument == NotesSpec => []NotesAreOfTheirDocument
  <1>1. NotesInv => NotesAreOfTheirDocument
    BY DEF NotesInv
  <1>2. QED BY <1>1, NotesInvInit, NotesInvNext, PTL DEF NotesSpec

\* An open row has a note about its present issues or one is coming, unless
\* something for it was lost, its issues changed with no prewarm to follow, or
\* another job held older issues when it was written.
THEOREM NotesUpToDate == NotesSpec => []NotesAreUpToDate
  <1>1. NotesInv => NotesAreUpToDate
    BY CoveredAreUpToDate DEF NotesInv
  <1>2. QED BY <1>1, NotesInvInit, NotesInvNext, PTL DEF NotesSpec
=============================================================================
