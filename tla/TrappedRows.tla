---------------------------- MODULE TrappedRows ----------------------------
(***************************************************************************)
(* The life of the health_check_result rows of one company: the rows that  *)
(* make up the issue feed.                                                 *)
(*                                                                         *)
(* Two kinds of process write them.  A worker runs historical_audit_task,  *)
(* which evaluates documents, upserts a row per flagged document and       *)
(* auto-clears the rows it no longer flags, in five database transactions. *)
(* A user request resolves, dismisses, snoozes, accepts or restores a row. *)
(* Both read a row and later write back its whole JSON result, computed    *)
(* from what they read, so the step that writes is apart from the step     *)
(* that reads; seen[p] is what session p holds of each row in between.     *)
(* Postgres runs READ COMMITTED: a SELECT sees what is committed at that   *)
(* moment, and the writes of a transaction appear at its commit.           *)
(***************************************************************************)
EXTENDS Naturals, FiniteSets

CONSTANTS
  Docs,          \* Xero documents: transactions, contacts and accounts
  KindOf,        \* the kind of each document
  IssuesOf,      \* the issue types the checks can raise on each document
  DupIssues,     \* _DUP_ISSUE_TYPES: what a "duplicates" run evaluates
  ContactRule,   \* the contact_defaults issue type
  Rows,          \* primary keys the table may use (bounds the table)
  Workers,       \* Celery processes that may run an audit of this company
  Users,         \* HTTP requests that may be in progress at the same time
  MaxRuns,       \* bound: audits started in a behaviour
  MaxRequests,   \* bound: user requests started in a behaviour
  MaxSkipped,    \* bound: documents of one audit in rules chunks that raise
  None           \* no row, no request

Kinds == {"transaction", "contact", "account"}

ASSUME KindAssumption == KindOf \in [Docs -> Kinds]
ASSUME BoundAssumption == MaxRuns \in Nat /\ MaxRequests \in Nat
ASSUME ProcessAssumption == Workers \cap Users = {}

Issues == UNION {IssuesOf[d] : d \in Docs}

ASSUME IssueAssumption ==
  \A d \in Docs : KindOf[d] = "contact" => ContactRule \in IssuesOf[d]

(***************************************************************************)
(* The flags the code keeps inside result next to the flagged issues.      *)
(***************************************************************************)
EndStates == {"resolved", "dismissed", "marked_ok"}
HideMarks == {"dismissed", "marked_ok", "snoozed"}
Marks == EndStates \cup {"snoozed", "auto_cleared"}

Row == [doc : Docs, flagged : SUBSET Issues, marks : SUBSET Marks]

\* "attach" is the attachment re-check or upload, which resolves the row.
RowOps == {"resolve", "attach", "dismiss", "snooze", "mark_ok", "restore"}
BulkOps == RowOps \ {"resolve", "attach"}
ContactOps == {"dismiss_contact", "reinstate_contact"}

Request == [op : RowOps \cup ContactOps, doc : Docs, row : Rows \cup {None}]

ASSUME NoneAssumption == None \notin Rows \cup Row \cup Request \cup Workers

(***************************************************************************)
(* An audit writes in five transactions, one after the other.              *)
(***************************************************************************)
PersistStages == {"transaction", "contact", "account"}
ClearStages == {"clear_account", "clear"}
Stages == {"idle"} \cup PersistStages \cup ClearStages

NextStage == [transaction   |-> "contact",
              contact       |-> "account",
              account       |-> "clear_account",
              clear_account |-> "clear",
              clear         |-> "idle"]

Scopes == {"full", "duplicates"}

Plan == [scope     : Scopes,
         evaluated : SUBSET Docs,              \* transactions_by_id, contacts, accounts
         checked   : SUBSET Docs,              \* those no failed rules chunk skipped
         found     : [Docs -> SUBSET Issues]]  \* what the checks flagged

VARIABLES
  rows,      \* the table
  stage,     \* stage[w]: the transaction the audit of w is in
  plan,      \* plan[w]: what that audit evaluated and flagged
  todo,      \* todo[w]: documents whose rows it still has to SELECT
  missing,   \* missing[w]: documents whose SELECT found no row: to be inserted
  request,   \* request[u]: the row operation of user session u
  seen,      \* seen[p]: the rows session p has loaded, as it loaded them
  runs,      \* audits started
  requests,  \* user requests started
  touched    \* touched[w]: rows another session committed during the audit of w
             \* (an observer: no action reads it)

vars == <<rows, stage, plan, todo, missing, request, seen, runs, requests, touched>>
auditVars == <<stage, plan, todo, missing>>

Sessions == Workers \cup Users
NothingSeen == [r \in Rows |-> None]
NoPlan == [scope |-> "full", evaluated |-> {}, checked |-> {},
           found |-> [d \in Docs |-> {}]]

TypeOK ==
  /\ rows \in [Rows -> Row \cup {None}]
  /\ stage \in [Workers -> Stages]
  /\ plan \in [Workers -> Plan]
  /\ todo \in [Workers -> SUBSET Docs]
  /\ missing \in [Workers -> SUBSET Docs]
  /\ request \in [Users -> Request \cup {None}]
  /\ seen \in [Sessions -> [Rows -> Row \cup {None}]]
  /\ runs \in 0 .. MaxRuns
  /\ requests \in 0 .. MaxRequests
  /\ touched \in [Workers -> SUBSET Rows]

Init ==
  /\ rows = NothingSeen
  /\ stage = [w \in Workers |-> "idle"]
  /\ plan = [w \in Workers |-> NoPlan]
  /\ todo = [w \in Workers |-> {}]
  /\ missing = [w \in Workers |-> {}]
  /\ request = [u \in Users |-> None]
  /\ seen = [p \in Sessions |-> NothingSeen]
  /\ runs = 0
  /\ requests = 0
  /\ touched = [w \in Workers |-> {}]

-----------------------------------------------------------------------------
(***************************************************************************)
(* Rows.                                                                   *)
(***************************************************************************)
Used == {r \in Rows : rows[r] # None}
Free == {r \in Rows : rows[r] = None}
RowsFor(d) == {r \in Used : rows[r].doc = d}
Decided(row) == row.marks \cap EndStates # {}

(* _open_row_filters with both toggles off: the row is in the feed. *)
Visible(row) == row.marks = {}

\* Every commit reports the rows it changed to the observers of other audits.
Commit(p) ==
  touched' = [w \in Workers |->
                IF stage'[w] = "idle" THEN {}
                ELSE IF w = p THEN touched[w]
                ELSE touched[w] \cup {r \in Rows : rows'[r] # rows[r]}]

-----------------------------------------------------------------------------
(***************************************************************************)
(* The audit.                                                              *)
(***************************************************************************)
OfKind(k) == {d \in Docs : KindOf[d] = k}
Flagged(p) == {d \in Docs : p.found[d] # {}}

\* Documents this run evaluated and no longer flags.
StaleUnscoped(p) == Docs \ Flagged(p)                \* slip: not scoped to the fetch
Stale(p) == p.evaluated \ Flagged(p)

(* The documents whose rows a stage SELECTs.                               *)
Work(p, s) ==
  CASE s \in PersistStages -> Flagged(p) \cap OfKind(s)
    [] s = "clear_account" -> Stale(p) \cap OfKind("account")
    [] s = "clear"         -> Stale(p) \ OfKind("account")
    [] s = "idle"          -> {}

\* Leave the current transaction for stage s with the session's identity map empty.
Enter(w, s, p) ==
  /\ stage' = [stage EXCEPT ![w] = s]
  /\ plan' = [plan EXCEPT ![w] = IF s = "idle" THEN NoPlan ELSE p]
  /\ todo' = [todo EXCEPT ![w] = Work(p, s)]
  /\ missing' = [missing EXCEPT ![w] = {}]
  /\ seen' = [seen EXCEPT ![w] = NothingSeen]

(* What a run can decide before it opens its first transaction on the      *)
(* rows: it fetches the ledger, runs the rules in chunks and reads the     *)
(* contact and accrual checks.  A chunk that raises is skipped, so         *)
(* evaluated transactions outside `checked` come out unflagged.  Contacts  *)
(* and accounts are flagged by full runs only; the accrual check covers    *)
(* every account of the company, or none when its rule is disabled.        *)
Raisable == {flag \in Docs \X Issues : flag[2] \in IssuesOf[flag[1]]}
FlagsPerDocument(flags) == [d \in Docs |-> {i \in Issues : <<d, i>> \in flags}]

Drafts == {[scope |-> sc, evaluated |-> e, checked |-> c, found |-> FlagsPerDocument(flags)] :
             sc \in Scopes, e \in SUBSET Docs, c \in SUBSET Docs, flags \in SUBSET Raisable}

Outcomes ==
  {p \in Drafts :
     /\ p.checked \subseteq p.evaluated
     /\ p.evaluated \ p.checked \subseteq OfKind("transaction")
     /\ Cardinality(p.evaluated \ p.checked) <= MaxSkipped
     /\ p.evaluated \cap OfKind("account") \in {{}, OfKind("account")}
     /\ Flagged(p) \subseteq p.checked
     /\ p.scope = "duplicates" =>
          /\ p.evaluated \cap OfKind("account") = {}
          /\ Flagged(p) \subseteq OfKind("transaction")
          /\ \A d \in Docs : p.found[d] \subseteq DupIssues}

Evaluate(w) ==
  /\ stage[w] = "idle"
  /\ runs < MaxRuns
  /\ \E p \in Outcomes : Enter(w, "transaction", p)
  /\ runs' = runs + 1
  /\ touched' = [touched EXCEPT ![w] = {}]
  /\ UNCHANGED <<rows, request, requests>>

(* SELECT ... WHERE document_id = d ... LIMIT 1: one document at a time,   *)
(* without a lock; with several rows for d the database picks one.         *)
CandidatesInFeed(d) == {r \in RowsFor(d) : Visible(rows[r])}  \* slip: hidden rows overlooked
Candidates(d) == RowsFor(d)

SelectDocument(w, d) ==
  /\ stage[w] \in PersistStages
  /\ d \in todo[w]
  /\ todo' = [todo EXCEPT ![w] = @ \ {d}]
  /\ \/ /\ Candidates(d) = {}
        /\ missing' = [missing EXCEPT ![w] = @ \cup {d}]
        /\ seen' = seen
     \/ \E r \in Candidates(d) :
          /\ seen' = [seen EXCEPT ![w][r] = rows[r]]
          /\ missing' = missing
  /\ UNCHANGED <<rows, stage, plan, request, runs, requests, touched>>

(* Explicit user end states are respected.                                 *)
RescorableAny(row) == TRUE                                   \* slip: guard dropped
Rescorable(row) == row.marks \cap EndStates = {}

(* The new result of a loaded row: the flags of this run (a duplicates run *)
(* keeps the flags of the types it did not evaluate) and none of the marks *)
(* the row carried, a snooze or an earlier auto-clear included.            *)
RescoreUnmerged(row, p) == [row EXCEPT !.flagged = p.found[row.doc], !.marks = {}]
RescoreKeepingMarks(row, p) ==                \* slip: result updated, not replaced
  [row EXCEPT !.flagged = p.found[row.doc]
                \cup IF p.scope = "full" THEN {} ELSE row.flagged \ DupIssues]
Rescore(row, p) ==
  [row EXCEPT !.flagged = p.found[row.doc]
                \cup IF p.scope = "full" THEN {} ELSE row.flagged \ DupIssues,
              !.marks = {}]

NewRow(d, p) == [doc |-> d, flagged |-> p.found[d], marks |-> {}]

(* flush and commit: the loaded rows are overwritten, the missing ones     *)
(* inserted under fresh keys.                                              *)
PersistCommit(w) ==
  /\ stage[w] \in PersistStages
  /\ todo[w] = {}
  /\ \E key \in [missing[w] -> Free] :
       /\ \A d, e \in missing[w] : key[d] = key[e] => d = e
       /\ rows' = [r \in Rows |->
            IF \E d \in missing[w] : key[d] = r
              THEN NewRow(CHOOSE d \in missing[w] : key[d] = r, plan[w])
            ELSE IF seen[w][r] # None /\ Rescorable(seen[w][r])
              THEN Rescore(seen[w][r], plan[w])
            ELSE rows[r]]
  /\ Enter(w, NextStage[stage[w]], plan[w])
  /\ Commit(w)
  /\ UNCHANGED <<request, runs, requests>>

(* _auto_clear_stale and _reconcile_stale_duplicates: one SELECT of every  *)
(* row of the stale documents, then the stamp on what was loaded.          *)
SelectStale(w) ==
  /\ stage[w] \in ClearStages
  /\ todo[w] # {}
  /\ todo' = [todo EXCEPT ![w] = {}]
  /\ seen' = [seen EXCEPT ![w] =
       [r \in Rows |-> IF rows[r] # None /\ rows[r].doc \in todo[w]
                       THEN rows[r] ELSE None]]
  /\ UNCHANGED <<rows, stage, plan, missing, request, runs, requests, touched>>

Clearable(row, p) ==
  /\ row.marks \cap (EndStates \cup {"auto_cleared"}) = {}
  /\ p.scope = "duplicates" => row.flagged \cap DupIssues # {}

\* A full run, or a row that holds nothing but duplicates, clears the whole
\* row; a duplicates run only strips the duplicate flags from the others.
ClearedRow(row, p) ==
  IF p.scope = "full" \/ row.flagged \subseteq DupIssues
  THEN [row EXCEPT !.marks = @ \cup {"auto_cleared"}]
  ELSE [row EXCEPT !.flagged = @ \ DupIssues]

ClearCommit(w) ==
  /\ stage[w] \in ClearStages
  /\ todo[w] = {}
  /\ rows' = [r \in Rows |->
       IF seen[w][r] # None /\ Clearable(seen[w][r], plan[w])
       THEN ClearedRow(seen[w][r], plan[w]) ELSE rows[r]]
  /\ Enter(w, NextStage[stage[w]], plan[w])
  /\ Commit(w)
  /\ UNCHANGED <<request, runs, requests>>

(* An exception, a time limit or a crash between two commits: the open     *)
(* transaction is rolled back, the committed ones stay.                    *)
AuditFails(w) ==
  /\ stage[w] # "idle"
  /\ Enter(w, "idle", NoPlan)
  /\ touched' = [touched EXCEPT ![w] = {}]
  /\ UNCHANGED <<rows, request, runs, requests>>

-----------------------------------------------------------------------------
(***************************************************************************)
(* User requests.                                                          *)
(***************************************************************************)
Apply(op, row) ==
  CASE op \in {"resolve", "attach"} -> [row EXCEPT !.marks = @ \cup {"resolved"}]
    [] op = "dismiss"           -> [row EXCEPT !.marks = @ \cup {"dismissed"}]
    [] op = "snooze"            -> [row EXCEPT !.marks = @ \cup {"snoozed"}]
    [] op = "mark_ok"           -> [row EXCEPT !.marks = @ \cup {"marked_ok"}]
    [] op = "restore"           -> [row EXCEPT !.marks = @ \ HideMarks]
    [] op = "dismiss_contact"   -> [row EXCEPT !.marks = @ \cup {"dismissed"}]
    [] op = "reinstate_contact" -> [row EXCEPT !.marks = @ \ {"dismissed"}]

(* find_by_id puts the row in the session's identity map; the later SELECT *)
(* FOR UPDATE waits for the row lock but does not refresh a loaded object, *)
(* so the mark is added to this copy.  A resolve (or void, or credit note) *)
(* of a resolved row ends here; the others do not look at the marks.       *)
BeginRequest(u, op, r) ==
  /\ request[u] = None
  /\ requests < MaxRequests
  /\ rows[r] # None
  /\ op = "resolve" => "resolved" \notin rows[r].marks
  /\ request' = [request EXCEPT ![u] = [op |-> op, doc |-> rows[r].doc, row |-> r]]
  /\ seen' = [seen EXCEPT ![u][r] = rows[r]]
  /\ requests' = requests + 1
  /\ UNCHANGED <<rows, auditVars, runs, touched>>

\* ContactDefaultsService looks for a row of the contact that lists its rule.
DefaultsRows(d) == {r \in RowsFor(d) : ContactRule \in rows[r].flagged}

BeginContactRequest(u, op, d) ==
  /\ request[u] = None
  /\ requests < MaxRequests
  /\ KindOf[d] = "contact"
  /\ \/ \E r \in DefaultsRows(d) :
          /\ request' = [request EXCEPT ![u] = [op |-> op, doc |-> d, row |-> r]]
          /\ seen' = [seen EXCEPT ![u][r] = rows[r]]
     \/ /\ DefaultsRows(d) = {}
        /\ op = "dismiss_contact"
        /\ request' = [request EXCEPT ![u] = [op |-> op, doc |-> d, row |-> None]]
        /\ seen' = seen
  /\ requests' = requests + 1
  /\ UNCHANGED <<rows, auditVars, runs, touched>>

EndRequest(u) ==
  /\ request' = [request EXCEPT ![u] = None]
  /\ seen' = [seen EXCEPT ![u] = NothingSeen]

\* A result equal to the loaded one is not written: the flush emits no UPDATE.
CommitRequest(u) ==
  /\ request[u] # None
  /\ request[u].row # None
  /\ LET r == request[u].row
         new == Apply(request[u].op, seen[u][r])
     IN  \/ rows' = [rows EXCEPT ![r] = new]
         \/ new = seen[u][r] /\ rows' = rows
  /\ EndRequest(u)
  /\ UNCHANGED <<auditVars, runs, requests>>
  /\ Commit(u)

\* dismiss of a contact no audit flagged for its defaults: a minimal row.
InsertDismissed(u) ==
  /\ request[u] # None
  /\ request[u].row = None
  /\ \E r \in Free :
       rows' = [rows EXCEPT ![r] = [doc |-> request[u].doc, flagged |-> {ContactRule},
                                    marks |-> {"dismissed"}]]
  /\ EndRequest(u)
  /\ UNCHANGED <<auditVars, runs, requests>>
  /\ Commit(u)

\* Xero refused the write of a resolve, or the request died before its commit.
AbandonRequest(u) ==
  /\ request[u] # None
  /\ EndRequest(u)
  /\ UNCHANGED <<rows, auditVars, runs, requests, touched>>

(* bulk locks each row before it first loads it and holds the locks until  *)
(* its one commit, so it works on current rows.                            *)
Bulk(op, chosen) ==
  /\ requests < MaxRequests
  /\ chosen # {}
  /\ rows' = [r \in Rows |-> IF r \in chosen THEN Apply(op, rows[r]) ELSE rows[r]]
  /\ requests' = requests + 1
  /\ UNCHANGED <<auditVars, request, seen, runs>>
  /\ Commit(None)

-----------------------------------------------------------------------------
Next ==
  \/ \E w \in Workers :
       \/ Evaluate(w)
       \/ \E d \in Docs : SelectDocument(w, d)
       \/ PersistCommit(w)
       \/ SelectStale(w)
       \/ ClearCommit(w)
       \/ AuditFails(w)
  \/ \E u \in Users :
       \/ \E op \in RowOps, r \in Rows : BeginRequest(u, op, r)
       \/ \E op \in ContactOps, d \in Docs : BeginContactRequest(u, op, d)
       \/ CommitRequest(u)
       \/ InsertDismissed(u)
       \/ AbandonRequest(u)
  \/ \E op \in BulkOps, chosen \in SUBSET Used : Bulk(op, chosen)

Spec == Init /\ [][Next]_vars

-----------------------------------------------------------------------------
(***************************************************************************)
(* Properties.                                                             *)
(***************************************************************************)

(* What every session relies on: a row it holds still exists and is of the *)
(* same document, and a request without a row is a contact dismissal.      *)
SessionsAgree ==
  /\ \A p \in Sessions, r \in Rows :
       seen[p][r] # None => rows[r] # None /\ rows[r].doc = seen[p][r].doc
  /\ \A u \in Users :
       request[u] # None =>
         IF request[u].row = None THEN KindOf[request[u].doc] = "contact"
         ELSE seen[u][request[u].row] # None

(* An audit gives a document a second row only when every row the document *)
(* has was written by somebody else while that audit ran: the SELECT finds *)
(* the row of an earlier run whatever its marks and whatever cleared or    *)
(* snoozed it.  Nothing in the schema stops two overlapping audits from    *)
(* inserting one each.                                                     *)
NewRowsFor(d) == {r \in Free : rows'[r] # None /\ rows'[r].doc = d}

SecondRowNeedsOverlap ==
  [][\A w \in Workers, d \in Docs :
       stage'[w] # stage[w] /\ NewRowsFor(d) # {} => RowsFor(d) \subseteq touched[w]]_vars

(* One row per document, contacts included: what WORKFLOW.md says.         *)
OneRowPerDocument ==
  \A r, q \in Used : rows[r].doc = rows[q].doc => r = q

\* The step commits session p, and p had loaded r before r last changed.
WroteStale(p, r) == seen'[p] # seen[p] /\ seen[p][r] # None /\ seen[p][r] # rows[r]

\* The end states row r loses in this step.
EndStatesLost(r) == (rows[r].marks \cap EndStates) \ rows'[r].marks

(* The only way a decision of a user disappears without the user taking it *)
(* back is a write of a stale copy: an audit never overwrites an end state *)
(* it has seen, and no operation at all removes "resolved".                *)
OnlyStaleCopiesLoseDecisions ==
  [][\A r \in Used :
       /\ "resolved" \in EndStatesLost(r) => \E p \in Sessions : WroteStale(p, r)
       /\ \A w \in Workers :
            seen'[w] # seen[w] /\ EndStatesLost(r) # {} => WroteStale(w, r)]_vars

(* What the comment in _persist_trapped promises without that exception:   *)
(* nothing a user resolved, dismissed or accepted is re-scored by an audit.*)
AuditsKeepDecisions ==
  [][\A r \in Used, w \in Workers : seen'[w] # seen[w] => EndStatesLost(r) = {}]_vars

\* Row r gets its auto_cleared stamp in this step.
Clears(r) == "auto_cleared" \in rows'[r].marks \ rows[r].marks

(* A run hides a row only if it evaluated the document and did not flag    *)
(* it, so a partial fetch or a period filter hides nothing else.           *)
ClearsOnlyWhatItFetched ==
  [][\A w \in Workers, r \in Used :
       stage'[w] # stage[w] /\ Clears(r) =>
         /\ plan[w].found[rows[r].doc] = {}
         /\ rows[r].doc \in plan[w].evaluated]_vars

(* The stronger promise of _auto_clear_stale: documents not re-checked     *)
(* this run are never touched.                                             *)
ClearsOnlyWhatItChecked ==
  [][\A w \in Workers, r \in Used :
       stage'[w] # stage[w] /\ Clears(r) =>
         rows[r].doc \in plan[w].checked]_vars

(* A duplicates run, working on a row that is still as it loaded it,       *)
(* neither drops nor hides an issue of a type it did not evaluate.         *)
ScopedRunKeepsOtherIssues ==
  [][\A w \in Workers, r \in Used :
       /\ stage'[w] # stage[w]
       /\ plan[w].scope = "duplicates"
       /\ seen[w][r] = rows[r]
       => /\ rows'[r].flagged \ DupIssues = rows[r].flagged \ DupIssues
          /\ Clears(r) => rows[r].flagged \subseteq DupIssues]_vars

(* Latest run wins.  When a full run ends, every document it evaluated and *)
(* nobody else wrote to meanwhile shows exactly what the run found: in the *)
(* feed with these flags, a stamp or snooze of the past gone, or cleared;  *)
(* unless a user had already decided it.                                   *)
LatestRunWins ==
  [][\A w \in Workers :
       ClearCommit(w) /\ stage[w] = "clear" /\ plan[w].scope = "full" =>
         \A d \in plan[w].evaluated :
           LET Now == {r \in Rows : rows'[r] # None /\ rows'[r].doc = d}
               found == plan[w].found[d]
           IN  /\ found # {} => Now # {}
               /\ \A r \in Now :
                    \/ r \in touched[w]
                    \/ Now # {r}
                    \/ Decided(rows'[r])
                    \/ IF found = {} THEN "auto_cleared" \in rows'[r].marks
                       ELSE Visible(rows'[r]) /\ rows'[r].flagged = found]_vars
=============================================================================
