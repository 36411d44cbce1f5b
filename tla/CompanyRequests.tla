-------------------------- MODULE CompanyRequests --------------------------
(***************************************************************************)
(* HTTP requests that change what is kept of one company, each in a        *)
(* database session of its own: the sections of the JSON column            *)
(* audit_config (CompanyConfigStore, put_audit_config, the insight         *)
(* settings), many feed rows at once (ResolveService.bulk), and the log of *)
(* documents the pre-ledger check blocked (_persist_preledger_blocked).    *)
(*                                                                         *)
(* Postgres runs READ COMMITTED: a session sees what is committed when it  *)
(* reads, and keeps the locks it takes until its transaction ends.         *)
(***************************************************************************)
EXTENDS Naturals, Sequences, FiniteSets

CONSTANTS
  Sections,      \* parts of audit_config
  Items,         \* what a section may hold
  Unknown,       \* rule keys and settings that do not exist
  Rows,          \* feed rows of the company
  Ids,           \* row ids a client may send
  Orders,        \* lists of ids a client may send
  Docs,          \* documents, by the UUID they are logged under
  Txns,          \* transaction ids of a pre-ledger batch
  DocOf,         \* the document of each
  Requests,      \* sessions that may be open at the same time
  MaxRequests,   \* bound: requests in a behaviour
  None           \* no session, no request

Rules == "rules"                 \* disabled_rules, ignore_before, settings
Flags == {"dismissed", "snoozed", "marked_ok"}
Actions == Flags \cup {"restore"}
Config == [Sections -> SUBSET Items]
Edits == [kind : {"add", "drop", "set"}, item : Items]

ASSUME SectionAssumption == Rules \in Sections
ASSUME IdAssumption == Rows \subseteq Ids /\ Orders \subseteq Seq(Ids)
ASSUME DocAssumption == DocOf \in [Txns -> Docs]
ASSUME FiniteAssumption == IsFiniteSet(Txns)
ASSUME BoundAssumption == MaxRequests \in Nat

Save  == [op : {"save"}, section : Sections, edit : Edits, read : Config]
Put   == [op : {"put"}, rules : SUBSET Items, read : Config]
Bulk  == [op : {"bulk"}, action : Actions, todo : Seq(Ids), done : SUBSET Rows,
          new : [Rows -> SUBSET Flags], aborted : BOOLEAN]
Batch == [op : {"batch"}, todo : SUBSET Txns, missing : SUBSET Txns]

ASSUME NoneAssumption == None \notin Requests \cup Save \cup Put \cup Bulk \cup Batch

VARIABLES
  config,    \* audit_config of the company
  marks,     \* marks[w]: the flags that hide row w
  logged,    \* logged[d]: blocked pre-ledger rows of document d
  holder,    \* holder[w]: the session that has locked row w
  request,   \* request[r]: what session r is doing
  news,      \* news[r]: what other sessions committed since r began
             \* (an observer: no action reads it)
  begun      \* requests begun

vars == <<config, marks, logged, holder, request, news, begun>>

TypeOK ==
  /\ config \in Config
  /\ marks \in [Rows -> SUBSET Flags]
  /\ logged \in [Docs -> Nat]
  /\ holder \in [Rows -> Requests \cup {None}]
  /\ request \in [Requests -> Save \cup Put \cup Bulk \cup Batch \cup {None}]
  /\ news \in [Requests -> SUBSET (Docs \cup {"config"})]
  /\ begun \in 0 .. MaxRequests

Init ==
  /\ config = [s \in Sections |-> {}]
  /\ marks = [w \in Rows |-> {}]
  /\ logged = [d \in Docs |-> 0]
  /\ holder = [w \in Rows |-> None]
  /\ request = [r \in Requests |-> None]
  /\ news = [r \in Requests |-> {}]
  /\ begun = 0

-----------------------------------------------------------------------------
Doing(r, op) == request[r] # None /\ request[r].op = op

Begin(r, req) ==
  /\ request[r] = None
  /\ begun < MaxRequests
  /\ request' = [request EXCEPT ![r] = req]
  /\ news' = [news EXCEPT ![r] = {}]
  /\ begun' = begun + 1
  /\ UNCHANGED <<config, marks, logged, holder>>

\* Session r ends, after it committed changes to X.
End(r, X) ==
  /\ request' = [request EXCEPT ![r] = None]
  /\ news' = [q \in Requests |-> IF q = r THEN {} ELSE news[q] \cup X]
  /\ UNCHANGED begun

-----------------------------------------------------------------------------
(***************************************************************************)
(* The configuration: load the column, change the dictionary, save it.     *)
(***************************************************************************)
Load(r, s, e) ==
  Begin(r, [op |-> "save", section |-> s, edit |-> e, read |-> config])

Added(X, i) == X \cup {i}        \* a statement balance, an exclusion, an OK
Dropped(X, i) == X \ {i}         \* a dismissed period restored
Replaced(i) == {i}               \* a sales target, the cash-health settings

Edited(X, e) ==
  CASE e.kind = "add"  -> Added(X, e.item)
    [] e.kind = "drop" -> Dropped(X, e.item)
    [] e.kind = "set"  -> Replaced(e.item)

\* The whole column is written, unless it is what the session has read.
Store(r, new) ==
  IF new = request[r].read
    THEN UNCHANGED config /\ End(r, {})
    ELSE config' = new /\ End(r, {"config"})

SavedAlone(req) ==               \* slip: what was read is not carried over
  [s \in Sections |->
     IF s = req.section THEN Edited(req.read[s], req.edit) ELSE {}]

Saved(req) ==
  [req.read EXCEPT ![req.section] = Edited(@, req.edit)]

SaveSection(r) ==
  /\ Doing(r, "save")
  /\ Store(r, Saved(request[r]))
  /\ UNCHANGED <<marks, logged, holder>>

\* Rules and settings that do not exist, or whose value is bad, are dropped.
Clean(X) == X \cap Items

StartPut(r, X) == Begin(r, [op |-> "put", rules |-> Clean(X), read |-> config])

\* The new dictionary has the keys of the request and no other.
PutConfig(r) ==
  /\ Doing(r, "put")
  /\ Store(r, [s \in Sections |-> IF s = Rules THEN request[r].rules ELSE {}])
  /\ UNCHANGED <<marks, logged, holder>>

-----------------------------------------------------------------------------
(***************************************************************************)
(* Bulk: every row is locked, marked and flushed, one after the other in   *)
(* the order of the list; one commit at the end.                           *)
(***************************************************************************)
StartBulk(r, a, ids) ==
  Begin(r, [op |-> "bulk", action |-> a, todo |-> ids, done |-> {},
            new |-> [w \in Rows |-> {}], aborted |-> FALSE])

Marked(a, M) == IF a = "restore" THEN {} ELSE M \cup {a}

Working(r) == Doing(r, "bulk") /\ request[r].todo # << >>
Next1(r) == Head(request[r].todo)
Skip(r) == [request EXCEPT ![r].todo = Tail(@)]

\* What r sees of row w: what is committed, or what it flushed itself.
Sees(r, w) == IF w \in request[r].done THEN request[r].new[w] ELSE marks[w]

MarkRow(r) ==
  /\ Working(r) /\ ~ request[r].aborted
  /\ Next1(r) \in Rows
  /\ holder[Next1(r)] \in {None, r}
  /\ holder' = [holder EXCEPT ![Next1(r)] = r]
  /\ request' = [Skip(r) EXCEPT
       ![r].done = @ \cup {Next1(r)},
       ![r].new[Next1(r)] = Marked(request[r].action, Sees(r, Next1(r)))]
  /\ UNCHANGED <<config, marks, logged, news, begun>>

\* "not found", or refused by a transaction that is aborted: only recorded.
FailRow(r) ==
  /\ Working(r)
  /\ Next1(r) \notin Rows \/ request[r].aborted
  /\ request' = Skip(r)
  /\ UNCHANGED <<config, marks, logged, holder, news, begun>>

Waits(r, q) == Working(r) /\ ~ request[r].aborted /\ q # r
               /\ Next1(r) \in Rows /\ holder[Next1(r)] = q

Freed(r) == [w \in Rows |-> IF holder[w] = r THEN None ELSE holder[w]]

\* Each of the sessions C waits for another of them.
Cycle(C) == \A p \in C : (\E q \in C : Waits(p, q)) /\ (\E q \in C : Waits(q, p))

\* Of sessions that wait for each other Postgres aborts one: its locks are
\* gone and its flushed rows undone.  The error is recorded for the row, and
\* the rows before it stay in the list of those that succeeded.
Deadlock(r) ==
  /\ \E C \in SUBSET Requests : r \in C /\ Cycle(C)
  /\ holder' = Freed(r)
  /\ request' = [Skip(r) EXCEPT ![r].aborted = TRUE]
  /\ UNCHANGED <<config, marks, logged, news, begun>>

KeepLocks(r) ==                  \* slip: the transaction is left open
  /\ Doing(r, "bulk") /\ request[r].todo = << >>
  /\ marks' = [w \in Rows |-> IF w \in request[r].done /\ ~ request[r].aborted
                                THEN request[r].new[w] ELSE marks[w]]
  /\ UNCHANGED <<config, logged, holder>>
  /\ End(r, {})

\* To commit an aborted transaction is to roll it back, without an error.
CommitBulk(r) ==
  /\ Doing(r, "bulk") /\ request[r].todo = << >>
  /\ marks' = [w \in Rows |-> IF w \in request[r].done /\ ~ request[r].aborted
                                THEN request[r].new[w] ELSE marks[w]]
  /\ holder' = Freed(r)
  /\ UNCHANGED <<config, logged>>
  /\ End(r, {})

-----------------------------------------------------------------------------
(***************************************************************************)
(* The pre-ledger check: a SELECT per blocked transaction, then the        *)
(* INSERTs.  The SELECTs do not flush (autoflush is off), so they do not   *)
(* see what the session itself is about to insert.                         *)
(***************************************************************************)
StartBatch(r, T) == Begin(r, [op |-> "batch", todo |-> T, missing |-> {}])

SelectBlind(r, t) ==             \* slip: no look for an existing row
  /\ Doing(r, "batch") /\ t \in request[r].todo
  /\ request' = [request EXCEPT ![r].todo = @ \ {t}, ![r].missing = @ \cup {t}]
  /\ UNCHANGED <<config, marks, logged, holder, news, begun>>

SelectLogged(r, t) ==
  /\ Doing(r, "batch") /\ t \in request[r].todo
  /\ request' = [request EXCEPT
       ![r].todo = @ \ {t},
       ![r].missing = IF logged[DocOf[t]] = 0 THEN @ \cup {t} ELSE @]
  /\ UNCHANGED <<config, marks, logged, holder, news, begun>>

Inserts(r, d) == {t \in request[r].missing : DocOf[t] = d}

CommitBatch(r) ==
  /\ Doing(r, "batch") /\ request[r].todo = {}
  /\ logged' = [d \in Docs |-> logged[d] + Cardinality(Inserts(r, d))]
  /\ End(r, {DocOf[t] : t \in request[r].missing})
  /\ UNCHANGED <<config, marks, holder>>

-----------------------------------------------------------------------------
Ask(r) ==
  \/ \E s \in Sections \ {Rules}, e \in Edits : Load(r, s, e)
  \/ \E X \in SUBSET (Items \cup Unknown) : StartPut(r, X)
  \/ \E a \in Actions, ids \in Orders : StartBulk(r, a, ids)
  \/ \E T \in SUBSET Txns \ {{}} : StartBatch(r, T)

Serve(r) ==
  \/ SaveSection(r)
  \/ PutConfig(r)
  \/ MarkRow(r)
  \/ FailRow(r)
  \/ Deadlock(r)
  \/ CommitBulk(r)
  \/ \E t \in Txns : SelectLogged(r, t)
  \/ CommitBatch(r)

Next == \E r \in Requests : Ask(r) \/ Serve(r)

Spec == Init /\ [][Next]_vars

(* A session that can go on does: the event loop runs every handler, and   *)
(* Postgres looks for deadlocks after a second.                            *)
Fairness == \A r \in Requests : WF_vars(Serve(r))

-----------------------------------------------------------------------------
(***************************************************************************)
(* Properties.                                                             *)
(***************************************************************************)

(* Two saves of different sections lose nothing unless they overlap: a     *)
(* save changes another section than its own only if the column was        *)
(* written after the session loaded it (which it then undoes).             *)
SaveKeepsOtherSections ==
  [][\A r \in Requests :
       SaveSection(r) =>
         \A s \in Sections \ {request[r].section} :
            config'[s] # config[s] => "config" \in news[r]]_vars

(* mark_* "locks FOR UPDATE so concurrent writers can't clobber the JSONB  *)
(* result field": whatever a bulk request does to a row at its commit is   *)
(* its action applied to the row as it is then, however many sessions work *)
(* on it, in whatever order, and whichever of them are aborted.            *)
DecisionsAccumulate ==
  [][\A r \in Requests :
       CommitBulk(r) =>
         \A w \in Rows : marks'[w] \in {marks[w], Marked(request[r].action, marks[w])}]_vars

(* _persist_preledger_blocked is "Idempotent: skip if this doc already has *)
(* a pre_ledger blocked row": a document gets a second row only if another *)
(* batch logged it while this one ran, or if the batch names it twice.     *)
SecondRowNeedsOverlap ==
  [][\A r \in Requests :
       CommitBatch(r) =>
         \A d \in Docs :
            logged'[d] > logged[d] /\ logged'[d] > 1
              => d \in news[r] \/ Cardinality(Inserts(r, d)) > 1]_vars

(* Every request is answered: bulk requests that lock the same rows in     *)
(* different orders do not wait for each other for ever.                   *)
EveryRequestAnswers ==
  \A r \in Requests : (request[r] # None) ~> (request[r] = None)

(* company_config.py keeps "manual entries, exclusions and dismissals"     *)
(* alongside the keys of the audit configuration screen: saving that       *)
(* screen does not touch them.                                             *)
EntriesSurviveConfigScreen ==
  [][\A r \in Requests :
       PutConfig(r) => \A s \in Sections \ {Rules} : config'[s] = config[s]]_vars

(* bulk: "Each row is applied independently; one failure is recorded and   *)
(* does not abort the rest": a row reported as done is done.               *)
ReportedIsDone ==
  [][\A r \in Requests :
       CommitBulk(r) =>
         \A w \in request[r].done : marks'[w] = request[r].new[w]]_vars
=============================================================================
