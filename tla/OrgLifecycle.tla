---------------------------- MODULE OrgLifecycle ----------------------------
(***************************************************************************)
(* The organisations of one firm: the company rows, from the Xero consent  *)
(* that brings them in to the removal that deletes them.                   *)
(*                                                                         *)
(* Three kinds of session write them: the connect handler, started by      *)
(* Nango's webhook and by the browser's sync-connections call; the nightly *)
(* reconcile_connections task; and the requests of users, who disconnect,  *)
(* reconnect, remove, forget and re-allow an org.  Each of the first two   *)
(* lists the orgs a grant covers at Xero, reads tables, inserts rows it    *)
(* found missing and commits, and the others may commit in between.        *)
(*                                                                         *)
(* Postgres runs READ COMMITTED.  An inserted row is flushed at once: from *)
(* then to the commit nobody else can insert the same (firm, tenant), as   *)
(* the unique index makes them wait.  An UPDATE writes the columns the     *)
(* session changed and fails when the row is gone.                         *)
(***************************************************************************)
EXTENDS Naturals, FiniteSets

CONSTANTS
  Tenants,       \* Xero organisations
  Connections,   \* Nango connection ids: a new one per consent
  Users,         \* accountants of the firm
  Handlers,      \* connect handlers that may run at the same time
  Reconciler,    \* the Celery process that runs the nightly task
  Requests,      \* user requests that may be in progress at the same time
  MaxEvents,     \* bound: connect handlers and user requests started, consents
                 \* given and grants changed, together, in a behaviour
  None           \* nothing

ASSUME ProcessAssumption == Reconciler \notin Handlers
ASSUME BoundAssumption == MaxEvents \in Nat

(* id tells a row from the one a later connect creates for the same org.   *)
Company == [id : Nat, conn : Connections, active : BOOLEAN]

Listers == Handlers \cup {Reconciler}

ASSUME NoneAssumption ==
  None \notin Connections \cup Users \cup Tenants \cup Listers \cup Company

(* A session that lists a grant: it asks Xero, reads the tables, goes      *)
(* through the orgs, commits.                                              *)
Steps == {"idle", "list", "read", "orgs"}
Job == [step : Steps,
        conn : Connections \cup {None},
        held : Connections \cup {None},  \* the user's connection, as loaded
        list : SUBSET Tenants,           \* what Xero answered
        skip : SUBSET Tenants,           \* exclusions, as read
        todo : SUBSET Tenants,           \* orgs still to look up
        wants : SUBSET Tenants]          \* orgs without a row: to be inserted

NoJob == [step |-> "idle", conn |-> None, held |-> None,
          list |-> {}, skip |-> {}, todo |-> {}, wants |-> {}]

Ops == {"disconnect", "reconnect", "remove", "forget", "revoked"}
Request == [op : Ops, tenant : Tenants, row : Company]

VARIABLES
  granted,   \* granted[c]: the user whose consent made connection c
  live,      \* live[c]: the orgs connection c covers, at Xero
  holder,    \* holder[u]: user.nango_connection_id
  company,   \* company[t]: the row of org t
  retired,   \* retired[t]: rows of org t deleted so far
  excluded,  \* the excluded_tenant table
  job,       \* job[p]: the listing session p works on
  loaded,    \* loaded[p]: the rows it has read, as it read them
  pending,   \* pending[p]: the rows it has inserted and not yet committed
  queue,     \* connections the reconcile run still has to visit
  request,   \* request[r]: the user request r is serving
  busy,      \* busy[p]: another session, or Xero, changed something since p
             \* asked for its list (an observer: no action reads it)
  events     \* those counted by the bound

xeroVars == <<granted, live>>
tableVars == <<holder, company, retired, excluded>>
listVars == <<job, loaded, pending, queue>>
vars == <<xeroVars, tableVars, listVars, request, busy, events>>

NoRows == [t \in Tenants |-> None]

TypeOK ==
  /\ granted \in [Connections -> Users \cup {None}]
  /\ live \in [Connections -> SUBSET Tenants]
  /\ holder \in [Users -> Connections \cup {None}]
  /\ company \in [Tenants -> Company \cup {None}]
  /\ retired \in [Tenants -> Nat]
  /\ excluded \subseteq Tenants
  /\ job \in [Listers -> Job]
  /\ loaded \in [Listers -> [Tenants -> Company \cup {None}]]
  /\ pending \in [Listers -> SUBSET Tenants]
  /\ queue \subseteq Connections
  /\ request \in [Requests -> Request \cup {None}]
  /\ busy \in [Listers -> BOOLEAN]
  /\ events \in 0 .. MaxEvents

NewCompany(t, c) == [id |-> retired[t], conn |-> c, active |-> TRUE]

(* No org yet, or the orgs of one grant in step with it.                   *)
Init ==
  /\ \/ /\ granted = [c \in Connections |-> None]
        /\ live = [c \in Connections |-> {}]
        /\ holder = [u \in Users |-> None]
        /\ company = NoRows
     \/ \E c \in Connections, u \in Users, orgs \in SUBSET Tenants :
          /\ granted = [d \in Connections |-> IF d = c THEN u ELSE None]
          /\ live = [d \in Connections |-> IF d = c THEN orgs ELSE {}]
          /\ holder = [v \in Users |-> IF v = u THEN c ELSE None]
          /\ company = [t \in Tenants |->
               IF t \in orgs THEN [id |-> 0, conn |-> c, active |-> TRUE] ELSE None]
  /\ retired = [t \in Tenants |-> 0]
  /\ excluded = {}
  /\ job = [p \in Listers |-> NoJob]
  /\ loaded = [p \in Listers |-> NoRows]
  /\ pending = [p \in Listers |-> {}]
  /\ queue = {}
  /\ request = [r \in Requests |-> None]
  /\ busy = [p \in Listers |-> FALSE]
  /\ events = 0

-----------------------------------------------------------------------------
(***************************************************************************)
(* Xero: consents, and what a grant covers.                                *)
(***************************************************************************)
\* A commit, by p if it is a listing session, or a change at Xero.
Disturb(p) ==
  busy' = [q \in Listers |-> q # p /\ (busy[q] \/ job[q].step # "idle")]

\* A user completes the OAuth popup: a fresh connection id.
Consent(u, c, orgs) ==
  /\ events < MaxEvents
  /\ granted[c] = None
  /\ granted' = [granted EXCEPT ![c] = u]
  /\ live' = [live EXCEPT ![c] = orgs]
  /\ events' = events + 1
  /\ Disturb(None)
  /\ UNCHANGED <<tableVars, listVars, request>>

\* An org enters or leaves the grant; Xero fires no event.
GrantChanges(c, t) ==
  /\ events < MaxEvents
  /\ granted[c] # None
  /\ live' = [live EXCEPT ![c] = IF t \in @ THEN @ \ {t} ELSE @ \cup {t}]
  /\ events' = events + 1
  /\ Disturb(None)
  /\ UNCHANGED <<granted, tableVars, listVars, request>>

-----------------------------------------------------------------------------
(***************************************************************************)
(* The transaction of a listing session.                                   *)
(***************************************************************************)
Others(p) == Listers \ {p}

\* The row p loaded for t is no longer there.
Gone(p, t) == loaded[p][t] # None
              /\ ~ (company[t] # None /\ company[t].id = loaded[p][t].id)

\* The session ends, its transaction committed or rolled back.
Finish(p) ==
  /\ job' = [job EXCEPT ![p] = NoJob]
  /\ loaded' = [loaded EXCEPT ![p] = NoRows]
  /\ pending' = [pending EXCEPT ![p] = {}]

\* An exception: nothing of the transaction remains.  One that leaves
\* reconcile_connections ends the task, with connections still unvisited.
Raise(p) ==
  /\ Finish(p)
  /\ queue' = IF p = Reconciler THEN {} ELSE queue
  /\ busy' = [busy EXCEPT ![p] = FALSE]
  /\ UNCHANGED <<xeroVars, tableVars, request, events>>

\* db.add and flush: waits for another session's insert of the same org.
Insert(p, t) ==
  /\ job[p].step = "orgs"
  /\ t \in job[p].wants
  /\ \A q \in Others(p) : t \notin pending[q]
  /\ company[t] = None
  /\ pending' = [pending EXCEPT ![p] = @ \cup {t}]
  /\ job' = [job EXCEPT ![p].wants = @ \ {t}]
  /\ UNCHANGED <<xeroVars, tableVars, loaded, queue, request, busy, events>>

\* The other one committed: IntegrityError from the flush, which neither
\* session catches.
Conflict(p, t) ==
  /\ job[p].step = "orgs"
  /\ t \in job[p].wants
  /\ company[t] # None
  /\ Raise(p)

\* Two sessions wait for each other's insert: Postgres ends one.
Deadlock(p) ==
  /\ \E q \in Others(p) : /\ job[p].wants \cap pending[q] # {}
                          /\ job[q].wants \cap pending[p] # {}
  /\ Raise(p)

-----------------------------------------------------------------------------
(***************************************************************************)
(* _handle_auth_creation.  A webhook may come late or twice, and           *)
(* sync-connections starts the same handler for the user's connection.     *)
(***************************************************************************)
Start(w, c) ==
  /\ events < MaxEvents
  /\ job[w].step = "idle"
  /\ granted[c] # None
  /\ job' = [job EXCEPT ![w] = [NoJob EXCEPT !.step = "list", !.conn = c,
                                             !.held = holder[granted[c]]]]
  /\ events' = events + 1
  /\ UNCHANGED <<xeroVars, tableVars, loaded, pending, queue, request, busy>>

\* list_tenants fails open: an error reads like a grant without orgs.
HookList(w) ==
  /\ job[w].step = "list"
  /\ \/ /\ live[job[w].conn] # {}
        /\ job' = [job EXCEPT ![w].step = "read", ![w].list = live[job[w].conn]]
        /\ UNCHANGED <<loaded, pending, queue, busy>>
     \/ Raise(w)
  /\ UNCHANGED <<xeroVars, tableVars, request, events>>

HookNoExclusions(w) ==           \* slip: the exclusions read, but not applied
  /\ w \in Handlers
  /\ job[w].step = "read"
  /\ job' = [job EXCEPT ![w].step = "orgs", ![w].skip = excluded,
                        ![w].todo = job[w].list]
  /\ UNCHANGED <<xeroVars, tableVars, loaded, pending, queue, request, busy,
                 events>>

HookExclusions(w) ==
  /\ w \in Handlers
  /\ job[w].step = "read"
  /\ job' = [job EXCEPT ![w].step = "orgs", ![w].skip = excluded,
                        ![w].todo = job[w].list \ excluded]
  /\ UNCHANGED <<xeroVars, tableVars, loaded, pending, queue, request, busy,
                 events>>

HookSelect(w, t) ==
  /\ w \in Handlers
  /\ job[w].step = "orgs"
  /\ job[w].wants = {}
  /\ t \in job[w].todo
  /\ job' = [job EXCEPT ![w].todo = @ \ {t},
                        ![w].wants = IF company[t] = None THEN {t} ELSE {}]
  /\ loaded' = [loaded EXCEPT ![w][t] = company[t]]
  /\ UNCHANGED <<xeroVars, tableVars, pending, queue, request, busy, events>>

\* The UPDATE of an org the firm already has: its connection, nothing else.
Repointed(w, t) == loaded[w][t] # None /\ loaded[w][t].conn # job[w].conn

Ready(p) == job[p].step = "orgs" /\ job[p].todo = {} /\ job[p].wants = {}

Connected(w) ==
  [t \in Tenants |->
     IF t \in pending[w] THEN NewCompany(t, job[w].conn)
     ELSE IF Repointed(w, t) THEN [company[t] EXCEPT !.conn = job[w].conn]
     ELSE company[t]]

HookCommit(w) ==
  /\ w \in Handlers
  /\ Ready(w)
  /\ \A t \in Tenants : ~ (Repointed(w, t) /\ Gone(w, t))
  /\ company' = Connected(w)
  /\ holder' = IF job[w].held = job[w].conn THEN holder
               ELSE [holder EXCEPT ![granted[job[w].conn]] = job[w].conn]
  /\ Finish(w)
  /\ Disturb(w)
  /\ UNCHANGED <<xeroVars, retired, excluded, queue, request, events>>

\* A row to update, or to link the user to, was deleted meanwhile.
HookFail(w) ==
  /\ w \in Handlers
  /\ Ready(w)
  /\ \E t \in Tenants : Gone(w, t)
  /\ Raise(w)

-----------------------------------------------------------------------------
(***************************************************************************)
(* reconcile_connections_task, every night.                                *)
(***************************************************************************)
RecIdle == job[Reconciler].step = "idle"

RecStart ==
  /\ RecIdle
  /\ queue = {}
  /\ queue' = {holder[u] : u \in Users} \ {None}
  /\ UNCHANGED <<xeroVars, tableVars, job, loaded, pending, request, busy,
                 events>>

RecListed(c) ==
  /\ RecIdle
  /\ c \in queue
  /\ live[c] # {}
  /\ queue' = queue \ {c}
  /\ job' = [job EXCEPT ![Reconciler] = [NoJob EXCEPT !.step = "read", !.conn = c,
                                                      !.list = live[c]]]
  /\ UNCHANGED <<xeroVars, tableVars, loaded, pending, request, busy, events>>

\* The listing raised, or came back empty, which may be an error.
RecUnlisted(c) ==
  /\ RecIdle
  /\ c \in queue
  /\ queue' = queue \ {c}
  /\ UNCHANGED <<xeroVars, tableVars, job, loaded, pending, request, busy,
                 events>>

ActiveOnConnection(c) ==         \* slip: db_ids of the active orgs only
  {t \in Tenants : company[t] # None /\ company[t].conn = c /\ company[t].active}
OnConnection(c) == {t \in Tenants : company[t] # None /\ company[t].conn = c}

RecLoad ==
  LET known == OnConnection(job[Reconciler].conn)
  IN  /\ job[Reconciler].step = "read"
      /\ loaded' = [loaded EXCEPT ![Reconciler] =
                      [t \in Tenants |-> IF t \in known THEN company[t] ELSE None]]
      /\ job' = [job EXCEPT ![Reconciler].step = "orgs", ![Reconciler].wants = @ \cup
                              (job[Reconciler].list \ known)]
      /\ UNCHANGED <<xeroVars, tableVars, pending, queue, request, busy, events>>

Covered(t) == t \in job[Reconciler].list

SwitchedOff(t) ==                \* slip: an org back in the grant stays inactive
  loaded[Reconciler][t] # None /\ loaded[Reconciler][t].active /\ ~ Covered(t)
SwitchedOn(t) ==                 \* slip: an org gone from the grant stays active
  loaded[Reconciler][t] # None /\ ~ loaded[Reconciler][t].active /\ Covered(t)

\* The UPDATE of an org that left the grant, or is back in it.
Switched(t) ==
  loaded[Reconciler][t] # None /\ loaded[Reconciler][t].active # Covered(t)

Reconciled ==
  [t \in Tenants |->
     IF t \in pending[Reconciler] THEN NewCompany(t, job[Reconciler].conn)
     ELSE IF Switched(t) THEN [company[t] EXCEPT !.active = Covered(t)]
     ELSE company[t]]

RecCommit ==
  /\ Ready(Reconciler)
  /\ \A t \in Tenants : ~ (Switched(t) /\ Gone(Reconciler, t))
  /\ company' = Reconciled
  /\ Finish(Reconciler)
  /\ Disturb(Reconciler)
  /\ UNCHANGED <<xeroVars, holder, retired, excluded, queue, request, events>>

RecFail ==
  /\ Ready(Reconciler)
  /\ \E t \in Tenants : Switched(t) /\ Gone(Reconciler, t)
  /\ Raise(Reconciler)

-----------------------------------------------------------------------------
(***************************************************************************)
(* The requests of users.  The row is loaded, then committed.              *)
(***************************************************************************)
Ask(r, op, t) ==
  /\ events < MaxEvents
  /\ request[r] = None
  /\ company[t] # None
  /\ op = "disconnect" => company[t].active      \* get_current_company_id
  /\ request' = [request EXCEPT ![r] = [op |-> op, tenant |-> t, row |-> company[t]]]
  /\ events' = events + 1
  /\ UNCHANGED <<xeroVars, tableVars, listVars, busy>>

Done(r) == request' = [request EXCEPT ![r] = None]

Same(q) == company[q.tenant] # None /\ company[q.tenant].id = q.row.id

Switch(r, q, on) ==
  /\ company' = IF Same(q) /\ q.row.active # on
                  THEN [company EXCEPT ![q.tenant].active = on] ELSE company
  /\ Done(r)
  /\ Disturb(None)
  /\ UNCHANGED <<xeroVars, holder, retired, excluded, listVars, events>>

Disconnect(r) ==
  request[r] # None /\ request[r].op = "disconnect" /\ Switch(r, request[r], FALSE)
Reconnect(r) ==
  request[r] # None /\ request[r].op = "reconnect" /\ Switch(r, request[r], TRUE)

\* revoke_xero_org_grant, before anything else: the first of the user's live
\* connections that holds the org gives it up, or none does.
Revoke(r) ==
  /\ request[r] # None
  /\ request[r].op = "forget"
  /\ request' = [request EXCEPT ![r].op = "revoked"]
  /\ \/ /\ \E c \in Connections :
             /\ request[r].tenant \in live[c]
             /\ live' = [live EXCEPT ![c] = @ \ {request[r].tenant}]
        /\ Disturb(None)
     \/ UNCHANGED <<live, busy>>
  /\ UNCHANGED <<granted, tableVars, listVars, events>>

\* The exclusion, then the row and everything under it, in one transaction.
Remove(r) ==
  LET q == request[r]
  IN  /\ q # None
      /\ q.op \in {"remove", "revoked"}
      /\ excluded' = IF q.op = "remove" THEN excluded \cup {q.tenant}
                     ELSE excluded \ {q.tenant}
      /\ IF Same(q)
           THEN /\ company' = [company EXCEPT ![q.tenant] = None]
                /\ retired' = [retired EXCEPT ![q.tenant] = @ + 1]
           ELSE UNCHANGED <<company, retired>>
      /\ Done(r)
      /\ Disturb(None)
      /\ UNCHANGED <<xeroVars, holder, listVars, events>>

\* reallow_org: one request, one statement that matters.
Reallow(t) ==
  /\ events < MaxEvents
  /\ t \in excluded
  /\ excluded' = excluded \ {t}
  /\ events' = events + 1
  /\ Disturb(None)
  /\ UNCHANGED <<xeroVars, holder, company, retired, listVars, request>>

-----------------------------------------------------------------------------
HookStep(w) ==
  \/ HookList(w)
  \/ HookExclusions(w)
  \/ \E t \in Tenants : HookSelect(w, t) \/ Insert(w, t) \/ Conflict(w, t)
  \/ Deadlock(w)
  \/ HookCommit(w)
  \/ HookFail(w)

RecWork ==
  \/ RecLoad
  \/ \E t \in Tenants : Insert(Reconciler, t) \/ Conflict(Reconciler, t)
  \/ Deadlock(Reconciler)
  \/ RecCommit
  \/ RecFail

RecStep ==
  \/ RecStart
  \/ \E c \in Connections : RecListed(c) \/ RecUnlisted(c)
  \/ RecWork

UserStep(r) == Disconnect(r) \/ Reconnect(r) \/ Revoke(r) \/ Remove(r)

Next ==
  \/ \E u \in Users, c \in Connections, orgs \in SUBSET Tenants :
       orgs # {} /\ Consent(u, c, orgs)
  \/ \E c \in Connections, t \in Tenants : GrantChanges(c, t)
  \/ \E w \in Handlers : (\E c \in Connections : Start(w, c)) \/ HookStep(w)
  \/ RecStep
  \/ \E r \in Requests : UserStep(r)
  \/ \E r \in Requests, t \in Tenants,
        op \in {"disconnect", "reconnect", "remove", "forget"} : Ask(r, op, t)
  \/ \E t \in Tenants : Reallow(t)

Spec == Init /\ [][Next]_vars

(***************************************************************************)
(* The task is started every night and its loop runs on; a connection that *)
(* is in turn night after night is not unreachable every time.             *)
(***************************************************************************)
Fairness ==
  /\ WF_vars(RecStart)
  /\ WF_vars(RecWork)
  /\ WF_vars(\E c \in Connections : RecListed(c) \/ RecUnlisted(c))
  /\ \A c \in Connections : SF_vars(RecListed(c))
  /\ \A w \in Handlers : WF_vars(HookStep(w))
  /\ \A r \in Requests : WF_vars(UserStep(r))

FairSpec == Spec /\ Fairness

-----------------------------------------------------------------------------
(***************************************************************************)
(* Properties.                                                             *)
(***************************************************************************)

(* A reconcile of a connection during which nothing else changed leaves    *)
(* exactly the orgs of the grant active among those on the connection, and *)
(* every org of the grant with a row.                                      *)
ReconcileExact ==
  LET c == job[Reconciler].conn
  IN  (RecCommit /\ ~ busy[Reconciler]) =>
        /\ \A t \in live[c] : company'[t] # None
        /\ \A t \in Tenants :
             (company'[t] # None /\ company'[t].conn = c) =>
               (company'[t].active <=> t \in live[c])
QuietReconcileIsExact == [][ReconcileExact]_vars

(* A connect handler during which nothing else changed gives every org of  *)
(* the grant the firm has not removed a row on the new connection, leaves  *)
(* the removed orgs and all the others alone, revives no disconnected org, *)
(* and makes the connection the user's.                                    *)
ConnectComplete(w) ==
  LET c == job[w].conn
  IN  (HookCommit(w) /\ ~ busy[w]) =>
        /\ holder'[granted[c]] = c
        /\ \A t \in Tenants :
             IF t \in live[c] \ excluded
               THEN company'[t] = IF company[t] = None THEN NewCompany(t, c)
                                  ELSE [company[t] EXCEPT !.conn = c]
               ELSE company'[t] = company[t]
QuietConnectIsComplete == [][\A w \in Handlers : ConnectComplete(w)]_vars

(* The nightly task, which should visit every connection, dies on the way  *)
(* only when an org of the grant has its row on another connection of the  *)
(* firm, or when somebody else was at work on the same rows.               *)
RecDies == (\E t \in Tenants : Conflict(Reconciler, t)) \/ Deadlock(Reconciler) \/ RecFail
ReconcileDiesOnlyOfSharing ==
  [][RecDies =>
       \/ busy[Reconciler]
       \/ \E w \in Handlers : job[w].step # "idle"
       \/ \E t \in job[Reconciler].list :
            company[t] # None /\ company[t].conn # job[Reconciler].conn]_vars

(* An org that Xero no longer lists does not stay active for ever, as long *)
(* as its connection is some user's and still lists other orgs, and no org *)
(* of a visited connection has its row on another one.                     *)
Held(c) == \E u \in Users : holder[u] = c
Shared == \E c \in Connections : Held(c) /\
            \E t \in live[c] : company[t] # None /\ company[t].conn # c
Revoked(t) ==
  /\ company[t] # None
  /\ company[t].active
  /\ Held(company[t].conn)
  /\ live[company[t].conn] # {}
  /\ t \notin live[company[t].conn]
RevokedGoesInactive == \A t \in Tenants : ~ <>[](Revoked(t) /\ ~ Shared)

(* An org a user removed "stays out" until it is re-allowed                *)
(* (list_excluded_orgs; WORKFLOW.md, connection lifecycle).                *)
RemovedStaysRemoved ==
  [][\A t \in excluded : company[t] = None => company'[t] = None]_vars

(* What the code keeps of that promise.  A removed org comes back by a     *)
(* connect handler only if it read the exclusions before the removal, and  *)
(* otherwise by the nightly task alone, which reads none: and by that only *)
(* if the connection still covers the org, or something changed since Xero *)
(* was asked.                                                              *)
RemovedReturnsTwoWays ==
  [][\A t \in excluded : (company[t] = None /\ company'[t] # None) =>
       \/ RecCommit /\ (busy[Reconciler] \/ t \in live[job[Reconciler].conn])
       \/ \E w \in Handlers : HookCommit(w) /\ t \notin job[w].skip]_vars
=============================================================================
