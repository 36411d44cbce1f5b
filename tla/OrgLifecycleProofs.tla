------------------------- MODULE OrgLifecycleProofs -------------------------
(***************************************************************************)
(* Proofs about OrgLifecycle, for any orgs, connections, users, handlers,  *)
(* requests and number of events.                                          *)
(***************************************************************************)
EXTENDS OrgLifecycle, TLAPS

-----------------------------------------------------------------------------
(* Type correctness.  A session at work has a connection: without that the *)
(* row it inserts would have none.                                         *)

Connects == \A p \in Listers : job[p].step # "idle" => job[p].conn \in Connections
Typed == TypeOK /\ Connects

LEMMA EventType == ASSUME TypeOK, events < MaxEvents, events' = events + 1
                   PROVE  events' \in 0 .. MaxEvents
  BY BoundAssumption DEF TypeOK

LEMMA NoJobType == NoJob \in Job /\ NoJob.step = "idle"
  BY DEF NoJob, Job, Steps

LEMMA DisturbType == ASSUME NEW p, Disturb(p) PROVE busy' \in [Listers -> BOOLEAN]
  BY DEF Disturb

\* A session that ends leaves nothing behind and the others as they are.
LEMMA FinishEffect ==
  ASSUME Typed, NEW p \in Listers, Finish(p)
  PROVE  /\ job' \in [Listers -> Job]
         /\ loaded' \in [Listers -> [Tenants -> Company \cup {None}]]
         /\ pending' \in [Listers -> SUBSET Tenants]
         /\ job'[p] = NoJob /\ loaded'[p] = NoRows /\ pending'[p] = {}
         /\ \A q \in Others(p) : /\ job'[q] = job[q]
                                 /\ loaded'[q] = loaded[q]
                                 /\ pending'[q] = pending[q]
         /\ Connects'
  <1>1. NoRows \in [Tenants -> Company \cup {None}]
    BY DEF NoRows
  <1>2. /\ job' \in [Listers -> Job]
        /\ job'[p] = NoJob /\ \A q \in Others(p) : job'[q] = job[q]
    BY NoJobType DEF Finish, Typed, TypeOK, Others
  <1>3. /\ loaded' \in [Listers -> [Tenants -> Company \cup {None}]]
        /\ loaded'[p] = NoRows /\ \A q \in Others(p) : loaded'[q] = loaded[q]
    BY <1>1 DEF Finish, Typed, TypeOK, Others
  <1>4. /\ pending' \in [Listers -> SUBSET Tenants]
        /\ pending'[p] = {} /\ \A q \in Others(p) : pending'[q] = pending[q]
    BY DEF Finish, Typed, TypeOK, Others
  <1>5. Connects'
    BY <1>2, NoJobType DEF Connects, Typed, Others
  <1>6. QED BY <1>2, <1>3, <1>4, <1>5

LEMMA RaiseType ==
  ASSUME Typed, NEW p \in Listers, Raise(p)
  PROVE  Typed'
  <1>1. queue' \subseteq Connections
    BY DEF Raise, Typed, TypeOK
  <1>2. busy' \in [Listers -> BOOLEAN]
    BY DEF Raise, Typed, TypeOK
  <1>3. UNCHANGED <<granted, live, holder, company, retired, excluded, request, events>>
    BY DEF Raise, xeroVars, tableVars
  <1>4. QED BY <1>1, <1>2, <1>3, FinishEffect DEF Raise, Typed, TypeOK

\* A step of p's own: its job changes, with the connection kept.
LEMMA OwnStepType ==
  ASSUME Typed, NEW p \in Listers, NEW j \in Job,
         job' = [job EXCEPT ![p] = j],
         j.step # "idle" => j.conn \in Connections,
         loaded' \in [Listers -> [Tenants -> Company \cup {None}]],
         pending' \in [Listers -> SUBSET Tenants],
         UNCHANGED <<xeroVars, tableVars, queue, request, busy, events>>
  PROVE  Typed'
  <1>1. job' \in [Listers -> Job]
    BY DEF Typed, TypeOK
  <1>2. job'[p] = j /\ \A q \in Others(p) : job'[q] = job[q]
    BY DEF Typed, TypeOK, Others
  <1>3. Connects'
    BY <1>2 DEF Typed, Connects, Others
  <1>4. QED BY <1>1, <1>3 DEF Typed, TypeOK, xeroVars, tableVars

LEMMA InitType == Init => Typed
  <1> SUFFICES ASSUME Init PROVE Typed
    OBVIOUS
  <1>1. /\ granted \in [Connections -> Users \cup {None}]
        /\ live \in [Connections -> SUBSET Tenants]
        /\ holder \in [Users -> Connections \cup {None}]
        /\ company \in [Tenants -> Company \cup {None}]
    <2>1. CASE /\ granted = [c \in Connections |-> None]
               /\ live = [c \in Connections |-> {}]
               /\ holder = [u \in Users |-> None]
               /\ company = NoRows
      BY <2>1 DEF NoRows
    <2>2. ASSUME NEW c \in Connections, NEW u \in Users, NEW orgs \in SUBSET Tenants,
                 granted = [d \in Connections |-> IF d = c THEN u ELSE None],
                 live = [d \in Connections |-> IF d = c THEN orgs ELSE {}],
                 holder = [v \in Users |-> IF v = u THEN c ELSE None],
                 company = [t \in Tenants |->
                   IF t \in orgs THEN [id |-> 0, conn |-> c, active |-> TRUE] ELSE None]
          PROVE  /\ granted \in [Connections -> Users \cup {None}]
                 /\ live \in [Connections -> SUBSET Tenants]
                 /\ holder \in [Users -> Connections \cup {None}]
                 /\ company \in [Tenants -> Company \cup {None}]
      <3> DEFINE row == [id |-> 0, conn |-> c, active |-> TRUE]
      <3>1. row \in Company
        BY DEF Company
      <3>2. company = [t \in Tenants |-> IF t \in orgs THEN row ELSE None]
        BY <2>2
      <3> HIDE DEF row
      <3>3. company \in [Tenants -> Company \cup {None}]
        BY <3>1, <3>2
      <3>4. live \in [Connections -> SUBSET Tenants]
        BY <2>2
      <3>5. QED BY <2>2, <3>3, <3>4
    <2>3. QED BY <2>1, <2>2 DEF Init
  <1>2. loaded \in [Listers -> [Tenants -> Company \cup {None}]]
    BY DEF Init, NoRows
  <1>3. /\ job \in [Listers -> Job]
        /\ Connects
    BY NoJobType DEF Init, Connects
  <1>4. /\ retired \in [Tenants -> Nat]
        /\ excluded \subseteq Tenants
        /\ pending \in [Listers -> SUBSET Tenants]
        /\ queue \subseteq Connections
        /\ request \in [Requests -> Request \cup {None}]
        /\ busy \in [Listers -> BOOLEAN]
    BY DEF Init
  <1>5. events \in 0 .. MaxEvents
    BY BoundAssumption DEF Init
  <1>6. QED BY <1>1, <1>2, <1>3, <1>4, <1>5 DEF Typed, TypeOK

LEMMA XeroType ==
  ASSUME Typed, NEW c \in Connections,
         \/ \E u \in Users, orgs \in SUBSET Tenants : Consent(u, c, orgs)
         \/ \E t \in Tenants : GrantChanges(c, t)
  PROVE  Typed'
  <1>1. /\ granted' \in [Connections -> Users \cup {None}]
        /\ live' \in [Connections -> SUBSET Tenants]
    <2>1. ASSUME NEW u \in Users, NEW orgs \in SUBSET Tenants, Consent(u, c, orgs)
          PROVE  /\ granted' \in [Connections -> Users \cup {None}]
                 /\ live' \in [Connections -> SUBSET Tenants]
      BY <2>1 DEF Consent, Typed, TypeOK
    <2>2. ASSUME NEW t \in Tenants, GrantChanges(c, t)
          PROVE  /\ granted' \in [Connections -> Users \cup {None}]
                 /\ live' \in [Connections -> SUBSET Tenants]
      BY <2>2 DEF GrantChanges, Typed, TypeOK
    <2>3. QED BY <2>1, <2>2
  <1>2. events' \in 0 .. MaxEvents
    BY EventType DEF Consent, GrantChanges, Typed
  <1>3. busy' \in [Listers -> BOOLEAN]
    BY DisturbType DEF Consent, GrantChanges
  <1>4. UNCHANGED <<tableVars, listVars, request>>
    BY DEF Consent, GrantChanges
  <1>5. QED BY <1>1, <1>2, <1>3, <1>4 DEF Typed, TypeOK, Connects, tableVars, listVars

LEMMA InsertType ==
  ASSUME Typed, NEW p \in Listers, NEW t \in Tenants, Insert(p, t)
  PROVE  Typed'
  <1> DEFINE j == [job[p] EXCEPT !.wants = @ \ {t}]
  <1>1. job[p] \in Job
    BY DEF Typed, TypeOK
  <1>2. j \in Job /\ j.conn = job[p].conn
    BY <1>1 DEF Job
  <1>3. job[p].conn \in Connections
    BY DEF Insert, Typed, Connects
  <1>4. job' = [job EXCEPT ![p] = j]
    BY DEF Insert
  <1>5. pending' \in [Listers -> SUBSET Tenants]
    BY DEF Insert, Typed, TypeOK
  <1>6. loaded' \in [Listers -> [Tenants -> Company \cup {None}]]
    BY DEF Insert, Typed, TypeOK
  <1>7. UNCHANGED <<xeroVars, tableVars, queue, request, busy, events>>
    BY DEF Insert
  <1> HIDE DEF j
  <1>8. QED BY <1>2, <1>3, <1>4, <1>5, <1>6, <1>7, OwnStepType

\* The three ways a session breaks off.
LEMMA BreakType ==
  ASSUME Typed, NEW p \in Listers,
         \/ \E t \in Tenants : Conflict(p, t)
         \/ Deadlock(p)
         \/ HookFail(p)
         \/ RecFail /\ p = Reconciler
  PROVE  Typed'
  <1>1. Raise(p)
    BY DEF Conflict, Deadlock, HookFail, RecFail
  <1>2. QED BY <1>1, RaiseType

LEMMA StartType ==
  ASSUME Typed, NEW w \in Handlers, NEW c \in Connections, Start(w, c)
  PROVE  Typed'
  <1> DEFINE j == [NoJob EXCEPT !.step = "list", !.conn = c, !.held = holder[granted[c]]]
  <1>1. w \in Listers
    BY DEF Listers
  <1>2. granted[c] \in Users /\ holder[granted[c]] \in Connections \cup {None}
    BY DEF Start, Typed, TypeOK
  <1>3. j \in Job /\ j.conn = c
    BY <1>2 DEF NoJob, Job, Steps
  <1>4. job' = [job EXCEPT ![w] = j]
    BY DEF Start
  <1> HIDE DEF j
  <1>5. job' \in [Listers -> Job]
    BY <1>3, <1>4 DEF Typed, TypeOK
  <1>6. Connects'
    BY <1>1, <1>3, <1>4 DEF Typed, TypeOK, Connects
  <1>7. events' \in 0 .. MaxEvents
    BY EventType DEF Start, Typed
  <1>8. UNCHANGED <<xeroVars, tableVars, loaded, pending, queue, request, busy>>
    BY DEF Start
  <1>9. QED BY <1>5, <1>6, <1>7, <1>8 DEF Typed, TypeOK, xeroVars, tableVars

LEMMA HookReadType ==
  ASSUME Typed, NEW w \in Handlers,
         \/ HookList(w)
         \/ HookExclusions(w)
         \/ \E t \in Tenants : HookSelect(w, t)
  PROVE  Typed'
  <1>1. w \in Listers
    BY DEF Listers
  <1>2. job[w] \in Job
    BY <1>1 DEF Typed, TypeOK
  <1>3. CASE HookList(w)
    <2>1. CASE Raise(w)
      BY <2>1, <1>1, RaiseType
    <2>2. CASE ~ Raise(w)
      <3> DEFINE j == [job[w] EXCEPT !.step = "read", !.list = live[job[w].conn]]
      <3>1. job[w].conn \in Connections
        BY <1>1, <1>3 DEF HookList, Typed, Connects
      <3>2. live[job[w].conn] \in SUBSET Tenants
        BY <3>1 DEF Typed, TypeOK
      <3>3. j \in Job /\ j.conn = job[w].conn
        BY <1>2, <3>2 DEF Job, Steps
      <3>4. job' = [job EXCEPT ![w] = j]
        BY <1>3, <2>2 DEF HookList
      <3>5. UNCHANGED <<xeroVars, tableVars, loaded, pending, queue, request, busy, events>>
        BY <1>3, <2>2 DEF HookList
      <3>6. loaded' \in [Listers -> [Tenants -> Company \cup {None}]]
        BY <3>5 DEF Typed, TypeOK
      <3>7. pending' \in [Listers -> SUBSET Tenants]
        BY <3>5 DEF Typed, TypeOK
      <3> HIDE DEF j
      <3>8. QED BY <1>1, <3>1, <3>3, <3>4, <3>5, <3>6, <3>7, OwnStepType
    <2>3. QED BY <2>1, <2>2
  <1>4. CASE HookExclusions(w)
    <2> DEFINE j == [job[w] EXCEPT !.step = "orgs", !.skip = excluded,
                                   !.todo = job[w].list \ excluded]
    <2>1. excluded \in SUBSET Tenants /\ job[w].list \ excluded \in SUBSET Tenants
      BY <1>2 DEF Typed, TypeOK, Job
    <2>2. j \in Job /\ j.conn = job[w].conn
      BY <1>2, <2>1 DEF Job, Steps
    <2>3. job[w].conn \in Connections
      BY <1>1, <1>4 DEF HookExclusions, Typed, Connects
    <2>4. job' = [job EXCEPT ![w] = j]
      BY <1>4 DEF HookExclusions
    <2>5. UNCHANGED <<xeroVars, tableVars, loaded, pending, queue, request, busy, events>>
      BY <1>4 DEF HookExclusions
    <2>6. loaded' \in [Listers -> [Tenants -> Company \cup {None}]]
      BY <2>5 DEF Typed, TypeOK
    <2>7. pending' \in [Listers -> SUBSET Tenants]
      BY <2>5 DEF Typed, TypeOK
    <2> HIDE DEF j
    <2>8. QED BY <1>1, <2>2, <2>3, <2>4, <2>5, <2>6, <2>7, OwnStepType
  <1>5. CASE \E t \in Tenants : HookSelect(w, t)
    <2>1. PICK t \in Tenants : HookSelect(w, t)
      BY <1>5
    <2> DEFINE j == [job[w] EXCEPT !.todo = @ \ {t},
                                   !.wants = IF company[t] = None THEN {t} ELSE {}]
    <2>2. j \in Job /\ j.conn = job[w].conn
      BY <1>2 DEF Job
    <2>3. job[w].conn \in Connections
      BY <1>1, <2>1 DEF HookSelect, Typed, Connects
    <2>4. job' = [job EXCEPT ![w] = j]
      BY <2>1 DEF HookSelect
    <2>5. UNCHANGED <<xeroVars, tableVars, pending, queue, request, busy, events>>
      BY <2>1 DEF HookSelect
    <2>6. loaded' \in [Listers -> [Tenants -> Company \cup {None}]]
      BY <1>1, <2>1 DEF HookSelect, Typed, TypeOK
    <2>7. pending' \in [Listers -> SUBSET Tenants]
      BY <2>5 DEF Typed, TypeOK
    <2> HIDE DEF j
    <2>8. QED BY <1>1, <2>2, <2>3, <2>4, <2>5, <2>6, <2>7, OwnStepType
  <1>6. QED BY <1>3, <1>4, <1>5

\* The rows a commit leaves, of a connect handler and of the reconcile task.
LEMMA NewCompanyType ==
  ASSUME TypeOK, NEW t \in Tenants, NEW c \in Connections
  PROVE  /\ NewCompany(t, c) \in Company
         /\ NewCompany(t, c) # None
         /\ NewCompany(t, c).conn = c
         /\ NewCompany(t, c).active = TRUE
  <1>1. NewCompany(t, c) \in Company
    BY DEF TypeOK, NewCompany, Company
  <1>2. None \notin Company
    BY NoneAssumption
  <1>3. NewCompany(t, c).conn = c /\ NewCompany(t, c).active = TRUE
    BY DEF NewCompany
  <1>4. QED BY <1>1, <1>2, <1>3

LEMMA CommitType ==
  ASSUME Typed, NEW p \in Listers,
         \/ p \in Handlers /\ HookCommit(p)
         \/ p = Reconciler /\ RecCommit
  PROVE  /\ job[p] \in Job
         /\ job[p].conn \in Connections
         /\ company' \in [Tenants -> Company \cup {None}]
         /\ Typed'
  <1>1. job[p] \in Job /\ job[p].conn \in Connections
    BY DEF HookCommit, RecCommit, Ready, Typed, TypeOK, Connects
  <1>2. company' \in [Tenants -> Company \cup {None}]
    <2>1. CASE p \in Handlers /\ HookCommit(p)
      <3>1. company' = Connected(p)
        BY <2>1 DEF HookCommit
      <3>2. ASSUME NEW t \in Tenants
            PROVE  Connected(p)[t] \in Company \cup {None}
        <4>1. CASE t \in pending[p]
          BY <1>1, <4>1, NewCompanyType DEF Connected, Typed
        <4>2. CASE t \notin pending[p] /\ Repointed(p, t)
          <5>1. company[t] # None
            BY <2>1, <4>2 DEF HookCommit, Repointed, Gone
          <5>2. company[t] \in Company
            BY <5>1 DEF Typed, TypeOK
          <5>3. [company[t] EXCEPT !.conn = job[p].conn] \in Company
            BY <1>1, <5>2 DEF Company
          <5>4. QED BY <4>2, <5>3 DEF Connected
        <4>3. CASE t \notin pending[p] /\ ~ Repointed(p, t)
          BY <4>3 DEF Connected, Typed, TypeOK
        <4>4. QED BY <4>1, <4>2, <4>3
      <3>3. QED BY <3>1, <3>2 DEF Connected
    <2>2. CASE p = Reconciler /\ RecCommit
      <3>1. company' = Reconciled
        BY <2>2 DEF RecCommit
      <3>2. ASSUME NEW t \in Tenants
            PROVE  Reconciled[t] \in Company \cup {None}
        <4>1. CASE t \in pending[Reconciler]
          BY <1>1, <2>2, <4>1, NewCompanyType DEF Reconciled, Typed
        <4>2. CASE t \notin pending[Reconciler] /\ Switched(t)
          <5>1. company[t] # None
            BY <2>2, <4>2 DEF RecCommit, Switched, Gone
          <5>2. company[t] \in Company
            BY <5>1 DEF Typed, TypeOK
          <5>3. Covered(t) \in BOOLEAN
            BY DEF Covered
          <5>4. [company[t] EXCEPT !.active = Covered(t)] \in Company
            BY <5>2, <5>3 DEF Company
          <5>5. QED BY <4>2, <5>4 DEF Reconciled
        <4>3. CASE t \notin pending[Reconciler] /\ ~ Switched(t)
          BY <4>3 DEF Reconciled, Typed, TypeOK
        <4>4. QED BY <4>1, <4>2, <4>3
      <3>3. QED BY <3>1, <3>2 DEF Reconciled
    <2>3. QED BY <2>1, <2>2
  <1>3. holder' \in [Users -> Connections \cup {None}]
    BY <1>1 DEF HookCommit, RecCommit, Typed, TypeOK
  <1>4. Finish(p) /\ busy' \in [Listers -> BOOLEAN]
    BY DisturbType DEF HookCommit, RecCommit
  <1>5. UNCHANGED <<xeroVars, retired, excluded, queue, request, events>>
    BY DEF HookCommit, RecCommit
  <1>6. QED BY <1>1, <1>2, <1>3, <1>4, <1>5, FinishEffect DEF Typed, TypeOK, xeroVars

LEMMA RecReadType ==
  ASSUME Typed,
         \/ RecStart
         \/ \E c \in Connections : RecListed(c) \/ RecUnlisted(c)
         \/ RecLoad
  PROVE  Typed'
  <1>1. Reconciler \in Listers
    BY DEF Listers
  <1>2. CASE RecStart
    <2>1. queue' \subseteq Connections
      BY <1>2 DEF RecStart, Typed, TypeOK
    <2>2. QED BY <1>2, <2>1 DEF RecStart, Typed, TypeOK, Connects, xeroVars, tableVars
  <1>3. ASSUME NEW c \in Connections, RecListed(c)
        PROVE  Typed'
    <2> DEFINE j == [NoJob EXCEPT !.step = "read", !.conn = c, !.list = live[c]]
    <2>1. live[c] \in SUBSET Tenants
      BY DEF Typed, TypeOK
    <2>2. j \in Job /\ j.conn = c
      BY <2>1 DEF NoJob, Job, Steps
    <2>3. job' = [job EXCEPT ![Reconciler] = j]
      BY <1>3 DEF RecListed
    <2> HIDE DEF j
    <2>4. job' \in [Listers -> Job]
      BY <2>2, <2>3 DEF Typed, TypeOK
    <2>5. Connects'
      BY <1>1, <2>2, <2>3 DEF Typed, TypeOK, Connects
    <2>6. queue' \subseteq Connections
      BY <1>3 DEF RecListed, Typed, TypeOK
    <2>7. QED BY <1>3, <2>4, <2>5, <2>6 DEF RecListed, Typed, TypeOK, xeroVars, tableVars
  <1>4. ASSUME NEW c \in Connections, RecUnlisted(c)
        PROVE  Typed'
    <2>1. queue' \subseteq Connections
      BY <1>4 DEF RecUnlisted, Typed, TypeOK
    <2>2. QED BY <1>4, <2>1 DEF RecUnlisted, Typed, TypeOK, Connects, xeroVars, tableVars
  <1>5. CASE RecLoad
    <2> DEFINE known == OnConnection(job[Reconciler].conn)
               j == [job[Reconciler] EXCEPT !.step = "orgs",
                       !.wants = @ \cup (job[Reconciler].list \ known)]
    <2>1. job[Reconciler] \in Job
      BY <1>1 DEF Typed, TypeOK
    <2>2. j \in Job /\ j.conn = job[Reconciler].conn
      BY <2>1 DEF Job, Steps
    <2>3. job[Reconciler].conn \in Connections
      BY <1>1, <1>5 DEF RecLoad, Typed, Connects
    <2>4. job' = [job EXCEPT ![Reconciler] = j]
      BY <1>5 DEF RecLoad
    <2>5. UNCHANGED <<xeroVars, tableVars, pending, queue, request, busy, events>>
      BY <1>5 DEF RecLoad
    <2>6. [t \in Tenants |-> IF t \in known THEN company[t] ELSE None]
            \in [Tenants -> Company \cup {None}]
      BY DEF Typed, TypeOK
    <2>7. loaded' \in [Listers -> [Tenants -> Company \cup {None}]]
      BY <1>5, <2>6 DEF RecLoad, Typed, TypeOK
    <2>8. pending' \in [Listers -> SUBSET Tenants]
      BY <2>5 DEF Typed, TypeOK
    <2> HIDE DEF j
    <2>9. QED BY <1>1, <2>2, <2>3, <2>4, <2>5, <2>7, <2>8, OwnStepType
  <1>6. QED BY <1>2, <1>3, <1>4, <1>5

LEMMA AskType ==
  ASSUME Typed, NEW r \in Requests, NEW t \in Tenants,
         NEW op \in {"disconnect", "reconnect", "remove", "forget"}, Ask(r, op, t)
  PROVE  Typed'
  <1> DEFINE q == [op |-> op, tenant |-> t, row |-> company[t]]
  <1>1. company[t] \in Company
    BY DEF Ask, Typed, TypeOK
  <1>2. q \in Request
    BY <1>1 DEF Request, Ops
  <1>3. request' = [request EXCEPT ![r] = q]
    BY DEF Ask
  <1> HIDE DEF q
  <1>4. request' \in [Requests -> Request \cup {None}]
    BY <1>2, <1>3 DEF Typed, TypeOK
  <1>5. events' \in 0 .. MaxEvents
    BY EventType DEF Ask, Typed
  <1>6. UNCHANGED <<xeroVars, tableVars, listVars, busy>>
    BY DEF Ask
  <1>7. QED BY <1>4, <1>5, <1>6 DEF Typed, TypeOK, Connects, xeroVars, tableVars, listVars

LEMMA UserType ==
  ASSUME Typed, NEW r \in Requests, UserStep(r)
  PROVE  Typed'
  <1>1. request[r] \in Request /\ request[r].tenant \in Tenants
    BY DEF UserStep, Disconnect, Reconnect, Revoke, Remove, Typed, TypeOK, Request
  <1>2. ASSUME NEW on \in BOOLEAN, Switch(r, request[r], on)
        PROVE  Typed'
    <2> DEFINE u == request[r].tenant
    <2>1. company' \in [Tenants -> Company \cup {None}]
      <3>1. CASE Same(request[r]) /\ request[r].row.active # on
        <4>1. company[u] \in Company
          BY <1>1, <3>1 DEF Same, Typed, TypeOK
        <4>2. [company[u] EXCEPT !.active = on] \in Company
          BY <4>1 DEF Company
        <4>3. company' = [company EXCEPT ![u] = [company[u] EXCEPT !.active = on]]
          BY <1>2, <3>1 DEF Switch
        <4>4. QED BY <1>1, <4>2, <4>3 DEF Typed, TypeOK
      <3>2. CASE ~ (Same(request[r]) /\ request[r].row.active # on)
        BY <1>2, <3>2 DEF Switch, Typed, TypeOK
      <3>3. QED BY <3>1, <3>2
    <2>2. request' \in [Requests -> Request \cup {None}]
      BY <1>2 DEF Switch, Done, Typed, TypeOK
    <2>3. busy' \in [Listers -> BOOLEAN]
      BY <1>2, DisturbType DEF Switch
    <2>4. UNCHANGED <<xeroVars, holder, retired, excluded, listVars, events>>
      BY <1>2 DEF Switch
    <2>5. QED BY <2>1, <2>2, <2>3, <2>4 DEF Typed, TypeOK, Connects, xeroVars, listVars
  <1>3. CASE Revoke(r)
    <2> DEFINE q == [request[r] EXCEPT !.op = "revoked"]
    <2>1. q \in Request
      BY <1>1 DEF Request, Ops
    <2>2. request' = [request EXCEPT ![r] = q]
      BY <1>3 DEF Revoke
    <2> HIDE DEF q
    <2>3. request' \in [Requests -> Request \cup {None}]
      BY <2>1, <2>2 DEF Typed, TypeOK
    <2>4. live' \in [Connections -> SUBSET Tenants]
      BY SMTT(30), <1>3 DEF Revoke, Typed, TypeOK
    <2>5. busy' \in [Listers -> BOOLEAN]
      BY <1>3, DisturbType DEF Revoke, Typed, TypeOK
    <2>6. UNCHANGED <<granted, tableVars, listVars, events>>
      BY <1>3 DEF Revoke
    <2>7. QED BY <2>3, <2>4, <2>5, <2>6 DEF Typed, TypeOK, Connects, tableVars, listVars
  <1>4. CASE Remove(r)
    <2>1. company' \in [Tenants -> Company \cup {None}]
      BY <1>4 DEF Remove, Typed, TypeOK
    <2>2. retired' \in [Tenants -> Nat]
      BY <1>1, <1>4 DEF Remove, Typed, TypeOK
    <2>3. excluded' \subseteq Tenants
      BY <1>1, <1>4 DEF Remove, Typed, TypeOK
    <2>4. request' \in [Requests -> Request \cup {None}]
      BY <1>4 DEF Remove, Done, Typed, TypeOK
    <2>5. busy' \in [Listers -> BOOLEAN]
      BY <1>4, DisturbType DEF Remove
    <2>6. UNCHANGED <<xeroVars, holder, listVars, events>>
      BY <1>4 DEF Remove
    <2>7. QED BY <2>1, <2>2, <2>3, <2>4, <2>5, <2>6
              DEF Typed, TypeOK, Connects, xeroVars, listVars
  <1>5. QED BY <1>2, <1>3, <1>4 DEF UserStep, Disconnect, Reconnect

LEMMA ReallowType ==
  ASSUME Typed, NEW t \in Tenants, Reallow(t)
  PROVE  Typed'
  <1>1. excluded' \subseteq Tenants
    BY DEF Reallow, Typed, TypeOK
  <1>2. events' \in 0 .. MaxEvents
    BY EventType DEF Reallow, Typed
  <1>3. busy' \in [Listers -> BOOLEAN]
    BY DisturbType DEF Reallow
  <1>4. UNCHANGED <<xeroVars, holder, company, retired, listVars, request>>
    BY DEF Reallow
  <1>5. QED BY <1>1, <1>2, <1>3, <1>4 DEF Typed, TypeOK, Connects, xeroVars, listVars

LEMMA TypeStep == Typed /\ [Next]_vars => Typed'
  <1> SUFFICES ASSUME Typed, [Next]_vars PROVE Typed'
    OBVIOUS
  <1>1. Reconciler \in Listers /\ Handlers \subseteq Listers
    BY DEF Listers
  <1>2. ASSUME NEW c \in Connections,
               \/ \E u \in Users, orgs \in SUBSET Tenants : Consent(u, c, orgs)
               \/ \E t \in Tenants : GrantChanges(c, t)
        PROVE  Typed'
    BY <1>2, XeroType
  <1>3. ASSUME NEW w \in Handlers, NEW c \in Connections, Start(w, c)
        PROVE  Typed'
    BY <1>3, StartType
  <1>4. ASSUME NEW w \in Handlers, HookStep(w)
        PROVE  Typed'
    BY <1>1, <1>4, HookReadType, InsertType, BreakType, CommitType DEF HookStep
  <1>5. CASE RecStep
    BY <1>1, <1>5, RecReadType, InsertType, BreakType, CommitType DEF RecStep, RecWork
  <1>6. ASSUME NEW r \in Requests, UserStep(r)
        PROVE  Typed'
    BY <1>6, UserType
  <1>7. ASSUME NEW r \in Requests, NEW t \in Tenants,
               NEW op \in {"disconnect", "reconnect", "remove", "forget"}, Ask(r, op, t)
        PROVE  Typed'
    BY <1>7, AskType
  <1>8. ASSUME NEW t \in Tenants, Reallow(t)
        PROVE  Typed'
    BY <1>8, ReallowType
  <1>9. CASE UNCHANGED vars
    BY <1>9 DEF vars, xeroVars, tableVars, listVars, Typed, TypeOK, Connects
  <1>10. QED BY <1>2, <1>3, <1>4, <1>5, <1>6, <1>7, <1>8, <1>9 DEF Next

(***************************************************************************)
(* Every variable keeps its type, and a session at work has a connection.  *)
(***************************************************************************)
THEOREM TypeCorrect == Spec => [](TypeOK /\ Connects)
  <1>1. Typed <=> (TypeOK /\ Connects)
    BY DEF Typed
  <1>2. Spec => []Typed
    BY InitType, TypeStep, PTL DEF Spec
  <1>3. QED BY <1>1, <1>2, PTL

-----------------------------------------------------------------------------
(* One uncommitted insert per org.                                         *)

Unique ==
  \A p \in Listers : \A t \in pending[p] :
    company[t] = None /\ \A q \in Others(p) : t \notin pending[q]

\* Nothing new is pending, and what is still has no row.
LEMMA UniqueKept ==
  ASSUME Unique,
         \A p \in Listers : pending'[p] \subseteq pending[p],
         \A p \in Listers : \A t \in pending'[p] : company'[t] = None
  PROVE  Unique'
  BY DEF Unique, Others

LEMMA UniqueRaise ==
  ASSUME Typed, Unique, NEW p \in Listers, Raise(p)
  PROVE  Unique'
  <1>1. company' = company
    BY DEF Raise, tableVars
  <1>2. \A q \in Listers : pending'[q] \subseteq pending[q]
    BY FinishEffect DEF Raise, Others
  <1>3. QED BY <1>1, <1>2, UniqueKept DEF Unique

LEMMA UniqueInsert ==
  ASSUME Typed, Unique, NEW p \in Listers, NEW t \in Tenants, Insert(p, t)
  PROVE  Unique'
  <1>1. /\ company' = company
        /\ company[t] = None
        /\ \A q \in Others(p) : t \notin pending[q]
    BY DEF Insert, tableVars
  <1>2. /\ pending'[p] = pending[p] \cup {t}
        /\ \A q \in Others(p) : pending'[q] = pending[q]
    BY DEF Insert, Typed, TypeOK, Others
  <1>3. QED BY <1>1, <1>2 DEF Unique, Others

\* The rows of a commit leave the orgs other sessions hold without one.
LEMMA UniqueCommit ==
  ASSUME Typed, Unique, NEW p \in Listers,
         \/ p \in Handlers /\ HookCommit(p)
         \/ p = Reconciler /\ RecCommit
  PROVE  Unique'
  <1>1. Finish(p)
    BY DEF HookCommit, RecCommit
  <1>2. /\ pending'[p] = {}
        /\ \A q \in Others(p) : pending'[q] = pending[q]
    BY <1>1, FinishEffect
  <1>3. ASSUME NEW q \in Others(p), NEW t \in pending[q]
        PROVE  company'[t] = None
    <2>1. /\ t \in Tenants
          /\ company[t] = None
          /\ t \notin pending[p]
      BY <1>3 DEF Unique, Typed, TypeOK, Others
    <2>2. CASE p \in Handlers /\ HookCommit(p)
      <3>1. ~ Repointed(p, t)
        BY <2>1, <2>2 DEF HookCommit, Repointed, Gone
      <3>2. QED BY <2>1, <2>2, <3>1 DEF HookCommit, Connected
    <2>3. CASE p = Reconciler /\ RecCommit
      <3>1. ~ Switched(t)
        BY <2>1, <2>3 DEF RecCommit, Switched, Gone
      <3>2. QED BY <2>1, <2>3, <3>1 DEF RecCommit, Reconciled
    <2>4. QED BY <2>2, <2>3
  <1>4. QED BY <1>2, <1>3, UniqueKept DEF Others

LEMMA UniqueUser ==
  ASSUME Typed, Unique, NEW r \in Requests, UserStep(r)
  PROVE  Unique'
  <1>1. request[r] # None => request[r].tenant \in Tenants
    BY DEF Typed, TypeOK, Request
  <1>2. pending' = pending
    BY DEF UserStep, Disconnect, Reconnect, Switch, Revoke, Remove, listVars
  <1>3. ASSUME NEW t \in Tenants, company[t] = None
        PROVE  company'[t] = None
    <2>1. CASE Disconnect(r) \/ Reconnect(r)
      BY <1>1, <1>3, <2>1 DEF Disconnect, Reconnect, Switch, Same, Typed, TypeOK
    <2>2. CASE Revoke(r)
      BY <1>3, <2>2 DEF Revoke, tableVars
    <2>3. CASE Remove(r)
      BY <1>1, <1>3, <2>3 DEF Remove, Typed, TypeOK
    <2>4. QED BY <2>1, <2>2, <2>3 DEF UserStep
  <1>4. QED BY <1>2, <1>3, UniqueKept DEF Unique, Typed, TypeOK

LEMMA UniqueStep == Typed /\ Unique /\ [Next]_vars => Unique'
  <1> SUFFICES ASSUME Typed, Unique, [Next]_vars PROVE Unique'
    OBVIOUS
  <1>1. Reconciler \in Listers /\ Handlers \subseteq Listers
    BY DEF Listers
  <1>2. ASSUME UNCHANGED <<pending, company>>
        PROVE  Unique'
    BY <1>2 DEF Unique
  <1>3. ASSUME NEW c \in Connections,
               \/ \E u \in Users, orgs \in SUBSET Tenants : Consent(u, c, orgs)
               \/ \E t \in Tenants : GrantChanges(c, t)
        PROVE  Unique'
    BY <1>2, <1>3 DEF Consent, GrantChanges, tableVars, listVars
  <1>4. ASSUME NEW w \in Handlers, NEW c \in Connections, Start(w, c)
        PROVE  Unique'
    BY <1>2, <1>4 DEF Start, tableVars
  <1>5. ASSUME NEW w \in Handlers, HookStep(w)
        PROVE  Unique'
    <2>1. CASE HookList(w) /\ ~ Raise(w)
      BY <1>2, <2>1 DEF HookList, tableVars
    <2>2. CASE HookExclusions(w)
      BY <1>2, <2>2 DEF HookExclusions, tableVars
    <2>3. CASE \E t \in Tenants : HookSelect(w, t)
      BY <1>2, <2>3 DEF HookSelect, tableVars
    <2>4. CASE \E t \in Tenants : Insert(w, t)
      BY <1>1, <2>4, UniqueInsert
    <2>5. CASE HookCommit(w)
      BY <1>1, <2>5, UniqueCommit
    <2>6. CASE Raise(w)
      BY <1>1, <2>6, UniqueRaise
    <2>7. QED BY <1>5, <2>1, <2>2, <2>3, <2>4, <2>5, <2>6
              DEF HookStep, Conflict, Deadlock, HookFail
  <1>6. CASE RecStep
    <2>1. CASE RecStart \/ RecLoad \/ \E c \in Connections : RecListed(c) \/ RecUnlisted(c)
      BY <1>2, <2>1 DEF RecStart, RecLoad, RecListed, RecUnlisted, tableVars
    <2>2. CASE \E t \in Tenants : Insert(Reconciler, t)
      BY <1>1, <2>2, UniqueInsert
    <2>3. CASE RecCommit
      BY <1>1, <2>3, UniqueCommit
    <2>4. CASE Raise(Reconciler)
      BY <1>1, <2>4, UniqueRaise
    <2>5. QED BY <1>6, <2>1, <2>2, <2>3, <2>4
              DEF RecStep, RecWork, Conflict, Deadlock, RecFail
  <1>7. ASSUME NEW r \in Requests, UserStep(r)
        PROVE  Unique'
    BY <1>7, UniqueUser
  <1>8. ASSUME NEW r \in Requests, NEW t \in Tenants,
               NEW op \in {"disconnect", "reconnect", "remove", "forget"}, Ask(r, op, t)
        PROVE  Unique'
    BY <1>2, <1>8 DEF Ask, tableVars, listVars
  <1>9. ASSUME NEW t \in Tenants, Reallow(t)
        PROVE  Unique'
    BY <1>2, <1>9 DEF Reallow, listVars
  <1>10. CASE UNCHANGED vars
    BY <1>2, <1>10 DEF vars, tableVars, listVars
  <1>11. QED BY <1>3, <1>4, <1>5, <1>6, <1>7, <1>8, <1>9, <1>10 DEF Next

-----------------------------------------------------------------------------
(* What a session knows is current as long as nobody disturbed it.         *)

Tables == <<granted, live, holder, company, excluded>>
Mine(p) == <<job[p], loaded[p], pending[p]>>

\* The steps of session p itself.
Own(p) == \/ p \in Handlers /\ ((\E c \in Connections : Start(p, c)) \/ HookStep(p))
          \/ p = Reconciler /\ RecStep

\* All the others leave what p holds alone, and tell it of what they change.
Elsewhere(p) ==
  /\ UNCHANGED Mine(p)
  /\ \/ job[p].step = "idle"
     \/ busy'[p]
     \/ busy'[p] = busy[p] /\ UNCHANGED Tables

LEMMA DisturbElsewhere ==
  ASSUME Typed, NEW p \in Listers, NEW q, q # p, Disturb(q), UNCHANGED Mine(p)
  PROVE  Elsewhere(p)
  BY DEF Disturb, Elsewhere

LEMMA RaiseElsewhere ==
  ASSUME Typed, NEW p \in Listers, NEW q \in Others(p), Raise(q)
  PROVE  Elsewhere(p)
  <1>1. UNCHANGED Mine(p)
    BY FinishEffect DEF Raise, Others, Mine
  <1>2. busy'[p] = busy[p] /\ UNCHANGED Tables
    BY DEF Raise, Others, Typed, TypeOK, Tables, xeroVars, tableVars
  <1>3. QED BY <1>1, <1>2 DEF Elsewhere

\* A step that changes neither the tables nor the observers.
LEMMA SilentElsewhere ==
  ASSUME NEW p \in Listers, UNCHANGED Mine(p), UNCHANGED <<xeroVars, tableVars, busy>>
  PROVE  Elsewhere(p)
  BY DEF Elsewhere, Tables, xeroVars, tableVars

LEMMA HookElsewhere ==
  ASSUME Typed, NEW p \in Listers, NEW w \in Handlers, w # p,
         (\E c \in Connections : Start(w, c)) \/ HookStep(w)
  PROVE  Elsewhere(p)
  <1>1. w \in Others(p)
    BY DEF Others, Listers
  <1>2. CASE Raise(w)
    BY <1>1, <1>2, RaiseElsewhere
  <1>3. CASE HookCommit(w)
    <2>1. UNCHANGED Mine(p)
      BY <1>1, <1>3, FinishEffect DEF HookCommit, Mine, Others
    <2>2. QED BY <1>1, <1>3, <2>1, DisturbElsewhere DEF HookCommit, Others
  <1>4. CASE \E c \in Connections : Start(w, c)
    <2>1. UNCHANGED Mine(p) /\ UNCHANGED <<xeroVars, tableVars, busy>>
      BY <1>1, <1>4 DEF Start, Mine, Others, Typed, TypeOK
    <2>2. QED BY <2>1, SilentElsewhere
  <1>5. CASE HookList(w) /\ ~ Raise(w)
    <2>1. UNCHANGED Mine(p) /\ UNCHANGED <<xeroVars, tableVars, busy>>
      BY <1>1, <1>5 DEF HookList, Mine, Others, Typed, TypeOK
    <2>2. QED BY <2>1, SilentElsewhere
  <1>6. CASE HookExclusions(w)
    <2>1. UNCHANGED Mine(p) /\ UNCHANGED <<xeroVars, tableVars, busy>>
      BY <1>1, <1>6 DEF HookExclusions, Mine, Others, Typed, TypeOK
    <2>2. QED BY <2>1, SilentElsewhere
  <1>7. ASSUME NEW t \in Tenants, HookSelect(w, t)
        PROVE  Elsewhere(p)
    <2>1. UNCHANGED Mine(p) /\ UNCHANGED <<xeroVars, tableVars, busy>>
      BY <1>1, <1>7 DEF HookSelect, Mine, Others, Typed, TypeOK
    <2>2. QED BY <2>1, SilentElsewhere
  <1>8. ASSUME NEW t \in Tenants, Insert(w, t)
        PROVE  Elsewhere(p)
    <2>1. UNCHANGED Mine(p) /\ UNCHANGED <<xeroVars, tableVars, busy>>
      BY <1>1, <1>8 DEF Insert, Mine, Others, Typed, TypeOK
    <2>2. QED BY <2>1, SilentElsewhere
  <1>9. QED BY <1>2, <1>3, <1>4, <1>5, <1>6, <1>7, <1>8
            DEF HookStep, Conflict, Deadlock, HookFail

LEMMA RecElsewhere ==
  ASSUME Typed, NEW p \in Listers, p # Reconciler, RecStep
  PROVE  Elsewhere(p)
  <1>1. Reconciler \in Others(p)
    BY DEF Others, Listers
  <1>2. CASE Raise(Reconciler)
    BY <1>1, <1>2, RaiseElsewhere
  <1>3. CASE RecCommit
    <2>1. UNCHANGED Mine(p)
      BY <1>1, <1>3, FinishEffect DEF RecCommit, Mine, Others
    <2>2. QED BY <1>1, <1>3, <2>1, DisturbElsewhere DEF RecCommit, Others
  <1>4. CASE RecStart
    <2>1. UNCHANGED Mine(p) /\ UNCHANGED <<xeroVars, tableVars, busy>>
      BY <1>4 DEF RecStart, Mine
    <2>2. QED BY <2>1, SilentElsewhere
  <1>5. ASSUME NEW c \in Connections, RecListed(c)
        PROVE  Elsewhere(p)
    <2>1. UNCHANGED Mine(p) /\ UNCHANGED <<xeroVars, tableVars, busy>>
      BY <1>1, <1>5 DEF RecListed, Mine, Others, Typed, TypeOK
    <2>2. QED BY <2>1, SilentElsewhere
  <1>6. ASSUME NEW c \in Connections, RecUnlisted(c)
        PROVE  Elsewhere(p)
    <2>1. UNCHANGED Mine(p) /\ UNCHANGED <<xeroVars, tableVars, busy>>
      BY <1>6 DEF RecUnlisted, Mine
    <2>2. QED BY <2>1, SilentElsewhere
  <1>7. CASE RecLoad
    <2>1. UNCHANGED Mine(p) /\ UNCHANGED <<xeroVars, tableVars, busy>>
      BY <1>1, <1>7 DEF RecLoad, Mine, Others, Typed, TypeOK
    <2>2. QED BY <2>1, SilentElsewhere
  <1>8. ASSUME NEW t \in Tenants, Insert(Reconciler, t)
        PROVE  Elsewhere(p)
    <2>1. UNCHANGED Mine(p) /\ UNCHANGED <<xeroVars, tableVars, busy>>
      BY <1>1, <1>8 DEF Insert, Mine, Others, Typed, TypeOK
    <2>2. QED BY <2>1, SilentElsewhere
  <1>9. QED BY <1>2, <1>3, <1>4, <1>5, <1>6, <1>7, <1>8
            DEF RecStep, RecWork, Conflict, Deadlock, RecFail

LEMMA FrameStep ==
  ASSUME Typed, [Next]_vars, NEW p \in Listers
  PROVE  Own(p) \/ Elsewhere(p)
  <1>1. None # p
    BY NoneAssumption
  <1>2. ASSUME NEW c \in Connections,
               \/ \E u \in Users, orgs \in SUBSET Tenants : Consent(u, c, orgs)
               \/ \E t \in Tenants : GrantChanges(c, t)
        PROVE  Elsewhere(p)
    <2>1. Disturb(None) /\ UNCHANGED Mine(p)
      BY <1>2 DEF Consent, GrantChanges, listVars, Mine
    <2>2. QED BY <1>1, <2>1, DisturbElsewhere
  <1>3. ASSUME NEW w \in Handlers, (\E c \in Connections : Start(w, c)) \/ HookStep(w)
        PROVE  Own(p) \/ Elsewhere(p)
    BY <1>3, HookElsewhere DEF Own
  <1>4. CASE RecStep
    BY <1>4, RecElsewhere DEF Own
  <1>5. ASSUME NEW r \in Requests, UserStep(r)
        PROVE  Elsewhere(p)
    <2>1. UNCHANGED Mine(p)
      BY <1>5 DEF UserStep, Disconnect, Reconnect, Switch, Revoke, Remove, listVars, Mine
    <2>2. CASE Disturb(None)
      BY <1>1, <2>1, <2>2, DisturbElsewhere
    <2>3. CASE ~ Disturb(None)
      <3>1. UNCHANGED <<xeroVars, tableVars, busy>>
        BY <1>5, <2>3 DEF UserStep, Disconnect, Reconnect, Switch, Revoke, Remove, xeroVars
      <3>2. QED BY <2>1, <3>1, SilentElsewhere
    <2>4. QED BY <2>2, <2>3
  <1>6. ASSUME NEW r \in Requests, NEW t \in Tenants,
               NEW op \in {"disconnect", "reconnect", "remove", "forget"}, Ask(r, op, t)
        PROVE  Elsewhere(p)
    <2>1. UNCHANGED Mine(p) /\ UNCHANGED <<xeroVars, tableVars, busy>>
      BY <1>6 DEF Ask, listVars, Mine
    <2>2. QED BY <2>1, SilentElsewhere
  <1>7. ASSUME NEW t \in Tenants, Reallow(t)
        PROVE  Elsewhere(p)
    <2>1. Disturb(None) /\ UNCHANGED Mine(p)
      BY <1>7 DEF Reallow, listVars, Mine
    <2>2. QED BY <1>1, <2>1, DisturbElsewhere
  <1>8. CASE UNCHANGED vars
    <2>1. UNCHANGED Mine(p) /\ UNCHANGED <<xeroVars, tableVars, busy>>
      BY <1>8 DEF vars, listVars, Mine
    <2>2. QED BY <2>1, SilentElsewhere
  <1>9. QED BY <1>2, <1>3, <1>4, <1>5, <1>6, <1>7, <1>8 DEF Next

\* Before it goes through the orgs a session holds nothing.
Fresh(p) ==
  job[p].step # "orgs" => /\ loaded[p] = NoRows
                          /\ pending[p] = {}
                          /\ job[p].todo = {}
                          /\ job[p].wants = {}

\* What an undisturbed reconcile of a connection knows of it.
RecKnows ==
  LET R == Reconciler  c == job[R].conn
  IN  (job[R].step # "idle" /\ ~ busy[R]) =>
        /\ job[R].list = live[c]
        /\ job[R].step = "orgs" =>
             /\ \A t \in Tenants :
                  loaded[R][t] = IF t \in OnConnection(c) THEN company[t] ELSE None
             /\ job[R].wants \cup pending[R] = live[c] \ OnConnection(c)

\* What an undisturbed connect handler knows.
HookKnows(w) ==
  LET c == job[w].conn
      orgs == live[c] \ excluded
  IN  (job[w].step # "idle" /\ ~ busy[w]) =>
        /\ granted[c] \in Users
        /\ job[w].held = holder[granted[c]]
        /\ job[w].step # "list" => job[w].list = live[c]
        /\ job[w].step = "orgs" =>
             /\ job[w].todo \cup job[w].wants \cup pending[w] \subseteq orgs
             /\ \A t \in Tenants : loaded[w][t] # None => t \in orgs /\ loaded[w][t] = company[t]
             /\ \A t \in orgs : \/ t \in job[w].todo \cup job[w].wants \cup pending[w]
                                \/ loaded[w][t] # None

Knowing == /\ \A p \in Listers : Fresh(p)
           /\ RecKnows
           /\ \A w \in Handlers : HookKnows(w)

LEMMA InitKnowing == Init => Knowing
  <1> SUFFICES ASSUME Init PROVE Knowing
    OBVIOUS
  <1>1. \A p \in Listers : /\ job[p] = NoJob
                           /\ loaded[p] = NoRows
                           /\ pending[p] = {}
    BY DEF Init
  <1>2. Reconciler \in Listers /\ Handlers \subseteq Listers
    BY DEF Listers
  <1>3. NoJob.step = "idle" /\ NoJob.todo = {} /\ NoJob.wants = {}
    BY DEF NoJob
  <1>4. \A p \in Listers : Fresh(p)
    BY <1>1, <1>3 DEF Fresh
  <1>5. RecKnows
    BY <1>1, <1>2, <1>3 DEF RecKnows
  <1>6. \A w \in Handlers : HookKnows(w)
    BY <1>1, <1>2, <1>3 DEF HookKnows
  <1>7. QED BY <1>4, <1>5, <1>6 DEF Knowing

LEMMA FreshElsewhere ==
  ASSUME NEW p \in Listers, Fresh(p), Elsewhere(p)
  PROVE  Fresh(p)'
  BY DEF Fresh, Elsewhere, Mine, NoRows

LEMMA RecKnowsElsewhere ==
  ASSUME RecKnows, Elsewhere(Reconciler)
  PROVE  RecKnows'
  BY DEF RecKnows, Elsewhere, Mine, Tables, OnConnection

LEMMA HookKnowsElsewhere ==
  ASSUME NEW w \in Handlers, HookKnows(w), Elsewhere(w)
  PROVE  HookKnows(w)'
  BY DEF HookKnows, Elsewhere, Mine, Tables

\* A session that ends holds and claims nothing.
LEMMA FreshFinish ==
  ASSUME Typed, NEW p \in Listers, Finish(p)
  PROVE  Fresh(p)' /\ job'[p].step = "idle"
  <1>1. job'[p] = NoJob /\ loaded'[p] = NoRows /\ pending'[p] = {}
    BY FinishEffect
  <1>2. NoJob.step = "idle" /\ NoJob.todo = {} /\ NoJob.wants = {}
    BY DEF NoJob
  <1>3. QED BY <1>1, <1>2 DEF Fresh, NoRows

LEMMA HookOwn ==
  ASSUME Typed, NEW w \in Handlers, Fresh(w), HookKnows(w), Own(w)
  PROVE  Fresh(w)' /\ HookKnows(w)'
  <1>1. w \in Listers /\ w # Reconciler
    BY ProcessAssumption DEF Listers
  <1>2. job[w] \in Job
    BY <1>1 DEF Typed, TypeOK
  <1>3. CASE Finish(w)
    BY <1>1, <1>3, FreshFinish DEF HookKnows
  <1>4. ASSUME NEW c \in Connections, Start(w, c)
        PROVE  Fresh(w)' /\ HookKnows(w)'
    <2> DEFINE j == [NoJob EXCEPT !.step = "list", !.conn = c, !.held = holder[granted[c]]]
    <2>1. j.step = "list" /\ j.conn = c /\ j.held = holder[granted[c]]
          /\ j.todo = {} /\ j.wants = {}
      BY DEF NoJob
    <2>2. job' = [job EXCEPT ![w] = j]
      BY <1>4 DEF Start
    <2> HIDE DEF j
    <2>3. job'[w] = j
      BY <1>1, <2>2 DEF Typed, TypeOK
    <2>4. granted[c] \in Users /\ job[w].step = "idle"
      BY <1>4 DEF Start, Typed, TypeOK
    <2>5. UNCHANGED <<granted, holder, loaded, pending>>
      BY <1>4 DEF Start, xeroVars, tableVars
    <2>6. Fresh(w)'
      BY <2>1, <2>3, <2>4, <2>5 DEF Fresh, NoRows
    <2>7. QED BY <2>1, <2>3, <2>4, <2>5, <2>6 DEF HookKnows
  <1>5. CASE HookList(w) /\ ~ Finish(w)
    <2> DEFINE j == [job[w] EXCEPT !.step = "read", !.list = live[job[w].conn]]
    <2>1. j.step = "read" /\ j.conn = job[w].conn /\ j.held = job[w].held
          /\ j.list = live[job[w].conn] /\ j.todo = job[w].todo /\ j.wants = job[w].wants
      BY <1>2 DEF Job
    <2>2. job' = [job EXCEPT ![w] = j]
      BY <1>5 DEF HookList, Raise
    <2> HIDE DEF j
    <2>3. job'[w] = j
      BY <1>1, <2>2 DEF Typed, TypeOK
    <2>4. UNCHANGED <<Tables, loaded, pending, busy>> /\ job[w].step = "list"
      BY <1>5 DEF HookList, Raise, Tables, xeroVars, tableVars
    <2>5. Fresh(w)'
      BY <2>1, <2>3, <2>4 DEF Fresh, NoRows
    <2>6. HookKnows(w)'
      BY <2>1, <2>3, <2>4 DEF HookKnows, Tables
    <2>7. QED BY <2>5, <2>6
  <1>6. CASE HookExclusions(w)
    <2> DEFINE j == [job[w] EXCEPT !.step = "orgs", !.skip = excluded,
                                   !.todo = job[w].list \ excluded]
    <2>1. j.step = "orgs" /\ j.conn = job[w].conn /\ j.held = job[w].held
          /\ j.list = job[w].list /\ j.todo = job[w].list \ excluded
          /\ j.wants = job[w].wants
      BY <1>2 DEF Job
    <2>2. job' = [job EXCEPT ![w] = j]
      BY <1>6 DEF HookExclusions
    <2> HIDE DEF j
    <2>3. job'[w] = j
      BY <1>1, <2>2 DEF Typed, TypeOK
    <2>4. UNCHANGED <<Tables, loaded, pending, busy>> /\ job[w].step = "read"
      BY <1>6 DEF HookExclusions, Tables, xeroVars, tableVars
    <2>5. Fresh(w)'
      BY <2>1, <2>3 DEF Fresh
    <2>6. /\ job[w].wants = {} /\ pending[w] = {}
          /\ \A t \in Tenants : loaded[w][t] = None
      BY <2>4 DEF Fresh, NoRows
    <2>7. HookKnows(w)'
      BY <2>1, <2>3, <2>4, <2>6 DEF HookKnows, Tables
    <2>8. QED BY <2>5, <2>7
  <1>7. ASSUME NEW t \in Tenants, HookSelect(w, t)
        PROVE  Fresh(w)' /\ HookKnows(w)'
    <2> DEFINE new == IF company[t] = None THEN {t} ELSE {}
               j == [job[w] EXCEPT !.todo = @ \ {t}, !.wants = new]
    <2>1. j.step = job[w].step /\ j.conn = job[w].conn /\ j.held = job[w].held
          /\ j.list = job[w].list /\ j.todo = job[w].todo \ {t} /\ j.wants = new
      BY <1>2 DEF Job
    <2>2. job' = [job EXCEPT ![w] = j]
      BY <1>7 DEF HookSelect
    <2> HIDE DEF j
    <2>3. job'[w] = j
      BY <1>1, <2>2 DEF Typed, TypeOK
    <2>4. /\ UNCHANGED <<Tables, pending, busy>>
          /\ job[w].step = "orgs" /\ job[w].wants = {} /\ t \in job[w].todo
      BY <1>7 DEF HookSelect, Tables, xeroVars, tableVars
    <2>5. Fresh(w)'
      BY <2>1, <2>3, <2>4 DEF Fresh
    <2>6. /\ loaded'[w][t] = company[t]
          /\ \A u \in Tenants : u # t => loaded'[w][u] = loaded[w][u]
      BY <1>1, <1>7 DEF HookSelect, Typed, TypeOK
    <2>7. ASSUME ~ busy'[w]
          PROVE  LET c == job[w].conn
                     orgs == live[c] \ excluded
                 IN  /\ j.todo \cup j.wants \cup pending[w] \subseteq orgs
                     /\ \A u \in Tenants :
                          loaded'[w][u] # None => u \in orgs /\ loaded'[w][u] = company[u]
                     /\ \A u \in orgs : \/ u \in j.todo \cup j.wants \cup pending[w]
                                        \/ loaded'[w][u] # None
      <3> DEFINE orgs == live[job[w].conn] \ excluded
      <3>1. /\ job[w].todo \cup job[w].wants \cup pending[w] \subseteq orgs
            /\ \A u \in Tenants : loaded[w][u] # None => u \in orgs /\ loaded[w][u] = company[u]
            /\ \A u \in orgs : \/ u \in job[w].todo \cup job[w].wants \cup pending[w]
                               \/ loaded[w][u] # None
        BY <2>4, <2>7 DEF HookKnows
      <3>2. orgs \subseteq Tenants
        BY <1>1, <2>4 DEF Typed, TypeOK, Connects
      <3> HIDE DEF orgs
      <3>3. j.todo \cup j.wants \cup pending[w] \subseteq orgs
        BY <2>1, <2>4, <3>1
      <3>4. \A u \in Tenants :
              loaded'[w][u] # None => u \in orgs /\ loaded'[w][u] = company[u]
        BY <2>4, <2>6, <3>1
      <3>5. ASSUME NEW u \in orgs
            PROVE  u \in j.todo \cup j.wants \cup pending[w] \/ loaded'[w][u] # None
        BY <2>1, <2>4, <2>6, <3>1, <3>2
      <3>6. QED BY <3>3, <3>4, <3>5 DEF orgs
    <2>8. HookKnows(w)'
      BY <2>1, <2>3, <2>4, <2>7 DEF HookKnows, Tables
    <2>9. QED BY <2>5, <2>8
  <1>8. ASSUME NEW t \in Tenants, Insert(w, t)
        PROVE  Fresh(w)' /\ HookKnows(w)'
    <2> DEFINE j == [job[w] EXCEPT !.wants = @ \ {t}]
    <2>1. j.step = job[w].step /\ j.conn = job[w].conn /\ j.held = job[w].held
          /\ j.list = job[w].list /\ j.todo = job[w].todo /\ j.wants = job[w].wants \ {t}
      BY <1>2 DEF Job
    <2>2. job' = [job EXCEPT ![w] = j]
      BY <1>8 DEF Insert
    <2> HIDE DEF j
    <2>3. job'[w] = j
      BY <1>1, <2>2 DEF Typed, TypeOK
    <2>4. /\ UNCHANGED <<Tables, loaded, busy>>
          /\ job[w].step = "orgs" /\ t \in job[w].wants
      BY <1>8 DEF Insert, Tables, xeroVars, tableVars
    <2>5. pending'[w] = pending[w] \cup {t}
      BY <1>1, <1>8 DEF Insert, Typed, TypeOK
    <2>6. Fresh(w)'
      BY <2>1, <2>3, <2>4 DEF Fresh
    <2>7. j.todo \cup j.wants \cup pending'[w]
            = job[w].todo \cup job[w].wants \cup pending[w]
      BY <2>1, <2>4, <2>5
    <2>8. HookKnows(w)'
      BY <2>1, <2>3, <2>4, <2>7 DEF HookKnows, Tables
    <2>9. QED BY <2>6, <2>8
  <1>9. QED BY <1>1, <1>3, <1>4, <1>5, <1>6, <1>7, <1>8
            DEF Own, HookStep, Conflict, Deadlock, HookFail, HookCommit, Raise

LEMMA RecOwn ==
  ASSUME Typed, Unique, Fresh(Reconciler), RecKnows, RecStep
  PROVE  Fresh(Reconciler)' /\ RecKnows'
  <1> DEFINE R == Reconciler
  <1>1. R \in Listers
    BY DEF Listers
  <1>2. job[R] \in Job
    BY <1>1 DEF Typed, TypeOK
  <1>3. CASE Finish(R)
    BY <1>1, <1>3, FreshFinish DEF RecKnows
  <1>4. CASE RecStart \/ \E c \in Connections : RecUnlisted(c)
    <2>1. UNCHANGED <<job, loaded, pending>> /\ job[R].step = "idle"
      BY <1>4 DEF RecStart, RecUnlisted, RecIdle
    <2>2. QED BY <2>1 DEF Fresh, NoRows, RecKnows
  <1>5. ASSUME NEW c \in Connections, RecListed(c)
        PROVE  Fresh(R)' /\ RecKnows'
    <2> DEFINE j == [NoJob EXCEPT !.step = "read", !.conn = c, !.list = live[c]]
    <2>1. j.step = "read" /\ j.conn = c /\ j.list = live[c] /\ j.todo = {} /\ j.wants = {}
      BY DEF NoJob
    <2>2. job' = [job EXCEPT ![R] = j]
      BY <1>5 DEF RecListed
    <2> HIDE DEF j
    <2>3. job'[R] = j
      BY <1>1, <2>2 DEF Typed, TypeOK
    <2>4. UNCHANGED <<live, loaded, pending>> /\ job[R].step = "idle"
      BY <1>5 DEF RecListed, RecIdle, xeroVars
    <2>5. Fresh(R)'
      BY <2>1, <2>3, <2>4 DEF Fresh, NoRows
    <2>6. RecKnows'
      BY <2>1, <2>3, <2>4 DEF RecKnows
    <2>7. QED BY <2>5, <2>6
  <1>6. CASE RecLoad
    <2> DEFINE known == OnConnection(job[R].conn)
               j == [job[R] EXCEPT !.step = "orgs",
                                   !.wants = @ \cup (job[R].list \ known)]
               rows == [t \in Tenants |-> IF t \in known THEN company[t] ELSE None]
    <2>1. j.step = "orgs" /\ j.conn = job[R].conn /\ j.list = job[R].list
          /\ j.wants = job[R].wants \cup (job[R].list \ known)
      BY <1>2 DEF Job
    <2>2. job' = [job EXCEPT ![R] = j] /\ loaded' = [loaded EXCEPT ![R] = rows]
      BY <1>6 DEF RecLoad
    <2> HIDE DEF j
    <2>3. job'[R] = j
      BY <1>1, <2>2 DEF Typed, TypeOK
    <2>4. \A t \in Tenants : loaded'[R][t] = IF t \in known THEN company[t] ELSE None
      BY <1>1, <2>2 DEF Typed, TypeOK
    <2>5. UNCHANGED <<live, company, pending, busy>> /\ job[R].step = "read"
      BY <1>6 DEF RecLoad, xeroVars, tableVars
    <2>6. job[R].wants = {} /\ pending[R] = {}
      BY <2>5 DEF Fresh
    <2>7. known = {t \in Tenants : company'[t] # None /\ company'[t].conn = job'[R].conn}
      BY <2>1, <2>3, <2>5 DEF OnConnection
    <2>8. Fresh(R)'
      BY <2>1, <2>3 DEF Fresh
    <2> HIDE DEF known
    <2>9. /\ job'[R].wants \cup pending'[R] = job[R].list \ known
          /\ job'[R].list = job[R].list /\ job'[R].conn = job[R].conn
      BY <2>1, <2>3, <2>5, <2>6
    <2>10. RecKnows'
      BY <2>4, <2>5, <2>7, <2>9 DEF RecKnows, OnConnection
    <2>11. QED BY <2>8, <2>10
  <1>7. ASSUME NEW t \in Tenants, Insert(R, t)
        PROVE  Fresh(R)' /\ RecKnows'
    <2> DEFINE j == [job[R] EXCEPT !.wants = @ \ {t}]
    <2>1. j.step = job[R].step /\ j.conn = job[R].conn /\ j.list = job[R].list
          /\ j.wants = job[R].wants \ {t}
      BY <1>2 DEF Job
    <2>2. job' = [job EXCEPT ![R] = j]
      BY <1>7 DEF Insert
    <2> HIDE DEF j
    <2>3. job'[R] = j
      BY <1>1, <2>2 DEF Typed, TypeOK
    <2>4. /\ UNCHANGED <<live, company, loaded, busy>>
          /\ job[R].step = "orgs" /\ t \in job[R].wants
      BY <1>7 DEF Insert, xeroVars, tableVars
    <2>5. pending'[R] = pending[R] \cup {t}
      BY <1>1, <1>7 DEF Insert, Typed, TypeOK
    <2>6. j.wants \cup pending'[R] = job[R].wants \cup pending[R]
      BY <2>1, <2>4, <2>5
    <2>7. Fresh(R)'
      BY <2>1, <2>3, <2>4 DEF Fresh
    <2>8. RecKnows'
      BY <2>1, <2>3, <2>4, <2>6 DEF RecKnows, OnConnection
    <2>9. QED BY <2>7, <2>8
  <1>8. QED BY <1>1, <1>3, <1>4, <1>5, <1>6, <1>7
            DEF RecStep, RecWork, Conflict, Deadlock, RecFail, RecCommit, Raise

LEMMA KnowingStep == Typed /\ Unique /\ Knowing /\ [Next]_vars => Knowing'
  <1> SUFFICES ASSUME Typed, Unique, Knowing, [Next]_vars PROVE Knowing'
    OBVIOUS
  <1>1. Reconciler \in Listers /\ Reconciler \notin Handlers
    BY ProcessAssumption DEF Listers
  <1>2. Handlers \subseteq Listers /\ \A p \in Listers : p \in Handlers \/ p = Reconciler
    BY DEF Listers
  <1>3. Fresh(Reconciler) /\ RecKnows
    BY <1>1 DEF Knowing
  <1>4. Fresh(Reconciler)' /\ RecKnows'
    <2>1. CASE Own(Reconciler)
      BY <1>1, <1>3, <2>1, RecOwn DEF Own
    <2>2. CASE Elsewhere(Reconciler)
      BY <1>1, <1>3, <2>2, FreshElsewhere, RecKnowsElsewhere
    <2>3. QED BY <1>1, <2>1, <2>2, FrameStep
  <1>5. ASSUME NEW w \in Handlers
        PROVE  Fresh(w)' /\ HookKnows(w)'
    <2>1. w \in Listers /\ Fresh(w) /\ HookKnows(w)
      BY <1>2 DEF Knowing
    <2>2. CASE Own(w)
      BY <2>1, <2>2, HookOwn
    <2>3. CASE Elsewhere(w)
      BY <2>1, <2>3, FreshElsewhere, HookKnowsElsewhere
    <2>4. QED BY <2>1, <2>2, <2>3, FrameStep
  <1>6. ASSUME NEW p \in Listers
        PROVE  Fresh(p)'
    BY <1>2, <1>4, <1>5
  <1>7. QED BY <1>4, <1>5, <1>6 DEF Knowing

-----------------------------------------------------------------------------
(* What the commits leave.                                                 *)

LEMMA ReconcileExactStep ==
  ASSUME Typed, Unique, RecKnows
  PROVE  ReconcileExact
  <1> DEFINE R == Reconciler
             c == job[R].conn
  <1> SUFFICES ASSUME RecCommit, ~ busy[R]
               PROVE  /\ \A t \in live[c] : company'[t] # None
                      /\ \A t \in Tenants :
                           (company'[t] # None /\ company'[t].conn = c) =>
                             (company'[t].active <=> t \in live[c])
    BY DEF ReconcileExact
  <1>1. R \in Listers /\ c \in Connections /\ job[R].step = "orgs" /\ job[R].wants = {}
    BY DEF Listers, RecCommit, Ready, Typed, Connects
  <1>2. live[c] \subseteq Tenants
    BY <1>1 DEF Typed, TypeOK
  <1>3. /\ job[R].list = live[c]
        /\ \A t \in Tenants :
             loaded[R][t] = IF t \in OnConnection(c) THEN company[t] ELSE None
        /\ pending[R] = live[c] \ OnConnection(c)
    BY <1>1 DEF RecKnows
  <1>4. ASSUME NEW t \in Tenants, t \in pending[R]
        PROVE  company'[t] # None /\ company'[t].active /\ t \in live[c]
    <2>1. company'[t] = NewCompany(t, c)
      BY <1>4 DEF RecCommit, Reconciled
    <2>2. company'[t] # None /\ company'[t].active = TRUE
      BY ZenonT(40), <1>1, <2>1, NewCompanyType DEF Typed
    <2>3. t \in live[c]
      BY <1>3, <1>4
    <2>4. QED BY <2>2, <2>3
  <1>5. ASSUME NEW t \in Tenants, t \in OnConnection(c)
        PROVE  company'[t] # None /\ (company'[t].active <=> t \in live[c])
    <2>1. company[t] \in Company /\ loaded[R][t] = company[t] /\ company[t] # None
      BY <1>3, <1>5 DEF OnConnection, Typed, TypeOK
    <2>2. t \notin pending[R]
      BY <1>3, <1>5
    <2>3. company' \in [Tenants -> Company \cup {None}] /\ None \notin Company
      BY <1>1, CommitType, NoneAssumption
    <2>4. CASE Switched(t)
      <3>1. company'[t] = [company[t] EXCEPT !.active = Covered(t)]
        BY <2>2, <2>4 DEF RecCommit, Reconciled
      <3>2. Covered(t) \in BOOLEAN /\ (Covered(t) <=> t \in live[c])
        BY <1>3 DEF Covered
      <3>3. company'[t] \in Company /\ company'[t].active = Covered(t)
        BY <2>1, <3>1, <3>2 DEF Company
      <3>4. QED BY <2>3, <3>2, <3>3
    <2>5. CASE ~ Switched(t)
      <3>1. company'[t] = company[t]
        BY <2>2, <2>5 DEF RecCommit, Reconciled
      <3>2. company[t].active = Covered(t)
        BY <2>1, <2>5 DEF Switched
      <3>3. Covered(t) <=> t \in live[c]
        BY <1>3 DEF Covered
      <3>4. company'[t].active <=> t \in live[c]
        BY <3>1, <3>2, <3>3
      <3>5. QED BY <2>1, <3>1, <3>4
    <2>6. QED BY <2>4, <2>5
  <1>6. ASSUME NEW t \in Tenants, t \notin pending[R], t \notin OnConnection(c),
               company'[t] # None
        PROVE  company'[t].conn # c
    <2>1. company'[t] = company[t]
      BY <1>3, <1>6 DEF RecCommit, Reconciled, Switched
    <2>2. QED BY <1>6, <2>1 DEF OnConnection
  <1>7. ASSUME NEW t \in live[c]
        PROVE  company'[t] # None
    BY <1>2, <1>3, <1>4, <1>5
  <1>8. ASSUME NEW t \in Tenants, company'[t] # None, company'[t].conn = c
        PROVE  company'[t].active <=> t \in live[c]
    BY <1>4, <1>5, <1>6, <1>8
  <1>9. QED BY <1>7, <1>8

LEMMA ConnectCompleteStep ==
  ASSUME Typed, Unique, NEW w \in Handlers, HookKnows(w)
  PROVE  ConnectComplete(w)
  <1> DEFINE c == job[w].conn
             orgs == live[c] \ excluded
  <1> SUFFICES ASSUME HookCommit(w), ~ busy[w]
               PROVE  /\ holder'[granted[c]] = c
                      /\ \A t \in Tenants :
                           IF t \in orgs
                             THEN company'[t] = IF company[t] = None THEN NewCompany(t, c)
                                                ELSE [company[t] EXCEPT !.conn = c]
                             ELSE company'[t] = company[t]
    BY DEF ConnectComplete
  <1>1. /\ w \in Listers /\ c \in Connections
        /\ job[w].step = "orgs" /\ job[w].wants = {} /\ job[w].todo = {}
    BY DEF Listers, HookCommit, Ready, Typed, Connects
  <1>2. /\ granted[c] \in Users
        /\ job[w].held = holder[granted[c]]
        /\ pending[w] \subseteq orgs
        /\ \A t \in Tenants : loaded[w][t] # None => t \in orgs /\ loaded[w][t] = company[t]
        /\ \A t \in orgs : t \in pending[w] \/ loaded[w][t] # None
    BY <1>1 DEF HookKnows
  <1>3. holder'[granted[c]] = c
    BY <1>2 DEF HookCommit, Typed, TypeOK
  <1>4. company' = Connected(w)
    BY DEF HookCommit
  <1> HIDE DEF orgs
  <1>5. ASSUME NEW t \in Tenants, t \in orgs
        PROVE  company'[t] = IF company[t] = None THEN NewCompany(t, c)
                             ELSE [company[t] EXCEPT !.conn = c]
    <2>1. CASE t \in pending[w]
      <3>1. company[t] = None
        BY <1>1, <2>1 DEF Unique
      <3>2. QED BY <1>4, <2>1, <3>1 DEF Connected
    <2>2. CASE t \notin pending[w]
      <3>1. loaded[w][t] = company[t] /\ company[t] # None /\ company[t] \in Company
        BY <1>2, <1>5, <2>2 DEF Typed, TypeOK
      <3>2. CASE company[t].conn = c
        <4>1. [company[t] EXCEPT !.conn = c] = company[t]
          BY <3>1, <3>2 DEF Company
        <4>2. QED BY <1>4, <2>2, <3>1, <3>2, <4>1 DEF Connected, Repointed
      <3>3. CASE company[t].conn # c
        BY <1>4, <2>2, <3>1, <3>3 DEF Connected, Repointed
      <3>4. QED BY <3>2, <3>3
    <2>3. QED BY <2>1, <2>2
  <1>6. ASSUME NEW t \in Tenants, t \notin orgs
        PROVE  company'[t] = company[t]
    BY <1>2, <1>4, <1>6 DEF Connected, Repointed
  <1>7. QED BY <1>3, <1>5, <1>6 DEF orgs

OrgInv == Typed /\ Unique /\ Knowing

ConnectsComplete == \A w \in Handlers : ConnectComplete(w)

LEMMA OrgInvariant == Spec => []OrgInv
  <1>1. Init => OrgInv
    BY InitType, InitKnowing DEF OrgInv, Init, Unique
  <1>2. OrgInv /\ [Next]_vars => OrgInv'
    BY TypeStep, UniqueStep, KnowingStep DEF OrgInv
  <1>3. QED BY <1>1, <1>2, PTL DEF Spec

(***************************************************************************)
(* A reconcile of a connection during which nothing else changed leaves    *)
(* exactly the orgs of the grant active on it.                             *)
(***************************************************************************)
THEOREM ReconcileTheorem == Spec => QuietReconcileIsExact
  <1>1. OrgInv => ReconcileExact
    BY ReconcileExactStep DEF OrgInv, Knowing
  <1>2. OrgInv /\ [Next]_vars => [ReconcileExact]_vars
    BY <1>1
  <1>3. QED BY <1>2, OrgInvariant, PTL DEF Spec, QuietReconcileIsExact

(***************************************************************************)
(* A connect handler during which nothing else changed brings in every org *)
(* of the grant the firm has not removed, and nothing else.                *)
(***************************************************************************)
THEOREM ConnectTheorem == Spec => QuietConnectIsComplete
  <1>1. OrgInv => ConnectsComplete
    BY ConnectCompleteStep DEF OrgInv, Knowing, ConnectsComplete
  <1>2. OrgInv /\ [Next]_vars => [ConnectsComplete]_vars
    BY <1>1
  <1>3. Spec => [][ConnectsComplete]_vars
    BY <1>2, OrgInvariant, PTL DEF Spec
  <1>4. QED BY <1>3 DEF QuietConnectIsComplete, ConnectsComplete

-----------------------------------------------------------------------------
(* What ends the nightly task.                                             *)

\* Nobody else was at work, and nothing changed since the list was asked for.
Undisturbed == ~ busy[Reconciler] /\ \A w \in Handlers : job[w].step = "idle"

\* An org of the grant has its row on another connection.
SharedOrg == \E t \in job[Reconciler].list :
               company[t] # None /\ company[t].conn # job[Reconciler].conn

\* An org to insert that has a row by now has it on another connection.
LEMMA ConflictIsSharing ==
  ASSUME RecKnows, ~ busy[Reconciler], NEW t \in Tenants, Conflict(Reconciler, t)
  PROVE  SharedOrg
  <1> DEFINE R == Reconciler
             c == job[R].conn
  <1>1. job[R].step = "orgs" /\ t \in job[R].wants /\ company[t] # None
    BY DEF Conflict
  <1>2. job[R].list = live[c] /\ t \in live[c] /\ t \notin OnConnection(c)
    BY <1>1 DEF RecKnows
  <1>3. company[t].conn # c
    BY <1>1, <1>2 DEF OnConnection
  <1>4. QED BY <1>1, <1>2, <1>3 DEF SharedOrg

\* It takes another session at work to wait for.
LEMMA DeadlockTakesTwo ==
  ASSUME Knowing, Undisturbed
  PROVE  ~ Deadlock(Reconciler)
  <1> SUFFICES ASSUME NEW q \in Others(Reconciler), job[q].wants # {} PROVE FALSE
    BY DEF Deadlock
  <1>1. q \in Handlers /\ q \in Listers
    BY DEF Others, Listers
  <1>2. job[q].step = "idle" /\ Fresh(q)
    BY <1>1 DEF Undisturbed, Knowing
  <1>3. QED BY <1>2 DEF Fresh

\* A row that was read and did not change since is still there.
LEMMA FailTakesAnother ==
  ASSUME RecKnows, ~ busy[Reconciler]
  PROVE  ~ RecFail
  <1> DEFINE R == Reconciler
  <1> SUFFICES ASSUME Ready(R), NEW t \in Tenants, Switched(t), Gone(R, t) PROVE FALSE
    BY DEF RecFail
  <1>1. job[R].step = "orgs"
    BY DEF Ready
  <1>2. loaded[R][t] # None /\ loaded[R][t] = company[t]
    BY <1>1 DEF RecKnows, Gone
  <1>3. QED BY <1>2 DEF Gone

Dying == RecDies => \/ busy[Reconciler]
                    \/ \E w \in Handlers : job[w].step # "idle"
                    \/ SharedOrg

(***************************************************************************)
(* A night's reconcile that nobody disturbs gives up half-way for one      *)
(* reason only: an org of the grant whose row hangs on another connection  *)
(* of the firm, which the lookup by connection overlooks and the unique    *)
(* index then refuses.                                                     *)
(***************************************************************************)
THEOREM DyingTheorem == Spec => ReconcileDiesOnlyOfSharing
  <1>1. OrgInv => Dying
    <2> SUFFICES ASSUME OrgInv, RecDies, Undisturbed PROVE SharedOrg
      BY DEF Undisturbed, Dying
    <2>1. Knowing /\ RecKnows /\ ~ busy[Reconciler]
      BY DEF OrgInv, Knowing, Undisturbed
    <2>2. QED BY <2>1, ConflictIsSharing, DeadlockTakesTwo, FailTakesAnother DEF RecDies
  <1>2. OrgInv /\ [Next]_vars => [Dying]_vars
    BY <1>1
  <1>3. Spec => [][Dying]_vars
    BY <1>2, OrgInvariant, PTL DEF Spec
  <1>4. QED BY <1>3 DEF ReconcileDiesOnlyOfSharing, Dying, SharedOrg

-----------------------------------------------------------------------------
(* How a removed org comes back.                                           *)

\* No handler looks up, wants or inserts an org it read an exclusion of.
Skips(w) == (job[w].todo \cup job[w].wants \cup pending[w]) \cap job[w].skip = {}
Skipping == \A w \in Handlers : Skips(w)

LEMMA SkipsFinish ==
  ASSUME Typed, NEW w \in Listers, Finish(w)
  PROVE  Skips(w)'
  <1>1. job'[w] = NoJob /\ pending'[w] = {}
    BY FinishEffect
  <1>2. NoJob.todo = {} /\ NoJob.wants = {}
    BY DEF NoJob
  <1>3. QED BY <1>1, <1>2 DEF Skips

LEMMA SkipsOwn ==
  ASSUME Typed, NEW w \in Handlers, Fresh(w), Skips(w), Own(w)
  PROVE  Skips(w)'
  <1>1. w \in Listers /\ w # Reconciler /\ job[w] \in Job
    BY ProcessAssumption DEF Listers, Typed, TypeOK
  <1>2. CASE Finish(w)
    BY <1>1, <1>2, SkipsFinish
  <1>3. ASSUME NEW c \in Connections, Start(w, c)
        PROVE  Skips(w)'
    <2> DEFINE j == [NoJob EXCEPT !.step = "list", !.conn = c, !.held = holder[granted[c]]]
    <2>1. j.todo = {} /\ j.wants = {} /\ j.skip = {}
      BY DEF NoJob
    <2>2. job' = [job EXCEPT ![w] = j] /\ UNCHANGED pending
      BY <1>3 DEF Start
    <2> HIDE DEF j
    <2>3. job'[w] = j
      BY <1>1, <2>2 DEF Typed, TypeOK
    <2>4. QED BY <2>1, <2>3 DEF Skips
  <1>4. CASE HookList(w) /\ ~ Raise(w)
    <2> DEFINE j == [job[w] EXCEPT !.step = "read", !.list = live[job[w].conn]]
    <2>1. j.todo = job[w].todo /\ j.wants = job[w].wants /\ j.skip = job[w].skip
      BY <1>1 DEF Job
    <2>2. job' = [job EXCEPT ![w] = j] /\ UNCHANGED pending
      BY <1>4 DEF HookList
    <2> HIDE DEF j
    <2>3. job'[w] = j
      BY <1>1, <2>2 DEF Typed, TypeOK
    <2>4. QED BY <2>1, <2>2, <2>3 DEF Skips
  <1>5. CASE HookExclusions(w)
    <2> DEFINE j == [job[w] EXCEPT !.step = "orgs", !.skip = excluded,
                                   !.todo = job[w].list \ excluded]
    <2>1. j.todo = job[w].list \ excluded /\ j.wants = job[w].wants /\ j.skip = excluded
      BY <1>1 DEF Job
    <2>2. job' = [job EXCEPT ![w] = j] /\ UNCHANGED pending /\ job[w].step = "read"
      BY <1>5 DEF HookExclusions
    <2> HIDE DEF j
    <2>3. job'[w] = j
      BY <1>1, <2>2 DEF Typed, TypeOK
    <2>4. pending[w] = {} /\ job[w].wants = {}
      BY <2>2 DEF Fresh
    <2>5. QED BY <2>1, <2>2, <2>3, <2>4 DEF Skips
  <1>6. ASSUME NEW t \in Tenants, HookSelect(w, t)
        PROVE  Skips(w)'
    <2> DEFINE j == [job[w] EXCEPT !.todo = @ \ {t},
                                   !.wants = IF company[t] = None THEN {t} ELSE {}]
    <2>1. j.todo = job[w].todo \ {t} /\ j.wants \subseteq {t} /\ j.skip = job[w].skip
      BY <1>1 DEF Job
    <2>2. job' = [job EXCEPT ![w] = j] /\ UNCHANGED pending /\ t \in job[w].todo
      BY <1>6 DEF HookSelect
    <2> HIDE DEF j
    <2>3. job'[w] = j
      BY <1>1, <2>2 DEF Typed, TypeOK
    <2>4. QED BY <2>1, <2>2, <2>3 DEF Skips
  <1>7. ASSUME NEW t \in Tenants, Insert(w, t)
        PROVE  Skips(w)'
    <2> DEFINE j == [job[w] EXCEPT !.wants = @ \ {t}]
    <2>1. j.todo = job[w].todo /\ j.wants = job[w].wants \ {t} /\ j.skip = job[w].skip
      BY <1>1 DEF Job
    <2>2. job' = [job EXCEPT ![w] = j] /\ t \in job[w].wants
      BY <1>7 DEF Insert
    <2> HIDE DEF j
    <2>3. job'[w] = j
      BY <1>1, <2>2 DEF Typed, TypeOK
    <2>4. pending'[w] = pending[w] \cup {t}
      BY <1>1, <1>7 DEF Insert, Typed, TypeOK
    <2>5. QED BY <2>1, <2>2, <2>3, <2>4 DEF Skips
  <1>8. QED BY <1>1, <1>2, <1>3, <1>4, <1>5, <1>6, <1>7
            DEF Own, HookStep, HookCommit, Conflict, Deadlock, HookFail, Raise

LEMMA SkippingStep == OrgInv /\ Skipping /\ [Next]_vars => Skipping'
  <1> SUFFICES ASSUME OrgInv, Skipping, [Next]_vars, NEW w \in Handlers
               PROVE  Skips(w)'
    BY DEF Skipping
  <1>1. Typed /\ w \in Listers /\ Fresh(w) /\ Skips(w)
    BY DEF OrgInv, Knowing, Skipping, Listers
  <1>2. CASE Own(w)
    BY <1>1, <1>2, SkipsOwn
  <1>3. CASE Elsewhere(w)
    BY <1>1, <1>3 DEF Skips, Elsewhere, Mine
  <1>4. QED BY <1>1, <1>2, <1>3, FrameStep

\* The box of RemovedReturnsTwoWays.
Returns ==
  \A t \in excluded : (company[t] = None /\ company'[t] # None) =>
    \/ RecCommit /\ (busy[Reconciler] \/ t \in live[job[Reconciler].conn])
    \/ \E w \in Handlers : HookCommit(w) /\ t \notin job[w].skip

\* Only a commit of a listing session gives an org without a row one.
LEMMA OnlyCommitsInsert ==
  ASSUME Typed, [Next]_vars, NEW t \in Tenants, company[t] = None, company'[t] # None
  PROVE  RecCommit \/ \E w \in Handlers : HookCommit(w)
  <1>1. company' # company
    OBVIOUS
  <1>2. ASSUME NEW r \in Requests, UserStep(r)
        PROVE  FALSE
    <2>1. request[r] # None => request[r] \in Request
      BY DEF Typed, TypeOK
    <2>2. CASE Disconnect(r) \/ Reconnect(r)
      <3>1. /\ request[r] # None
            /\ Same(request[r])
            /\ \E on \in BOOLEAN :
                 company' = [company EXCEPT ![request[r].tenant].active = on]
        BY <1>1, <2>2 DEF Disconnect, Reconnect, Switch
      <3>2. t # request[r].tenant
        BY <3>1 DEF Same
      <3>3. QED BY <3>1, <3>2 DEF Typed, TypeOK
    <2>3. CASE Remove(r)
      BY <1>1, <2>3 DEF Remove, Typed, TypeOK
    <2>4. QED BY <1>1, <1>2, <2>2, <2>3 DEF UserStep, Revoke, tableVars
  <1>3. ~ \E w \in Handlers : (\E c \in Connections : Start(w, c))
    BY <1>1 DEF Start, tableVars
  <1>4. ASSUME NEW w \in Handlers, HookStep(w)
        PROVE  HookCommit(w)
    BY <1>1, <1>4 DEF HookStep, HookList, HookExclusions, HookSelect, Insert,
                      Conflict, Deadlock, HookFail, Raise, tableVars
  <1>5. RecStep => RecCommit
    BY <1>1 DEF RecStep, RecWork, RecStart, RecListed, RecUnlisted, RecLoad, Insert,
                Conflict, Deadlock, RecFail, Raise, tableVars
  <1>6. QED BY <1>1, <1>2, <1>3, <1>4, <1>5
            DEF Next, Consent, GrantChanges, Ask, Reallow, vars, tableVars

LEMMA ReturnsStep == OrgInv /\ Skipping /\ [Next]_vars => Returns
  <1> SUFFICES ASSUME OrgInv, Skipping, [Next]_vars,
                      NEW t \in excluded, company[t] = None, company'[t] # None
               PROVE  \/ RecCommit /\ (busy[Reconciler] \/ t \in live[job[Reconciler].conn])
                      \/ \E w \in Handlers : HookCommit(w) /\ t \notin job[w].skip
    BY DEF Returns
  <1>1. Typed /\ Knowing /\ t \in Tenants
    BY DEF OrgInv, Typed, TypeOK
  <1>2. CASE RecCommit
    <2>1. t \in pending[Reconciler]
      BY <1>1, <1>2 DEF RecCommit, Reconciled, Switched, Gone
    <2>2. job[Reconciler].step = "orgs" /\ job[Reconciler].wants = {}
      BY <1>2 DEF RecCommit, Ready
    <2>3. ~ busy[Reconciler] => t \in live[job[Reconciler].conn]
      BY <1>1, <2>1, <2>2 DEF Knowing, RecKnows
    <2>4. busy[Reconciler] \in BOOLEAN
      BY <1>1 DEF Typed, TypeOK, Listers
    <2>5. QED BY <1>2, <2>3, <2>4
  <1>3. ASSUME NEW w \in Handlers, HookCommit(w)
        PROVE  t \notin job[w].skip
    <2>1. t \in pending[w]
      BY <1>1, <1>3 DEF HookCommit, Connected, Repointed, Gone
    <2>2. QED BY <2>1 DEF Skipping, Skips
  <1>4. QED BY <1>1, <1>2, <1>3, OnlyCommitsInsert

(***************************************************************************)
(* An org a user removed comes back by a connect handler that read the     *)
(* exclusions before the removal, or by the nightly task, and by that only *)
(* if its connection still covers the org or Xero changed its mind since   *)
(* it was asked.                                                           *)
(***************************************************************************)
THEOREM ReturnsTheorem == Spec => RemovedReturnsTwoWays
  <1>1. Init => Skipping
    BY DEF Init, Skipping, Skips, NoJob, Listers
  <1>2. Spec => [](OrgInv /\ Skipping)
    BY <1>1, SkippingStep, OrgInvariant, PTL DEF Spec
  <1>3. OrgInv /\ Skipping /\ [Next]_vars => [Returns]_vars
    BY ReturnsStep
  <1>4. Spec => [][Returns]_vars
    BY <1>2, <1>3, PTL DEF Spec
  <1>5. QED BY <1>4 DEF RemovedReturnsTwoWays, Returns
=============================================================================
