------------------------ MODULE CompanyRequestsProofs ------------------------
(***************************************************************************)
(* Proofs about CompanyRequests, for any sections, rows, documents, lists  *)
(* of ids and number of requests at the same time.                         *)
(***************************************************************************)
EXTENDS CompanyRequests, FiniteSetTheorems, TLAPS

-----------------------------------------------------------------------------
(* What a request is.                                                      *)

Open == Save \cup Put \cup Bulk \cup Batch

LEMMA Kinds ==
  ASSUME TypeOK, NEW r \in Requests
  PROVE  /\ Doing(r, "save") => request[r] \in Save
         /\ Doing(r, "put") => request[r] \in Put
         /\ Doing(r, "bulk") => request[r] \in Bulk
         /\ Doing(r, "batch") => request[r] \in Batch
  <1>1. request[r] \in Save \cup Put \cup Bulk \cup Batch \cup {None}
    BY DEF TypeOK
  <1>2. /\ \A q \in Save : q.op = "save"
        /\ \A q \in Put : q.op = "put"
        /\ \A q \in Bulk : q.op = "bulk"
        /\ \A q \in Batch : q.op = "batch"
    BY DEF Save, Put, Bulk, Batch
  <1>3. QED BY <1>1, <1>2 DEF Doing

\* No session is None, and neither is a request.
LEMMA NotNone ==
  /\ \A r \in Requests : r # None
  /\ \A q \in Open : q # None
  BY NoneAssumption DEF Open

LEMMA EndEffect ==
  ASSUME TypeOK, NEW r \in Requests, NEW X \in SUBSET (Docs \cup {"config"}), End(r, X)
  PROVE  /\ request' \in [Requests -> Open \cup {None}]
         /\ request'[r] = None
         /\ \A q \in Requests : q # r => request'[q] = request[q]
         /\ news' \in [Requests -> SUBSET (Docs \cup {"config"})]
         /\ \A q \in Requests : q # r => news'[q] = news[q] \cup X
         /\ begun' = begun
  BY DEF End, TypeOK, Open

-----------------------------------------------------------------------------
(* The invariant.                                                          *)

\* What a request read of the configuration is the configuration, unless a
\* change was committed since.
ReadIsCurrent ==
  \A r \in Requests :
    Doing(r, "save") \/ Doing(r, "put") =>
      "config" \in news[r] \/ request[r].read = config

\* A document a batch found without a row has none, unless one was logged
\* since.
MissingIsUnlogged ==
  \A r \in Requests :
    Doing(r, "batch") =>
      \A t \in request[r].missing : DocOf[t] \in news[r] \/ logged[DocOf[t]] = 0

\* The rows a bulk request has marked are locked by it, and what it will
\* write is its action applied to what is committed.
MarkedIsLocked ==
  \A r \in Requests :
    Doing(r, "bulk") /\ ~ request[r].aborted =>
      \A w \in request[r].done :
        holder[w] = r /\ request[r].new[w] = Marked(request[r].action, marks[w])

RequestInv == TypeOK /\ ReadIsCurrent /\ MissingIsUnlogged /\ MarkedIsLocked

LEMMA InitHolds == Init => RequestInv
  <1> SUFFICES ASSUME Init PROVE RequestInv
    OBVIOUS
  <1>1. TypeOK
    BY BoundAssumption DEF Init, TypeOK, Config
  <1>2. \A r \in Requests, op \in {"save", "put", "bulk", "batch"} : ~ Doing(r, op)
    BY DEF Init, Doing
  <1>3. QED BY <1>1, <1>2 DEF RequestInv, ReadIsCurrent, MissingIsUnlogged, MarkedIsLocked

-----------------------------------------------------------------------------
(* A session begins, with a fresh reading.                                 *)

LEMMA BeginKeeps ==
  ASSUME RequestInv, NEW r \in Requests, NEW q \in Open, Begin(r, q),
         q \in Save \cup Put => q.read = config,
         q \in Bulk => q.done = {},
         q \in Batch => q.missing = {}
  PROVE  RequestInv'
  <1>1. TypeOK
    BY DEF RequestInv
  <1>2. /\ request' \in [Requests -> Open \cup {None}]
        /\ request'[r] = q
        /\ \A p \in Requests : p # r => request'[p] = request[p]
        /\ news' \in [Requests -> SUBSET (Docs \cup {"config"})]
        /\ \A p \in Requests : p # r => news'[p] = news[p]
        /\ begun' \in 0 .. MaxRequests
        /\ UNCHANGED <<config, marks, logged, holder>>
    BY <1>1, BoundAssumption DEF Begin, TypeOK, Open
  <1>3. TypeOK'
    BY <1>1, <1>2 DEF TypeOK, Open
  <1>4. \A p \in Requests, op \in {"save", "put", "bulk", "batch"} :
          p # r => Doing(p, op)' = Doing(p, op)
    BY <1>2 DEF Doing
  <1>5. /\ Doing(r, "save")' => q \in Save
        /\ Doing(r, "put")' => q \in Put
        /\ Doing(r, "bulk")' => q \in Bulk
        /\ Doing(r, "batch")' => q \in Batch
    BY <1>2 DEF Doing, Open, Save, Put, Bulk, Batch
  <1>6. ReadIsCurrent'
    <2> SUFFICES ASSUME NEW p \in Requests, Doing(p, "save")' \/ Doing(p, "put")'
                 PROVE  "config" \in news'[p] \/ request'[p].read = config'
      BY DEF ReadIsCurrent
    <2>1. CASE p = r
      BY <2>1, <1>2, <1>5
    <2>2. CASE p # r
      BY <2>2, <1>2, <1>4 DEF RequestInv, ReadIsCurrent
    <2>3. QED BY <2>1, <2>2
  <1>7. MissingIsUnlogged'
    <2> SUFFICES ASSUME NEW p \in Requests, Doing(p, "batch")', NEW t \in request'[p].missing
                 PROVE  DocOf[t] \in news'[p] \/ logged'[DocOf[t]] = 0
      BY DEF MissingIsUnlogged
    <2>1. CASE p = r
      BY <2>1, <1>2, <1>5
    <2>2. CASE p # r
      BY <2>2, <1>2, <1>4 DEF RequestInv, MissingIsUnlogged
    <2>3. QED BY <2>1, <2>2
  <1>8. MarkedIsLocked'
    <2> SUFFICES ASSUME NEW p \in Requests, Doing(p, "bulk")', ~ request'[p].aborted,
                        NEW w \in request'[p].done
                 PROVE  /\ holder'[w] = p
                        /\ request'[p].new[w] = Marked(request'[p].action, marks'[w])
      BY DEF MarkedIsLocked
    <2>1. CASE p = r
      BY <2>1, <1>2, <1>5
    <2>2. CASE p # r
      BY <2>2, <1>2, <1>4 DEF RequestInv, MarkedIsLocked
    <2>3. QED BY <2>1, <2>2
  <1>9. QED BY <1>3, <1>6, <1>7, <1>8 DEF RequestInv

LEMMA AskKeeps ==
  ASSUME RequestInv, NEW r \in Requests, Ask(r)
  PROVE  RequestInv'
  <1>1. TypeOK
    BY DEF RequestInv
  <1>2. CASE \E s \in Sections \ {Rules}, e \in Edits : Load(r, s, e)
    <2>1. PICK s \in Sections \ {Rules}, e \in Edits : Load(r, s, e)
      BY <1>2
    <2> DEFINE q == [op |-> "save", section |-> s, edit |-> e, read |-> config]
    <2>2. q \in Save /\ q.read = config
      BY <1>1 DEF Save, TypeOK
    <2>3. q \in Open /\ q \notin Bulk /\ q \notin Batch
      BY <2>2 DEF Open, Bulk, Batch
    <2>4. Begin(r, q)
      BY <2>1 DEF Load
    <2> HIDE DEF q
    <2>5. QED BY <2>2, <2>3, <2>4, BeginKeeps
  <1>3. CASE \E X \in SUBSET (Items \cup Unknown) : StartPut(r, X)
    <2>1. PICK X \in SUBSET (Items \cup Unknown) : StartPut(r, X)
      BY <1>3
    <2> DEFINE q == [op |-> "put", rules |-> Clean(X), read |-> config]
    <2>2. q \in Put /\ q.read = config
      BY <1>1 DEF Put, Clean, TypeOK
    <2>3. q \in Open /\ q \notin Bulk /\ q \notin Batch
      BY <2>2 DEF Open, Bulk, Batch
    <2>4. Begin(r, q)
      BY <2>1 DEF StartPut
    <2> HIDE DEF q
    <2>5. QED BY <2>2, <2>3, <2>4, BeginKeeps
  <1>4. CASE \E a \in Actions, ids \in Orders : StartBulk(r, a, ids)
    <2>1. PICK a \in Actions, ids \in Orders : StartBulk(r, a, ids)
      BY <1>4
    <2> DEFINE q == [op |-> "bulk", action |-> a, todo |-> ids, done |-> {},
                     new |-> [w \in Rows |-> {}], aborted |-> FALSE]
    <2>2. ids \in Seq(Ids)
      BY IdAssumption
    <2>3. q \in Bulk /\ q.done = {} /\ q.op = "bulk"
      BY <2>2 DEF Bulk
    <2>4. q \in Open /\ q \notin Save \cup Put \cup Batch
      BY <2>3 DEF Open, Save, Put, Batch
    <2>5. Begin(r, q)
      BY <2>1 DEF StartBulk
    <2> HIDE DEF q
    <2>6. QED BY <2>3, <2>4, <2>5, BeginKeeps
  <1>5. CASE \E T \in SUBSET Txns \ {{}} : StartBatch(r, T)
    <2>1. PICK T \in SUBSET Txns \ {{}} : StartBatch(r, T)
      BY <1>5
    <2> DEFINE q == [op |-> "batch", todo |-> T, missing |-> {}]
    <2>2. q \in Batch /\ q.missing = {} /\ q.op = "batch"
      BY DEF Batch
    <2>3. q \in Open /\ q \notin Save \cup Put \cup Bulk
      BY <2>2 DEF Open, Save, Put, Bulk
    <2>4. Begin(r, q)
      BY <2>1 DEF StartBatch
    <2> HIDE DEF q
    <2>5. QED BY <2>2, <2>3, <2>4, BeginKeeps
  <1>6. QED BY <1>2, <1>3, <1>4, <1>5 DEF Ask

-----------------------------------------------------------------------------
(* The configuration.                                                      *)

LEMMA SavedIsConfig ==
  ASSUME NEW q \in Save
  PROVE  /\ Saved(q) \in Config
         /\ \A s \in Sections \ {q.section} : Saved(q)[s] = q.read[s]
  <1>1. q.read \in Config /\ q.section \in Sections /\ q.edit \in Edits
    BY DEF Save
  <1>2. \A X \in SUBSET Items : Edited(X, q.edit) \in SUBSET Items
    BY <1>1 DEF Edited, Edits, Added, Dropped, Replaced
  <1>3. QED BY <1>1, <1>2 DEF Saved, Config

LEMMA StoreKeeps ==
  ASSUME RequestInv, NEW r \in Requests, Doing(r, "save") \/ Doing(r, "put"),
         NEW new \in Config, Store(r, new), UNCHANGED <<marks, logged, holder>>
  PROVE  RequestInv'
  <1>1. TypeOK
    BY DEF RequestInv
  <1>2. PICK X \in SUBSET {"config"} :
          End(r, X) /\ config' \in Config /\ ("config" \notin X => config' = config)
    BY <1>1, Zenon DEF Store, TypeOK
  <1>3. X \in SUBSET (Docs \cup {"config"})
    OBVIOUS
  <1>4. /\ request' \in [Requests -> Open \cup {None}]
        /\ request'[r] = None
        /\ \A q \in Requests : q # r => request'[q] = request[q]
        /\ news' \in [Requests -> SUBSET (Docs \cup {"config"})]
        /\ \A q \in Requests : q # r => news'[q] = news[q] \cup X
        /\ begun' = begun
    BY <1>1, <1>2, <1>3, EndEffect
  <1>5. TypeOK'
    BY <1>1, <1>2, <1>4 DEF TypeOK, Open
  <1>6. \A p \in Requests, op \in {"save", "put", "bulk", "batch"} :
          Doing(p, op)' => p # r /\ Doing(p, op)
    BY <1>4 DEF Doing
  <1>7. ReadIsCurrent'
    BY <1>2, <1>4, <1>6 DEF RequestInv, ReadIsCurrent
  <1>8. MissingIsUnlogged'
    BY <1>4, <1>6 DEF RequestInv, MissingIsUnlogged
  <1>9. MarkedIsLocked'
    BY <1>4, <1>6 DEF RequestInv, MarkedIsLocked
  <1>10. QED BY <1>5, <1>7, <1>8, <1>9 DEF RequestInv

LEMMA ConfigKeeps ==
  ASSUME RequestInv, NEW r \in Requests, SaveSection(r) \/ PutConfig(r)
  PROVE  RequestInv'
  <1>1. TypeOK
    BY DEF RequestInv
  <1>2. CASE SaveSection(r)
    <2>1. Doing(r, "save") /\ Store(r, Saved(request[r])) /\ UNCHANGED <<marks, logged, holder>>
      BY <1>2 DEF SaveSection
    <2>2. Saved(request[r]) \in Config
      BY <1>1, <2>1, Kinds, SavedIsConfig
    <2>3. QED BY <2>1, <2>2, StoreKeeps
  <1>3. CASE PutConfig(r)
    <2> DEFINE new == [s \in Sections |-> IF s = Rules THEN request[r].rules ELSE {}]
    <2>1. Doing(r, "put") /\ Store(r, new) /\ UNCHANGED <<marks, logged, holder>>
      BY <1>3 DEF PutConfig
    <2>2. request[r].rules \in SUBSET Items
      BY <1>1, <2>1, Kinds DEF Put
    <2>3. new \in Config
      BY <2>2 DEF Config
    <2> HIDE DEF new
    <2>4. QED BY <2>1, <2>3, StoreKeeps
  <1>4. QED BY <1>2, <1>3

-----------------------------------------------------------------------------
(* Bulk requests.                                                          *)

\* A step of one bulk request that touches no lock but its own and those
\* nobody has.
LEMMA BulkStep ==
  ASSUME RequestInv, NEW r \in Requests, NEW q \in Bulk, Doing(r, "bulk"),
         request' = [request EXCEPT ![r] = q],
         holder' \in [Rows -> Requests \cup {None}],
         \A w \in Rows : holder[w] \in Requests \ {r} => holder'[w] = holder[w],
         ~ q.aborted => \A w \in q.done :
            holder'[w] = r /\ q.new[w] = Marked(q.action, marks[w]),
         UNCHANGED <<config, marks, logged, news, begun>>
  PROVE  RequestInv'
  <1>1. TypeOK
    BY DEF RequestInv
  <1>2. /\ request' \in [Requests -> Open \cup {None}]
        /\ request'[r] = q
        /\ \A p \in Requests : p # r => request'[p] = request[p]
    BY <1>1 DEF TypeOK, Open
  <1>3. TypeOK'
    BY <1>1, <1>2 DEF TypeOK, Open
  <1>4. \A p \in Requests, op \in {"save", "put", "bulk", "batch"} :
          p # r => Doing(p, op)' = Doing(p, op)
    BY <1>2 DEF Doing
  <1>5. ~ Doing(r, "save")' /\ ~ Doing(r, "put")' /\ ~ Doing(r, "batch")'
    BY <1>2 DEF Doing, Bulk
  <1>6. ReadIsCurrent'
    BY <1>2, <1>4, <1>5 DEF RequestInv, ReadIsCurrent
  <1>7. MissingIsUnlogged'
    BY <1>2, <1>4, <1>5 DEF RequestInv, MissingIsUnlogged
  <1>8. MarkedIsLocked'
    <2> SUFFICES ASSUME NEW p \in Requests, Doing(p, "bulk")', ~ request'[p].aborted,
                        NEW w \in request'[p].done
                 PROVE  /\ holder'[w] = p
                        /\ request'[p].new[w] = Marked(request'[p].action, marks'[w])
      BY DEF MarkedIsLocked
    <2>1. CASE p = r
      BY <2>1, <1>2
    <2>2. CASE p # r
      <3>1. request'[p] = request[p] /\ Doing(p, "bulk")
        BY <2>2, <1>2, <1>4
      <3>2. w \in Rows
        BY <1>1, <3>1, Kinds DEF Bulk
      <3>3. holder[w] = p /\ request[p].new[w] = Marked(request[p].action, marks[w])
        BY <3>1 DEF RequestInv, MarkedIsLocked
      <3>4. QED BY <2>2, <3>1, <3>2, <3>3
    <2>3. QED BY <2>1, <2>2
  <1>9. QED BY <1>3, <1>6, <1>7, <1>8 DEF RequestInv

\* The list of ids still to do has a first one and a rest.
LEMMA AtWork ==
  ASSUME TypeOK, NEW r \in Requests, Working(r)
  PROVE  /\ Doing(r, "bulk") /\ request[r] \in Bulk
         /\ Next1(r) \in Ids
         /\ Tail(request[r].todo) \in Seq(Ids)
  <1>1. Doing(r, "bulk") /\ request[r] \in Bulk /\ request[r].todo # << >>
    BY Kinds DEF Working
  <1>2. request[r].todo \in Seq(Ids)
    BY <1>1 DEF Bulk
  <1>3. QED BY <1>1, <1>2 DEF Next1

\* To mark twice is to mark once.
LEMMA MarkedTwice ==
  ASSUME NEW a \in Actions, NEW M \in SUBSET Flags
  PROVE  /\ Marked(a, Marked(a, M)) = Marked(a, M)
         /\ Marked(a, M) \in SUBSET Flags
  BY DEF Marked, Actions, Flags

LEMMA MarkRowKeeps ==
  ASSUME RequestInv, NEW r \in Requests, MarkRow(r)
  PROVE  RequestInv'
  <1>1. TypeOK
    BY DEF RequestInv
  <1>2. /\ Doing(r, "bulk") /\ request[r] \in Bulk
        /\ Tail(request[r].todo) \in Seq(Ids)
        /\ ~ request[r].aborted
        /\ Next1(r) \in Rows
        /\ holder[Next1(r)] \in {None, r}
        /\ holder' = [holder EXCEPT ![Next1(r)] = r]
        /\ UNCHANGED <<config, marks, logged, news, begun>>
    BY <1>1, AtWork DEF MarkRow
  <1> DEFINE b == request[r]
             n == Next1(r)
             mark == Marked(b.action, Sees(r, n))
             q == [b EXCEPT !.todo = Tail(@), !.done = @ \cup {n}, !.new[n] = mark]
  <1>3. \A w \in b.done : holder[w] = r /\ b.new[w] = Marked(b.action, marks[w])
    BY <1>2 DEF RequestInv, MarkedIsLocked
  <1>4. /\ b.action \in Actions /\ b.done \in SUBSET Rows
        /\ b.new \in [Rows -> SUBSET Flags] /\ b.todo \in Seq(Ids)
    BY <1>2 DEF Bulk
  <1>5. marks[n] \in SUBSET Flags
    BY <1>1, <1>2 DEF TypeOK
  <1>6. mark = Marked(b.action, marks[n]) /\ mark \in SUBSET Flags
    BY ZenonT(40), <1>2, <1>3, <1>4, <1>5, MarkedTwice DEF Sees
  <1>7. /\ q \in Bulk
        /\ q.done = b.done \cup {n}
        /\ q.new = [b.new EXCEPT ![n] = mark]
        /\ q.action = b.action
    BY <1>2, <1>4, <1>6 DEF Bulk
  <1>8. request' = [request EXCEPT ![r] = q]
    BY <1>1, <1>2, <1>4 DEF MarkRow, Skip, TypeOK, Bulk
  <1>9. /\ holder' \in [Rows -> Requests \cup {None}]
        /\ \A w \in Rows : holder[w] \in Requests \ {r} => holder'[w] = holder[w]
        /\ holder'[n] = r
        /\ \A w \in b.done : holder'[w] = r
    BY <1>1, <1>2, <1>3, <1>4, NotNone DEF TypeOK
  <1>10. \A w \in q.done : holder'[w] = r /\ q.new[w] = Marked(q.action, marks[w])
    <2> SUFFICES ASSUME NEW w \in q.done
                 PROVE  holder'[w] = r /\ q.new[w] = Marked(q.action, marks[w])
      OBVIOUS
    <2> HIDE DEF q, mark
    <2>1. CASE w = n
      BY <2>1, <1>2, <1>4, <1>6, <1>7, <1>9
    <2>2. CASE w # n
      <3>1. w \in b.done /\ w \in Rows
        BY <2>2, <1>4, <1>7
      <3>2. b.new[w] = Marked(b.action, marks[w]) /\ holder'[w] = r
        BY <3>1, <1>3, <1>9
      <3>3. q.new[w] = b.new[w]
        BY <3>1, <2>2, <1>4, <1>7
      <3>4. QED BY <3>2, <3>3, <1>7
    <2>3. QED BY <2>1, <2>2
  <1> HIDE DEF q
  <1>11. QED BY <1>2, <1>7, <1>8, <1>9, <1>10, BulkStep

LEMMA FailRowKeeps ==
  ASSUME RequestInv, NEW r \in Requests, FailRow(r)
  PROVE  RequestInv'
  <1>1. TypeOK
    BY DEF RequestInv
  <1>2. /\ Doing(r, "bulk") /\ request[r] \in Bulk
        /\ Tail(request[r].todo) \in Seq(Ids)
        /\ UNCHANGED <<config, marks, logged, holder, news, begun>>
    BY <1>1, AtWork DEF FailRow
  <1> DEFINE q == [request[r] EXCEPT !.todo = Tail(@)]
  <1>3. /\ q \in Bulk /\ q.done = request[r].done /\ q.new = request[r].new
        /\ q.action = request[r].action /\ q.aborted = request[r].aborted
    BY <1>2 DEF Bulk
  <1>4. request' = [request EXCEPT ![r] = q]
    BY <1>1, <1>2 DEF FailRow, Skip, TypeOK
  <1>5. ~ request[r].aborted => \A w \in request[r].done :
          holder[w] = r /\ request[r].new[w] = Marked(request[r].action, marks[w])
    BY <1>2 DEF RequestInv, MarkedIsLocked
  <1>6. holder' \in [Rows -> Requests \cup {None}]
    BY <1>1, <1>2 DEF TypeOK
  <1> HIDE DEF q
  <1>7. QED BY <1>2, <1>3, <1>4, <1>5, <1>6, BulkStep

LEMMA FreedEffect ==
  ASSUME TypeOK, NEW r \in Requests, holder' = Freed(r)
  PROVE  /\ holder' \in [Rows -> Requests \cup {None}]
         /\ \A w \in Rows : holder[w] \in Requests \ {r} => holder'[w] = holder[w]
  BY DEF Freed, TypeOK

LEMMA DeadlockKeeps ==
  ASSUME RequestInv, NEW r \in Requests, Deadlock(r)
  PROVE  RequestInv'
  <1>1. TypeOK
    BY DEF RequestInv
  <1>2. Working(r) /\ holder' = Freed(r) /\ UNCHANGED <<config, marks, logged, news, begun>>
    BY DEF Deadlock, Cycle, Waits
  <1>3. request[r] \in Bulk /\ Doing(r, "bulk") /\ Tail(request[r].todo) \in Seq(Ids)
    BY <1>1, <1>2, AtWork
  <1> DEFINE q == [request[r] EXCEPT !.todo = Tail(@), !.aborted = TRUE]
  <1>4. q \in Bulk /\ q.aborted
    BY <1>3 DEF Bulk
  <1>5. request' = [request EXCEPT ![r] = q]
    BY <1>1, <1>3 DEF Deadlock, Skip, TypeOK, Bulk
  <1> HIDE DEF q
  <1>6. QED BY <1>1, <1>2, <1>3, <1>4, <1>5, FreedEffect, BulkStep

LEMMA CommitBulkKeeps ==
  ASSUME RequestInv, NEW r \in Requests, CommitBulk(r)
  PROVE  RequestInv'
  <1>1. TypeOK
    BY DEF RequestInv
  <1>2. /\ Doing(r, "bulk") /\ holder' = Freed(r)
        /\ UNCHANGED <<config, logged>> /\ End(r, {})
        /\ marks' = [w \in Rows |-> IF w \in request[r].done /\ ~ request[r].aborted
                                      THEN request[r].new[w] ELSE marks[w]]
    BY DEF CommitBulk
  <1>3. request[r] \in Bulk
    BY <1>1, <1>2, Kinds
  <1>4. /\ request' \in [Requests -> Open \cup {None}]
        /\ request'[r] = None
        /\ \A q \in Requests : q # r => request'[q] = request[q]
        /\ news' \in [Requests -> SUBSET (Docs \cup {"config"})]
        /\ \A q \in Requests : q # r => news'[q] = news[q] \cup {}
        /\ begun' = begun
    BY <1>1, <1>2, EndEffect
  <1>5. /\ holder' \in [Rows -> Requests \cup {None}]
        /\ \A w \in Rows : holder[w] \in Requests \ {r} => holder'[w] = holder[w]
    BY <1>1, <1>2, FreedEffect
  <1>6. marks' \in [Rows -> SUBSET Flags]
    BY <1>1, <1>2, <1>3 DEF TypeOK, Bulk
  <1>7. TypeOK'
    BY <1>1, <1>2, <1>4, <1>5, <1>6 DEF TypeOK, Open
  <1>8. \A p \in Requests, op \in {"save", "put", "bulk", "batch"} :
          Doing(p, op)' => p # r /\ Doing(p, op)
    BY <1>4 DEF Doing
  <1>9. ReadIsCurrent'
    BY <1>2, <1>4, <1>8 DEF RequestInv, ReadIsCurrent
  <1>10. MissingIsUnlogged'
    BY <1>2, <1>4, <1>8 DEF RequestInv, MissingIsUnlogged
  <1>11. MarkedIsLocked'
    <2> SUFFICES ASSUME NEW p \in Requests, Doing(p, "bulk")', ~ request'[p].aborted,
                        NEW w \in request'[p].done
                 PROVE  /\ holder'[w] = p
                        /\ request'[p].new[w] = Marked(request'[p].action, marks'[w])
      BY DEF MarkedIsLocked
    <2>1. p # r /\ Doing(p, "bulk") /\ request'[p] = request[p]
      BY <1>4, <1>8
    <2>2. w \in Rows
      BY <1>1, <2>1, Kinds DEF Bulk
    <2>3. holder[w] = p /\ request[p].new[w] = Marked(request[p].action, marks[w])
      BY <2>1 DEF RequestInv, MarkedIsLocked
    <2>4. ~ (w \in request[r].done /\ ~ request[r].aborted)
      BY <1>2, <2>1, <2>3 DEF RequestInv, MarkedIsLocked
    <2>5. marks'[w] = marks[w]
      BY <1>2, <2>2, <2>4
    <2>6. QED BY <1>5, <2>1, <2>2, <2>3, <2>5
  <1>12. QED BY <1>7, <1>9, <1>10, <1>11 DEF RequestInv

-----------------------------------------------------------------------------
(* Pre-ledger batches.                                                     *)

LEMMA SelectKeeps ==
  ASSUME RequestInv, NEW r \in Requests, NEW t \in Txns, SelectLogged(r, t)
  PROVE  RequestInv'
  <1>1. TypeOK
    BY DEF RequestInv
  <1>2. Doing(r, "batch") /\ t \in request[r].todo
        /\ UNCHANGED <<config, marks, logged, holder, news, begun>>
    BY DEF SelectLogged
  <1>3. request[r] \in Batch
    BY <1>1, <1>2, Kinds
  <1> DEFINE b == request[r]
             found == IF logged[DocOf[t]] = 0 THEN b.missing \cup {t} ELSE b.missing
             q == [b EXCEPT !.todo = @ \ {t}, !.missing = found]
  <1>4. q \in Batch /\ q.missing = found
    BY <1>3 DEF Batch
  <1>5. request' = [request EXCEPT ![r] = q]
    BY <1>1, <1>3 DEF SelectLogged, TypeOK, Batch
  <1>6. \A s \in found : s \in b.missing \/ logged[DocOf[s]] = 0
    OBVIOUS
  <1>7. q \in Open /\ ~ (q.op = "save") /\ ~ (q.op = "put") /\ ~ (q.op = "bulk")
    BY <1>4 DEF Open, Batch
  <1> HIDE DEF q
  <1>8. /\ request' \in [Requests -> Open \cup {None}]
        /\ request'[r] = q
        /\ \A p \in Requests : p # r => request'[p] = request[p]
    BY <1>1, <1>5, <1>7 DEF TypeOK, Open
  <1>9. TypeOK'
    BY <1>1, <1>2, <1>8 DEF TypeOK, Open
  <1>10. \A p \in Requests, op \in {"save", "put", "bulk", "batch"} :
          p # r => Doing(p, op)' = Doing(p, op)
    BY <1>8 DEF Doing
  <1>11. ~ Doing(r, "save")' /\ ~ Doing(r, "put")' /\ ~ Doing(r, "bulk")'
    BY <1>7, <1>8 DEF Doing
  <1>12. ReadIsCurrent'
    BY <1>2, <1>8, <1>10, <1>11 DEF RequestInv, ReadIsCurrent
  <1>13. MarkedIsLocked'
    BY <1>2, <1>8, <1>10, <1>11 DEF RequestInv, MarkedIsLocked
  <1>14. MissingIsUnlogged'
    <2> SUFFICES ASSUME NEW p \in Requests, Doing(p, "batch")', NEW s \in request'[p].missing
                 PROVE  DocOf[s] \in news[p] \/ logged[DocOf[s]] = 0
      BY <1>2 DEF MissingIsUnlogged
    <2>1. CASE p = r
      BY <2>1, <1>2, <1>4, <1>6, <1>8 DEF RequestInv, MissingIsUnlogged
    <2>2. CASE p # r
      BY <2>2, <1>8, <1>10 DEF RequestInv, MissingIsUnlogged
    <2>3. QED BY <2>1, <2>2
  <1>15. QED BY <1>9, <1>12, <1>13, <1>14 DEF RequestInv

LEMMA InsertsFinite ==
  ASSUME TypeOK, NEW r \in Requests, Doing(r, "batch"), NEW d \in Docs
  PROVE  /\ IsFiniteSet(Inserts(r, d)) /\ Cardinality(Inserts(r, d)) \in Nat
         /\ Inserts(r, d) \subseteq request[r].missing
  <1>1. request[r].missing \in SUBSET Txns
    BY Kinds DEF Batch
  <1>2. Inserts(r, d) \subseteq request[r].missing
    BY DEF Inserts
  <1>3. IsFiniteSet(Inserts(r, d))
    BY <1>1, <1>2, FiniteAssumption, FS_Subset
  <1>4. QED BY <1>2, <1>3, FS_CardinalityType

LEMMA CommitBatchKeeps ==
  ASSUME RequestInv, NEW r \in Requests, CommitBatch(r)
  PROVE  RequestInv'
  <1>1. TypeOK
    BY DEF RequestInv
  <1> DEFINE X == {DocOf[t] : t \in request[r].missing}
  <1>2. /\ Doing(r, "batch") /\ End(r, X) /\ UNCHANGED <<config, marks, holder>>
        /\ logged' = [d \in Docs |-> logged[d] + Cardinality(Inserts(r, d))]
    BY DEF CommitBatch
  <1>3. request[r].missing \in SUBSET Txns
    BY <1>1, <1>2, Kinds DEF Batch
  <1>4. X \in SUBSET (Docs \cup {"config"})
    BY <1>3, DocAssumption
  <1>5. /\ request' \in [Requests -> Open \cup {None}]
        /\ request'[r] = None
        /\ \A q \in Requests : q # r => request'[q] = request[q]
        /\ news' \in [Requests -> SUBSET (Docs \cup {"config"})]
        /\ \A q \in Requests : q # r => news'[q] = news[q] \cup X
        /\ begun' = begun
    BY <1>1, <1>2, <1>4, EndEffect
  <1>6. logged' \in [Docs -> Nat]
    BY <1>1, <1>2, InsertsFinite DEF TypeOK
  <1>7. \A d \in Docs : d \notin X => logged'[d] = logged[d]
    <2> SUFFICES ASSUME NEW d \in Docs, d \notin X PROVE logged'[d] = logged[d]
      OBVIOUS
    <2>1. Inserts(r, d) = {}
      BY DEF Inserts
    <2>2. Cardinality(Inserts(r, d)) = 0
      BY <2>1, FS_EmptySet
    <2>3. logged[d] \in Nat /\ logged'[d] = logged[d] + 0
      BY <1>1, <1>2, <2>2 DEF TypeOK
    <2>4. QED BY <2>3
  <1>8. TypeOK'
    BY <1>1, <1>2, <1>5, <1>6 DEF TypeOK, Open
  <1>9. \A p \in Requests, op \in {"save", "put", "bulk", "batch"} :
          Doing(p, op)' => p # r /\ Doing(p, op)
    BY <1>5 DEF Doing
  <1>10. ReadIsCurrent'
    BY <1>2, <1>5, <1>9 DEF RequestInv, ReadIsCurrent
  <1>11. MarkedIsLocked'
    BY <1>2, <1>5, <1>9 DEF RequestInv, MarkedIsLocked
  <1>12. MissingIsUnlogged'
    <2> SUFFICES ASSUME NEW p \in Requests, Doing(p, "batch")', NEW s \in request'[p].missing
                 PROVE  DocOf[s] \in news'[p] \/ logged'[DocOf[s]] = 0
      BY DEF MissingIsUnlogged
    <2>1. p # r /\ Doing(p, "batch") /\ request'[p] = request[p] /\ news'[p] = news[p] \cup X
      BY <1>5, <1>9
    <2>2. s \in Txns
      BY <1>1, <2>1, Kinds DEF Batch
    <2>3. DocOf[s] \in Docs
      BY <2>2, DocAssumption
    <2>4. DocOf[s] \in news[p] \/ logged[DocOf[s]] = 0
      BY <2>1 DEF RequestInv, MissingIsUnlogged
    <2> HIDE DEF X
    <2>5. QED BY <1>7, <2>1, <2>3, <2>4
  <1>13. QED BY <1>8, <1>10, <1>11, <1>12 DEF RequestInv

-----------------------------------------------------------------------------
LEMMA NextKeeps == RequestInv /\ [Next]_vars => RequestInv'
  <1> SUFFICES ASSUME RequestInv, [Next]_vars PROVE RequestInv'
    OBVIOUS
  <1>1. CASE Next
    <2>1. PICK r \in Requests : Ask(r) \/ Serve(r)
      BY <1>1 DEF Next
    <2>2. CASE Ask(r)
      BY <2>2, AskKeeps
    <2>3. CASE Serve(r)
      BY <2>3, ConfigKeeps, MarkRowKeeps, FailRowKeeps, DeadlockKeeps, CommitBulkKeeps,
         SelectKeeps, CommitBatchKeeps DEF Serve
    <2>4. QED BY <2>1, <2>2, <2>3
  <1>2. CASE UNCHANGED vars
    BY <1>2 DEF vars, RequestInv, TypeOK, ReadIsCurrent, MissingIsUnlogged, MarkedIsLocked, Doing
  <1>3. QED BY <1>1, <1>2

(* Every variable keeps its type, whatever requests overlap, wait for each *)
(* other and are aborted.                                                  *)
THEOREM TypeCorrect == Spec => []TypeOK
  <1>1. RequestInv => TypeOK
    BY DEF RequestInv
  <1>2. QED BY <1>1, InitHolds, NextKeeps, PTL DEF Spec

(* CompanyConfigStore: a save of one section changes another only if the   *)
(* column was written between its load and its commit.                     *)
THEOREM SaveTheorem == Spec => SaveKeepsOtherSections
  <1>1. ASSUME RequestInv, [Next]_vars, NEW r \in Requests, SaveSection(r),
               NEW s \in Sections \ {request[r].section}, config'[s] # config[s]
        PROVE  "config" \in news[r]
    <2>1. TypeOK
      BY <1>1 DEF RequestInv
    <2>2. Doing(r, "save") /\ request[r] \in Save
      BY <1>1, <2>1, Kinds DEF SaveSection
    <2>3. config' = Saved(request[r])
      BY <1>1 DEF SaveSection, Store
    <2>4. config'[s] = request[r].read[s]
      BY <1>1, <2>2, <2>3, SavedIsConfig
    <2>5. QED BY <1>1, <2>2, <2>4 DEF RequestInv, ReadIsCurrent
  <1>2. RequestInv /\ [Next]_vars =>
          [\A r \in Requests :
             SaveSection(r) =>
               \A s \in Sections \ {request[r].section} :
                  config'[s] # config[s] => "config" \in news[r]]_vars
    BY <1>1
  <1>3. QED BY <1>2, InitHolds, NextKeeps, PTL DEF Spec, SaveKeepsOtherSections

(* ResolveService.bulk: what a bulk request commits on a row is its action *)
(* applied to the row as it is then.                                       *)
THEOREM BulkTheorem == Spec => DecisionsAccumulate
  <1>1. ASSUME RequestInv, [Next]_vars, NEW r \in Requests, CommitBulk(r), NEW w \in Rows
        PROVE  marks'[w] \in {marks[w], Marked(request[r].action, marks[w])}
    <2>1. CASE w \in request[r].done /\ ~ request[r].aborted
      <3>1. request[r].new[w] = Marked(request[r].action, marks[w])
        BY <1>1, <2>1 DEF RequestInv, MarkedIsLocked, CommitBulk
      <3>2. QED BY <1>1, <2>1, <3>1 DEF CommitBulk
    <2>2. CASE ~ (w \in request[r].done /\ ~ request[r].aborted)
      BY <1>1, <2>2 DEF CommitBulk
    <2>3. QED BY <2>1, <2>2
  <1>2. RequestInv /\ [Next]_vars =>
          [\A r \in Requests :
             CommitBulk(r) =>
               \A w \in Rows : marks'[w] \in {marks[w], Marked(request[r].action, marks[w])}]_vars
    BY <1>1
  <1>3. QED BY <1>2, InitHolds, NextKeeps, PTL DEF Spec, DecisionsAccumulate

(* _persist_preledger_blocked: a document gets a second row only if        *)
(* another batch logged it while this one ran, or if the batch names it    *)
(* twice.                                                                  *)
THEOREM SecondRowTheorem == Spec => SecondRowNeedsOverlap
  <1>1. ASSUME RequestInv, [Next]_vars, NEW r \in Requests, CommitBatch(r), NEW d \in Docs,
               logged'[d] > logged[d], logged'[d] > 1, ~ (Cardinality(Inserts(r, d)) > 1)
        PROVE  d \in news[r]
    <2>1. TypeOK /\ Doing(r, "batch")
      BY <1>1 DEF RequestInv, CommitBatch
    <2>2. logged[d] \in Nat /\ logged'[d] = logged[d] + Cardinality(Inserts(r, d))
      BY <1>1, <2>1 DEF CommitBatch, TypeOK
    <2>3. IsFiniteSet(Inserts(r, d)) /\ Cardinality(Inserts(r, d)) \in Nat
          /\ Inserts(r, d) \subseteq request[r].missing
      BY <2>1, InsertsFinite
    <2>4. logged[d] # 0 /\ Cardinality(Inserts(r, d)) # 0
      BY <1>1, <2>2, <2>3
    <2>5. Inserts(r, d) # {}
      BY <2>4, FS_EmptySet
    <2>6. PICK t \in Inserts(r, d) : TRUE
      BY <2>5
    <2>7. t \in request[r].missing /\ DocOf[t] = d
      BY <2>3, <2>6 DEF Inserts
    <2>8. QED BY <1>1, <2>1, <2>4, <2>7 DEF RequestInv, MissingIsUnlogged
  <1>2. RequestInv /\ [Next]_vars =>
          [\A r \in Requests :
             CommitBatch(r) =>
               \A d \in Docs :
                  logged'[d] > logged[d] /\ logged'[d] > 1
                    => d \in news[r] \/ Cardinality(Inserts(r, d)) > 1]_vars
    BY <1>1
  <1>3. QED BY <1>2, InitHolds, NextKeeps, PTL DEF Spec, SecondRowNeedsOverlap
=============================================================================
