------------------------- MODULE XeroMirrorProofs -------------------------
(***************************************************************************)
(* Proofs about XeroMirror, for any records, workers, caps and bounds, and *)
(* any overlap longer than two pulls; and, after them, about SyncTask.     *)
(***************************************************************************)
EXTENDS XeroMirror, SyncTask, FiniteSetTheorems, WellFoundedInduction, TLAPS

-----------------------------------------------------------------------------
(* Pages of a list.                                                        *)

LEMMA ListIsFinite ==
  ASSUME NEW list \in SUBSET Ids
  PROVE  /\ IsFiniteSet(list) /\ Cardinality(list) \in Nat
         /\ \A o : Length(o, list) \in Nat
  <1>1. IsFiniteSet(list) /\ Cardinality(list) \in Nat
    BY IdsAssumption, FS_Subset, FS_CardinalityType
  <1>2. QED BY <1>1 DEF Length

\* An order is not None, and places a record no later than itself.
LEMMA OrderPlaces ==
  ASSUME NEW o \in Orders
  PROVE  o # None /\ \A id \in Ids : o[id] \in Nat /\ o[id] <= o[id]
  <1>1. o # None
    BY NoneAssumption
  <1>2. \A id \in Ids : o[id] \in Nat
    BY IdsAssumption DEF Orders
  <1>3. QED BY <1>1, <1>2

\* A member of a list has a rank between one and the length of the list.
LEMMA RankInList ==
  ASSUME NEW o \in Orders \cup {None}, NEW list \in SUBSET Ids, NEW id \in list
  PROVE  /\ Rank(o, id, list) \in Nat
         /\ 1 <= Rank(o, id, list)
         /\ Rank(o, id, list) <= Length(o, list)
  <1>1. CASE o = None
    BY <1>1 DEF Rank, Length
  <1>2. CASE o # None
    <2> DEFINE upto == {j \in list : o[j] <= o[id]}
    <2>1. IsFiniteSet(list) /\ Cardinality(list) \in Nat
      BY ListIsFinite
    <2>2. IsFiniteSet(upto) /\ Cardinality(upto) \in Nat /\ Cardinality(upto) <= Cardinality(list)
      BY <2>1, FS_Subset, FS_CardinalityType
    <2>3. id \in upto
      BY <1>2, OrderPlaces
    <2>4. upto # {}
      BY <2>3
    <2>5. Cardinality(upto) # 0
      BY <2>2, <2>4, FS_EmptySet
    <2>6. QED BY <1>2, <2>2, <2>5 DEF Rank, Length
  <1>3. QED BY <1>1, <1>2

\* A record keeps its rank or moves back when the list grows.
LEMMA RankGrows ==
  ASSUME NEW o \in Orders \cup {None}, NEW list \in SUBSET Ids, NEW longer \in SUBSET Ids,
         list \subseteq longer, NEW id \in list
  PROVE  Rank(o, id, list) <= Rank(o, id, longer)
  <1>1. CASE o = None
    BY <1>1 DEF Rank
  <1>2. CASE o # None
    <2> DEFINE upto == {j \in list : o[j] <= o[id]}
               more == {j \in longer : o[j] <= o[id]}
    <2>1. IsFiniteSet(more)
      BY ListIsFinite, FS_Subset
    <2>2. upto \subseteq more
      OBVIOUS
    <2>3. Cardinality(upto) <= Cardinality(more)
      BY <2>1, <2>2, FS_Subset
    <2>4. QED BY <1>2, <2>3 DEF Rank
  <1>3. QED BY <1>1, <1>2

LEMMA OrderType == TypeOK => order \in Orders \cup {None}
  BY DEF TypeOK

LEMMA MatchingType == \A since : Matching(since) \subseteq Ids
  BY DEF Matching

LEMMA RowsType ==
  ASSUME TypeOK, NEW list, NEW n
  PROVE  Rows(list, n) \in [Ids -> Record \cup {None}]
  BY DEF TypeOK, Rows

LEMMA MergeType ==
  ASSUME NEW old \in [Ids -> Record \cup {None}], NEW new \in [Ids -> Record \cup {None}]
  PROVE  Merge(old, new) \in [Ids -> Record \cup {None}]
  BY DEF Merge

LEMMA NoRowsType == NoRows \in [Ids -> Record \cup {None}]
  BY DEF NoRows

LEMMA IdleType == Idle \in Pull
  BY NoRowsType DEF Idle, Pull, Steps

-----------------------------------------------------------------------------
(* Type correctness.                                                       *)

LEMMA InitType == Init => TypeOK
  <1> SUFFICES ASSUME Init PROVE TypeOK
    OBVIOUS
  <1>1. /\ [upd : {1}, rev : {0}, active : BOOLEAN] \subseteq Record
        /\ [upd : {1}, rev : {0}, active : {TRUE}] \subseteq Record
    <2>1. {1} \subseteq Nat /\ {0} \subseteq Nat /\ {TRUE} \subseteq BOOLEAN
      OBVIOUS
    <2>2. ASSUME NEW A \in SUBSET Nat, NEW B \in SUBSET Nat, NEW C \in SUBSET BOOLEAN
          PROVE  [upd : A, rev : B, active : C] \subseteq Record
      BY Zenon DEF Record
    <2>3. QED BY <2>1, <2>2
  <1>0. order \in Orders \cup {None}
    BY IdsAssumption DEF Init, Orders
  <1>2. xero \in [Ids -> Record \cup {None}] /\ mirror \in [Ids -> Record \cup {None}]
    BY <1>1, NoRowsType DEF Init
  <1>3. pull \in [Workers -> Pull]
    BY IdleType DEF Init
  <1>4. QED
    BY <1>0, <1>2, <1>3, BoundAssumption DEF Init, TypeOK, Causes, Disturbances

LEMMA ObserversType ==
  ASSUME TypeOK, NEW w, NEW kind \in Disturbances, Disturb(w, kind)
  PROVE  disturbed' \in [Workers -> SUBSET Disturbances]
  BY DEF TypeOK, Disturb

LEMMA GiveUpType ==
  ASSUME TypeOK, NEW w \in Workers, NEW list, NEW n, NEW cause \in Causes,
         GiveUp(w, list, n, cause)
  PROVE  causes' \subseteq Causes /\ disturbed' \in [Workers -> SUBSET Disturbances]
  <1>1. causes' \subseteq Causes
    BY DEF TypeOK, GiveUp
  <1>2. disturbed' \in [Workers -> SUBSET Disturbances]
    BY DEF TypeOK, GiveUp, Disturbances
  <1>3. QED BY <1>1, <1>2

\* The pull that w sets is well typed when what it is set to is.
LEMMA SetType ==
  ASSUME TypeOK, NEW w \in Workers, NEW p \in Pull, Set(w, p)
  PROVE  pull' \in [Workers -> Pull]
  BY DEF TypeOK, Set

LEMMA ReturnType ==
  ASSUME TypeOK, NEW w \in Workers, NEW rows \in [Ids -> Record \cup {None}],
         Return(w, rows)
  PROVE  pull' \in [Workers -> Pull]
  <1>1. pull[w] \in Pull
    BY DEF TypeOK
  <1>2. [pull[w] EXCEPT !.pc = IF \E id \in Ids : rows[id] # None THEN "upsert" ELSE Ended,
                        !.rows = rows] \in Pull
    BY <1>1 DEF Pull, Steps, Ended
  <1>3. QED BY <1>2, SetType DEF Return

LEMMA OnEmptyPageType ==
  ASSUME TypeOK, NEW w \in Workers, OnEmptyPage(w)
  PROVE  pull' \in [Workers -> Pull]
  <1>1. pull[w] \in Pull
    BY DEF TypeOK
  <1>2. [pull[w] EXCEPT !.pc = IF @ = "fetch" /\ pull[w].page = 1 THEN "fallback" ELSE Ended,
                        !.rows = NoRows, !.proxy = 1] \in Pull
    BY <1>1, NoRowsType DEF Pull, Steps, Ended
  <1>3. QED BY <1>2, SetType DEF OnEmptyPage

LEMMA BeginType ==
  ASSUME TypeOK, NEW w \in Workers, NEW since \in Int \cup {None},
         NEW loaded \in Nat \cup {None}, NEW max \in Nat \cup {None},
         Begin(w, since, loaded, max)
  PROVE  pull' \in [Workers -> Pull]
  <1>1. [Idle EXCEPT !.pc = "fetch", !.started = now, !.since = since,
                     !.loaded = loaded, !.max = max] \in Pull
    BY IdleType DEF Pull, Steps, TypeOK
  <1>2. QED BY <1>1, SetType DEF Begin

LEMMA LoadStateType ==
  ASSUME TypeOK, NEW w \in Workers, NEW forced \in BOOLEAN, LoadState(w, forced)
  PROVE  pull' \in [Workers -> Pull]
  <1>1. CASE status = None
    <2>1. [Idle EXCEPT !.pc = "create"] \in Pull
      BY IdleType DEF Pull, Steps
    <2>2. QED BY <1>1, <2>1, SetType DEF LoadState
  <1>2. CASE status # None /\ watermark # None /\ ~forced
    <2>1. watermark \in Nat /\ Since(watermark) \in Int
      BY <1>2, BoundAssumption DEF TypeOK, Since
    <2>2. QED BY <1>2, <2>1, BeginType DEF LoadState
  <1>3. CASE status # None /\ ~(watermark # None /\ ~forced)
    BY <1>3, BeginType DEF LoadState, TypeOK
  <1>4. QED BY <1>1, <1>2, <1>3

LEMMA UpsertType ==
  ASSUME TypeOK, NEW w \in Workers, Upsert(w)
  PROVE  /\ pull' \in [Workers -> Pull]
         /\ mirror' \in [Ids -> Record \cup {None}]
         /\ causes' \subseteq Causes
         /\ disturbed' \in [Workers -> SUBSET Disturbances]
  <1> DEFINE p == pull[w]
             stamps == {p.rows[id].upd : id \in Held(w)} \cup ({p.max} \ {None})
             last == p.page >= MaxPages \/ order = None
  <1>1. p \in Pull /\ Held(w) \subseteq Ids
    BY DEF TypeOK, Held
  <1>2. stamps \subseteq Nat
    <2>1. \A id \in Held(w) : p.rows[id] \in Record
      BY <1>1 DEF Held, Pull
    <2>2. QED BY <1>1, <2>1 DEF Record, Pull
  <1>3. PICK max \in IF stamps = {} THEN {None} ELSE Newest(stamps) :
          Set(w, [p EXCEPT !.pc = IF last THEN Ended ELSE "fetch",
                           !.page = @ + 1, !.rows = NoRows, !.max = max,
                           !.seen = @ \cup Held(w)])
    BY DEF Upsert
  <1>4. max \in Nat \cup {None}
    BY <1>2, <1>3 DEF Newest
  <1>5. [p EXCEPT !.pc = IF last THEN Ended ELSE "fetch",
                  !.page = @ + 1, !.rows = NoRows, !.max = max,
                  !.seen = @ \cup Held(w)] \in Pull
    <2> DEFINE pc == IF last THEN Ended ELSE "fetch"
               page == p.page + 1
               seen == p.seen \cup Held(w)
    <2>1. pc \in Steps
      BY DEF Steps, Ended
    <2>2. page \in Nat /\ seen \in SUBSET Ids
      BY <1>1 DEF Pull
    <2> HIDE DEF p, pc, page, seen, stamps
    <2>3. [p EXCEPT !.pc = pc, !.page = page, !.rows = NoRows, !.max = max, !.seen = seen]
            \in Pull
      BY <1>1, <1>4, <2>1, <2>2, NoRowsType DEF Pull
    <2>4. QED BY <2>3 DEF pc, page, seen
  <1>6. pull' \in [Workers -> Pull]
    BY <1>3, <1>5, SetType
  <1>7. mirror' \in [Ids -> Record \cup {None}]
    BY <1>1, MergeType DEF Upsert, Mirrored, TypeOK, Pull
  <1>8. causes' \subseteq Causes
    BY DEF Upsert, TypeOK, Causes
  <1>9. disturbed' \in [Workers -> SUBSET Disturbances]
    BY DEF Upsert, TypeOK, Disturbances
  <1>10. QED BY <1>6, <1>7, <1>8, <1>9

LEMMA ProxyPageType ==
  ASSUME TypeOK, NEW w \in Workers, ProxyPage(w)
  PROVE  /\ pull' \in [Workers -> Pull]
         /\ causes' \subseteq Causes
         /\ disturbed' \in [Workers -> SUBSET Disturbances]
  <1> DEFINE all == Matching(None)
             n == pull[w].proxy
             rows == Merge(pull[w].rows, Rows(all, n))
  <1>1. pull[w] \in Pull
    BY DEF TypeOK
  <1>2. rows \in [Ids -> Record \cup {None}]
    BY <1>1, RowsType, MergeType DEF Pull
  <1>3. CASE mode = "incremental" /\ n < MaxProxyPages
    <2>1. n + 1 \in Nat
      BY <1>1 DEF Pull
    <2>0. [pull[w] EXCEPT !.rows = rows, !.proxy = n + 1] \in Pull
      <3> HIDE DEF n, rows
      <3>1. QED BY <1>1, <1>2, <2>1 DEF Pull
    <2>2. Set(w, [pull[w] EXCEPT !.rows = rows, !.proxy = n + 1])
      BY <1>3 DEF ProxyPage
    <2>3. UNCHANGED <<causes, disturbed>>
      BY <1>3 DEF ProxyPage
    <2>4. QED BY <2>0, <2>2, <2>3, SetType DEF TypeOK
  <1>4. CASE ~(mode = "incremental" /\ n < MaxProxyPages)
    <2>1. Return(w, rows)
      BY <1>4 DEF ProxyPage
    <2>2. GiveUp(w, all, n + 1, "page_cap") \/ UNCHANGED <<causes, disturbed>>
      BY <1>4 DEF ProxyPage
    <2>3. "page_cap" \in Causes
      BY DEF Causes
    <2>4. QED BY <1>2, <2>1, <2>2, <2>3, ReturnType, GiveUpType DEF TypeOK
  <1>5. QED BY <1>3, <1>4

LEMMA NextType == TypeOK /\ [Next]_vars => TypeOK'
  <1> SUFFICES ASSUME TypeOK, [Next]_vars PROVE TypeOK'
    OBVIOUS
  <1>1. CASE Tick
    <2>0. now' = now + 1
      BY <1>1 DEF Tick
    <2>1. now' \in Nat
      BY <2>0 DEF TypeOK
    <2>2. causes' \subseteq Causes
      BY <1>1 DEF Tick, TypeOK, Causes
    <2>3. QED BY <1>1, <2>1, <2>2 DEF Tick, TypeOK, stateVars
  <1>2. ASSUME NEW id \in Ids, NEW active \in BOOLEAN, Edit(id, active) PROVE TypeOK'
    <2>1. "xero" \in Disturbances
      BY DEF Disturbances
    <2>2. [upd |-> now, rev |-> edits + 1, active |-> active] \in Record
      BY BoundAssumption DEF TypeOK, Record
    <2>3. xero' \in [Ids -> Record \cup {None}]
      BY <1>2, <2>2 DEF Edit, TypeOK
    <2>4. edits' \in 0 .. MaxEdits
      BY <1>2, BoundAssumption DEF Edit, TypeOK
    <2>5. disturbed' \in [Workers -> SUBSET Disturbances]
      BY <1>2, <2>1, ObserversType DEF Edit
    <2>6. QED BY <1>2, <2>3, <2>4, <2>5 DEF Edit, TypeOK, stateVars
  <1>3. ASSUME NEW id \in Ids, Delete(id) PROVE TypeOK'
    <2>1. "xero" \in Disturbances
      BY DEF Disturbances
    <2>2. xero' \in [Ids -> Record \cup {None}]
      BY <1>3 DEF Delete, TypeOK
    <2>3. edits' \in 0 .. MaxEdits
      BY <1>3, BoundAssumption DEF Delete, TypeOK
    <2>4. disturbed' \in [Workers -> SUBSET Disturbances]
      BY <1>3, <2>1, ObserversType DEF Delete
    <2>5. QED BY <1>3, <2>2, <2>3, <2>4 DEF Delete, TypeOK, stateVars
  <1>4. ASSUME NEW w \in Workers, Step(w) PROVE TypeOK'
    <2> USE DEF xeroVars, stateVars
    <2>0. pull[w] \in Pull
      BY DEF TypeOK
    <2>1. ASSUME NEW forced \in BOOLEAN, LoadState(w, forced) PROVE TypeOK'
      <3>1. pull' \in [Workers -> Pull]
        BY <2>1, LoadStateType
      <3>2. status' \in {None, "in_progress", "ok", "error"}
        BY <2>1 DEF LoadState, TypeOK
      <3>3. pulls' \in 0 .. MaxPulls
        BY <2>1, BoundAssumption DEF LoadState, TypeOK
      <3>4. disturbed' \in [Workers -> SUBSET Disturbances]
        BY <2>1 DEF LoadState, TypeOK
      <3>5. QED BY <2>1, <3>1, <3>2, <3>3, <3>4 DEF LoadState, TypeOK
    <2>2. CASE CreateState(w)
      <3>1. pull' \in [Workers -> Pull]
        BY <2>2, BeginType, SetType, IdleType DEF CreateState
      <3>2. disturbed' \in [Workers -> SUBSET Disturbances]
        BY <2>2 DEF CreateState, TypeOK
      <3>3. QED BY <2>2, <3>1, <3>2 DEF CreateState, TypeOK
    <2>3. CASE FetchPage(w)
      <3>1. [pull[w] EXCEPT !.pc = "upsert", !.rows = Rows(List(w), pull[w].page)] \in Pull
        BY <2>0, RowsType DEF Pull, Steps
      <3>2. pull' \in [Workers -> Pull]
        BY <2>3, <3>1, SetType DEF FetchPage
      <3>3. QED BY <2>3, <3>2 DEF FetchPage, TypeOK
    <2>4. CASE FetchEmpty(w)
      BY <2>4, OnEmptyPageType DEF FetchEmpty, TypeOK
    <2>5. CASE FetchFails(w)
      <3>1. "failed_page" \in Causes
        BY DEF Causes
      <3>2. causes' \subseteq Causes /\ disturbed' \in [Workers -> SUBSET Disturbances]
        BY <2>5, <3>1, GiveUpType DEF FetchFails, TypeOK
      <3>3. failures' \in 0 .. MaxFailures
        <4>1. Fail
          BY <2>5 DEF FetchFails
        <4>2. QED BY <4>1, BoundAssumption DEF Fail, TypeOK
      <3>4. QED BY <2>5, <3>2, <3>3, OnEmptyPageType DEF FetchFails, TypeOK
    <2>6. CASE ProxyPage(w)
      <3>1. UNCHANGED <<xeroVars, mirror, stateVars, pulls, failures>>
        BY <2>6 DEF ProxyPage
      <3>2. QED BY <2>6, <3>1, ProxyPageType DEF TypeOK
    <2>7. CASE ProxyEmpty(w)
      BY <2>0, <2>7, ReturnType DEF ProxyEmpty, TypeOK, Pull
    <2>8. CASE ProxyFails(w)
      <3>1. "failed_page" \in Causes
        BY DEF Causes
      <3>2. pull[w].rows \in [Ids -> Record \cup {None}]
        BY <2>0 DEF Pull
      <3>3. pull' \in [Workers -> Pull]
        BY <2>8, <3>2, NoRowsType, ReturnType DEF ProxyFails
      <3>4. causes' \subseteq Causes /\ disturbed' \in [Workers -> SUBSET Disturbances]
        BY <2>8, <3>1, GiveUpType DEF ProxyFails
      <3>5. failures' \in 0 .. MaxFailures
        <4>1. Fail
          BY <2>8 DEF ProxyFails
        <4>2. QED BY <4>1, BoundAssumption DEF Fail, TypeOK
      <3>6. QED BY <2>8, <3>3, <3>4, <3>5 DEF ProxyFails, TypeOK
    <2>9. CASE Upsert(w)
      <3>1. UNCHANGED <<xeroVars, stateVars, pulls, failures>>
        BY <2>9 DEF Upsert
      <3>2. QED BY <2>9, <3>1, UpsertType DEF TypeOK
    <2>10. CASE Prune(w)
      <3>1. [pull[w] EXCEPT !.pc = "finish"] \in Pull
        BY <2>0 DEF Pull, Steps
      <3>2. pull' \in [Workers -> Pull]
        BY <2>10, <3>1, SetType DEF Prune
      <3>3. "mirror" \in Disturbances
        BY DEF Disturbances
      <3>4. disturbed' \in [Workers -> SUBSET Disturbances]
        BY <2>10, <3>3, ObserversType DEF Prune
      <3>5. mirror' \in [Ids -> Record \cup {None}]
        BY <2>10 DEF Prune, TypeOK
      <3>6. QED BY <2>10, <3>2, <3>4, <3>5 DEF Prune, TypeOK
    <2>11. CASE Finish(w)
      <3>1. pull' \in [Workers -> Pull] /\ disturbed' \in [Workers -> SUBSET Disturbances]
        BY <2>11, IdleType, SetType DEF Finish, Leave, TypeOK
      <3>2. watermark' \in Nat \cup {None}
        BY <2>0, <2>11 DEF Finish, TypeOK, Pull
      <3>3. QED BY <2>11, <3>1, <3>2 DEF Finish, TypeOK
    <2>12. CASE PullRaises(w) \/ Crash(w)
      <3>1. pull' \in [Workers -> Pull] /\ disturbed' \in [Workers -> SUBSET Disturbances]
        BY <2>12, IdleType, SetType DEF PullRaises, Crash, Leave, TypeOK
      <3>2. failures' \in 0 .. MaxFailures
        BY <2>12, BoundAssumption DEF PullRaises, Crash, Fail, TypeOK
      <3>3. QED BY <2>12, <3>1, <3>2 DEF PullRaises, Crash, TypeOK
    <2>13. CASE ProxyAll(w)
      <3>1. ActiveIn(Matching(None)) \in [Ids -> Record \cup {None}]
        BY DEF ActiveIn, TypeOK
      <3>2. pull' \in [Workers -> Pull]
        BY <2>13, <3>1, ReturnType DEF ProxyAll
      <3>3. causes' \subseteq Causes /\ disturbed' \in [Workers -> SUBSET Disturbances]
        BY <2>13 DEF ProxyAll, TypeOK, Causes, Disturbances
      <3>4. QED BY <2>13, <3>2, <3>3 DEF ProxyAll, TypeOK
    <2>14. QED
      BY <1>4, <2>1, <2>2, <2>3, <2>4, <2>5, <2>6, <2>7, <2>8, <2>9, <2>10, <2>11, <2>12, <2>13
      DEF Step
  <1>5. CASE Reorder
    <2>1. "xero" \in Disturbances /\ "reordered" \in Causes
      BY DEF Disturbances, Causes
    <2>2. order' \in Orders /\ causes' \subseteq Causes
      BY <1>5, <2>1 DEF Reorder, TypeOK
    <2>3. edits' \in 0 .. MaxEdits
      BY <1>5, BoundAssumption DEF Reorder, TypeOK
    <2>4. disturbed' \in [Workers -> SUBSET Disturbances]
      BY <1>5, <2>1, ObserversType DEF Reorder
    <2>5. QED BY <1>5, <2>2, <2>3, <2>4 DEF Reorder, TypeOK, stateVars
  <1>6. CASE UNCHANGED vars
    BY <1>6 DEF vars, TypeOK
  <1>7. QED BY <1>1, <1>2, <1>3, <1>4, <1>5, <1>6 DEF Next

(* Every variable keeps its type in every behaviour of SyncEngine.         *)
THEOREM TypeCorrect == Spec => []TypeOK
  <1>1. Init => TypeOK
    BY InitType
  <1>2. TypeOK /\ [Next]_vars => TypeOK'
    BY NextType
  <1>3. QED BY <1>1, <1>2, PTL DEF Spec

-----------------------------------------------------------------------------
(* Holes.                                                                  *)

LEMMA PullFields ==
  ASSUME TypeOK, NEW w \in Workers
  PROVE  /\ pull[w].started \in Nat
         /\ pull[w].since \in Int \cup {None}
         /\ pull[w].page \in Nat /\ pull[w].proxy \in Nat
         /\ pull[w].rows \in [Ids -> Record \cup {None}]
         /\ pull[w].max \in Nat \cup {None}
         /\ pull[w].pc \in Steps
         /\ pull[w].loaded \in Nat \cup {None}
  BY DEF TypeOK, Pull

\* What Set makes of the pulls.
LEMMA SetEffect ==
  ASSUME TypeOK, NEW w \in Workers, NEW p, Set(w, p)
  PROVE  /\ pull'[w] = p
         /\ \A v \in Workers : v # w => pull'[v] = pull[v]
  BY DEF TypeOK, Set

\* In an incremental entity a record the mirror has wrong is there in Xero.
LEMMA WrongIsPresent ==
  ASSUME TypeOK, ModesApart, mode = "incremental", NEW id \in Ids, mirror[id] # xero[id]
  PROVE  xero[id] # None /\ xero[id] \in Record /\ xero[id].upd \in Nat
  BY DEF TypeOK, ModesApart, Record

\* The records a pull asked for that are still wrong are in its list.
LEMMA PendingIsListed ==
  ASSUME NEW w \in Workers, NEW id \in Ids, xero[id] # None, Pending(w, id)
  PROVE  id \in List(w)
  BY DEF Pending, List, Matching

(* A step of w that writes neither the mirror nor the watermark need only  *)
(* answer for the pull of w.                                               *)
LEMMA LocalStep ==
  ASSUME TypeOK, TypeOK', HoleInv, NEW w \in Workers,
         UNCHANGED <<mode, now, xero, order, mirror, watermark>>,
         causes \subseteq causes',
         \A v \in Workers : v # w => pull'[v] = pull[v],
         \A id \in Ids : pull'[w].rows[id] \in {None, pull[w].rows[id], xero[id]},
         pull'[w].max # None => pull'[w].max <= now,
         Running(w)' =>
           \/ Running(w) /\ pull'[w].started = pull[w].started
           \/ pull'[w].started = now /\ pull'[w].rows = NoRows,
         causes' = {} /\ mode = "incremental" =>
           \A id \in Ids :
             Running(w)' /\ mirror[id] # xero[id] =>
               Pending(w, id)' \/ xero[id].upd >= pull'[w].started - MaxPull
  PROVE  HoleInv'
  <1> USE DEF HoleInv
  <1>0. \A v \in Workers : v # w => (Running(v)' <=> Running(v))
    BY DEF Running
  <1>1. Timely'
    <2>1. \A id \in Ids : xero'[id] # None => xero'[id].upd <= now'
      BY DEF Timely
    <2>2. watermark' # None => watermark' <= now'
      BY DEF Timely
    <2>3. ASSUME NEW v \in Workers
          PROVE  /\ \A id \in Ids : pull'[v].rows[id] # None => pull'[v].rows[id].upd <= now'
                 /\ pull'[v].max # None => pull'[v].max <= now'
                 /\ Running(v)' => /\ pull'[v].started <= now'
                                   /\ "slow_pull" \notin causes' =>
                                        now' <= pull'[v].started + MaxPull
      <3>1. CASE v # w
        BY <1>0, <3>1 DEF Timely
      <3>2. CASE v = w
        <4>1. \A id \in Ids : pull'[w].rows[id] # None => pull'[w].rows[id].upd <= now'
          BY DEF Timely
        <4>2. now <= now + MaxPull /\ now <= now
          BY BoundAssumption DEF TypeOK
        <4>3. ASSUME Running(w)'
              PROVE  /\ pull'[w].started <= now'
                     /\ "slow_pull" \notin causes' => now' <= pull'[w].started + MaxPull
          BY <4>2, <4>3 DEF Timely
        <4>4. QED BY <3>2, <4>1, <4>3
      <3>3. QED BY <3>1, <3>2
    <2>4. QED BY <2>1, <2>2, <2>3 DEF Timely
  <1>2. ModesApart'
    <2>1. ASSUME mode = "incremental", NEW id \in Ids, xero[id] = None
          PROVE  mirror[id] = None /\ \A v \in Workers : pull'[v].rows[id] = None
      BY <2>1 DEF ModesApart
    <2>2. QED BY <2>1 DEF ModesApart
  <1>3. HeldRowsAreRecent'
    <2> SUFFICES ASSUME mode = "incremental", NEW v \in Workers, NEW id \in Ids,
                        Running(v)', pull'[v].rows[id] # None
                 PROVE  pull'[v].rows[id] = xero[id] \/ xero[id].upd >= pull'[v].started
      BY DEF HeldRowsAreRecent
    <2>1. CASE v # w
      BY <1>0, <2>1 DEF HeldRowsAreRecent
    <2>2. CASE v = w /\ pull'[w].rows = NoRows
      BY <2>2 DEF NoRows
    <2>3. CASE v = w /\ Running(w) /\ pull'[w].started = pull[w].started
      BY <2>3 DEF HeldRowsAreRecent
    <2>4. QED BY <2>1, <2>2, <2>3
  <1>4. PullsRepair'
    <2> SUFFICES ASSUME causes' = {}, mode = "incremental", NEW v \in Workers, NEW id \in Ids,
                        Running(v)', mirror[id] # xero[id]
                 PROVE  Pending(v, id)' \/ xero[id].upd >= pull'[v].started - MaxPull
      BY DEF PullsRepair
    <2>1. CASE v = w
      BY <2>1
    <2>2. CASE v # w
      <3>1. causes = {}
        OBVIOUS
      <3>2. Pending(v, id) \/ xero[id].upd >= pull[v].started - MaxPull
        BY <1>0, <2>2, <3>1 DEF PullsRepair
      <3>3. pull'[v] = pull[v] /\ Matching(None)' = Matching(None) /\ List(v)' = List(v)
        BY <2>2 DEF List, Matching
      <3>4. Pending(v, id) => Pending(v, id)'
        BY <3>3 DEF Pending, Rank
      <3>5. QED BY <3>2, <3>3, <3>4
    <2>3. QED BY <2>1, <2>2
  <1>5. HolesHaveACause'
    <2>1. causes' = {} => causes = {}
      OBVIOUS
    <2>2. QED BY <2>1 DEF HolesHaveACause, WatermarkCoversMirror, Hole
  <1>6. QED BY <1>1, <1>2, <1>3, <1>4, <1>5
\* A pull that ends leaves nothing to answer for.
LEMMA LeaveStep ==
  ASSUME TypeOK, TypeOK', HoleInv, NEW w \in Workers, Leave(w),
         UNCHANGED <<mode, now, xero, order, mirror, watermark, causes>>
  PROVE  HoleInv'
  <1>1. pull'[w] = Idle /\ \A v \in Workers : v # w => pull'[v] = pull[v]
    BY SetEffect DEF Leave
  <1>2. ~Running(w)'
    BY <1>1 DEF Running, Idle
  <1>3. pull'[w].max = None /\ \A id \in Ids : pull'[w].rows[id] = None
    BY <1>1 DEF Idle, NoRows
  <1>4. QED BY <1>1, <1>2, <1>3, LocalStep

\* A pull that begins will be served every record it asks for.
LEMMA BeginAsks ==
  ASSUME TypeOK, NEW w \in Workers, NEW since, NEW loaded, NEW max,
         Begin(w, since, loaded, max), UNCHANGED <<xero, order>>,
         NEW id \in Ids, xero[id] # None, since = None \/ xero[id].upd > since
  PROVE  Pending(w, id)'
  <1>1. pull'[w] = [Idle EXCEPT !.pc = "fetch", !.started = now, !.since = since,
                                !.loaded = loaded, !.max = max]
    BY SetEffect DEF Begin
  <1>2. pull'[w].pc = "fetch" /\ pull'[w].since = since /\ pull'[w].page = 1
    BY <1>1 DEF Idle
  <1>3. id \in Matching(since)
    BY DEF Matching
  <1>4. Rank(order, id, Matching(since)) >= 1 /\ Rank(order, id, Matching(since)) \in Nat
    BY <1>3, MatchingType, RankInList, OrderType
  <1>5. List(w)' = Matching(since)
    BY <1>2 DEF List, Matching
  <1>6. Rank(order, id, List(w)') >= 1
    BY <1>4, <1>5
  <1>7. Rank(order, id, List(w))' >= pull'[w].page
    BY <1>2, <1>6 DEF Rank
  <1>8. QED BY <1>2, <1>7 DEF Pending

\* A pull that begins asks for every record the mirror has wrong.
LEMMA BeginStep ==
  ASSUME TypeOK, TypeOK', HoleInv, NEW w \in Workers,
         NEW since, NEW loaded, NEW max, Begin(w, since, loaded, max),
         max # None => max \in Nat /\ max <= now,
         UNCHANGED <<mode, now, xero, order, mirror, watermark, causes>>,
         causes = {} /\ mode = "incremental" =>
           \A id \in Ids : mirror[id] # xero[id] => since = None \/ xero[id].upd > since
  PROVE  HoleInv'
  <1>1. /\ pull'[w] = [Idle EXCEPT !.pc = "fetch", !.started = now, !.since = since,
                                   !.loaded = loaded, !.max = max]
        /\ \A v \in Workers : v # w => pull'[v] = pull[v]
    BY SetEffect DEF Begin
  <1>2. /\ pull'[w].pc = "fetch" /\ pull'[w].started = now /\ pull'[w].since = since
        /\ pull'[w].max = max /\ pull'[w].rows = NoRows /\ pull'[w].page = 1
    BY <1>1 DEF Idle
  <1>3. \A id \in Ids : pull'[w].rows[id] = None
    BY <1>2 DEF NoRows
  <1>4. ASSUME causes = {}, mode = "incremental", NEW id \in Ids, mirror[id] # xero[id]
        PROVE  Pending(w, id)'
    BY <1>4, WrongIsPresent, BeginAsks DEF HoleInv
  <1>5. QED BY ZenonT(40), <1>1, <1>2, <1>3, <1>4, LocalStep

LEMMA LoadStateStep ==
  ASSUME TypeOK, TypeOK', HoleInv, NEW w \in Workers, NEW forced \in BOOLEAN,
         LoadState(w, forced)
  PROVE  HoleInv'
  <1>0. UNCHANGED <<mode, now, xero, order, mirror, watermark, causes>>
    BY DEF LoadState, xeroVars
  <1>1. CASE status = None
    <2>1. Set(w, [Idle EXCEPT !.pc = "create"])
      BY <1>1 DEF LoadState
    <2>2. /\ pull'[w] = [Idle EXCEPT !.pc = "create"]
          /\ \A v \in Workers : v # w => pull'[v] = pull[v]
      BY <2>1, SetEffect
    <2>3. ~Running(w)'
      BY <2>2 DEF Running, Idle
    <2>4. pull'[w].max = None /\ \A id \in Ids : pull'[w].rows[id] = None
      BY <2>2 DEF Idle, NoRows
    <2>5. QED BY <1>0, <2>2, <2>3, <2>4, LocalStep
  <1>2. CASE status # None /\ watermark # None /\ ~forced
    <2>1. Begin(w, Since(watermark), watermark, watermark)
      BY <1>2 DEF LoadState
    <2>2. watermark \in Nat /\ watermark <= now
      BY <1>2 DEF TypeOK, HoleInv, Timely
    <2>3. ASSUME causes = {}, mode = "incremental", NEW id \in Ids, mirror[id] # xero[id]
          PROVE  xero[id].upd > Since(watermark)
      <3>1. xero[id] # None /\ xero[id].upd \in Nat
        BY <2>3, WrongIsPresent DEF HoleInv
      <3>2. ~(xero[id].upd <= watermark - Overlap)
        BY <1>2, <2>3, <3>1 DEF HoleInv, HolesHaveACause, WatermarkCoversMirror, Hole
      <3>3. QED BY <2>2, <3>1, <3>2, BoundAssumption DEF Since
    <2>4. QED BY <1>0, <2>1, <2>2, <2>3, BeginStep
  <1>3. CASE status # None /\ ~(watermark # None /\ ~forced)
    <2>1. Begin(w, None, watermark, None)
      BY <1>3 DEF LoadState
    <2>2. QED BY <1>0, <2>1, BeginStep
  <1>4. QED BY <1>1, <1>2, <1>3

LEMMA CreateStateStep ==
  ASSUME TypeOK, TypeOK', HoleInv, NEW w \in Workers, CreateState(w)
  PROVE  HoleInv'
  <1>0. UNCHANGED <<mode, now, xero, order, mirror, watermark, causes>>
    BY DEF CreateState, xeroVars
  <1>1. CASE status = None
    BY <1>0, <1>1, BeginStep DEF CreateState
  <1>2. CASE status # None
    <2>1. Set(w, Idle)
      BY <1>2 DEF CreateState
    <2>2. pull'[w] = Idle /\ \A v \in Workers : v # w => pull'[v] = pull[v]
      BY <2>1, SetEffect
    <2>3. ~Running(w)'
      BY <2>2 DEF Running, Idle
    <2>4. pull'[w].max = None /\ \A id \in Ids : pull'[w].rows[id] = None
      BY <2>2 DEF Idle, NoRows
    <2>5. QED BY <1>0, <2>2, <2>3, <2>4, LocalStep
  <1>3. QED BY <1>1, <1>2

(* The steps inside a pull: the clock time it began and the watermark it   *)
(* carries stay, and a record it was still to be served is in hand or      *)
(* comes later.                                                            *)
LEMMA InnerStep ==
  ASSUME TypeOK, TypeOK', HoleInv, NEW w \in Workers, Running(w),
         UNCHANGED <<mode, now, xero, order, mirror, watermark>>,
         causes \subseteq causes',
         \A v \in Workers : v # w => pull'[v] = pull[v],
         \A id \in Ids : pull'[w].rows[id] \in {None, pull[w].rows[id], xero[id]},
         pull'[w].max = pull[w].max, pull'[w].started = pull[w].started,
         causes' = {} /\ mode = "incremental" =>
           \A id \in Ids :
             mirror[id] # xero[id] /\ xero[id] # None /\ Pending(w, id) =>
               Pending(w, id)' \/ xero[id].upd >= pull[w].started - MaxPull
  PROVE  HoleInv'
  <1>1. pull'[w].max # None => pull'[w].max <= now
    BY DEF HoleInv, Timely
  <1>2. ASSUME causes' = {}, mode = "incremental", NEW id \in Ids, mirror[id] # xero[id]
        PROVE  Pending(w, id)' \/ xero[id].upd >= pull'[w].started - MaxPull
    <2>1. xero[id] # None
      BY <1>2, WrongIsPresent DEF HoleInv
    <2>2. causes = {}
      BY <1>2
    <2>3. Pending(w, id) \/ xero[id].upd >= pull[w].started - MaxPull
      BY <1>2, <2>2 DEF HoleInv, PullsRepair
    <2>4. QED BY <1>2, <2>1, <2>3
  <1>3. QED BY <1>1, <1>2, LocalStep

\* What a page step does to the pull, and that it loses nothing pending.
LEMMA FetchPageEffect ==
  ASSUME TypeOK, NEW w \in Workers, FetchPage(w)
  PROVE  /\ UNCHANGED <<mode, now, xero, order, mirror, watermark, causes, disturbed>>
         /\ Running(w)
         /\ \A v \in Workers : v # w => pull'[v] = pull[v]
         /\ pull'[w].pc = "upsert" /\ pull'[w].seen = pull[w].seen
         /\ pull'[w].max = pull[w].max /\ pull'[w].started = pull[w].started
         /\ pull'[w].since = pull[w].since /\ pull'[w].page = pull[w].page
         /\ \A id \in Ids : pull'[w].rows[id] \in {None, xero[id]}
         /\ \A id \in Ids : xero[id] # None /\ Pending(w, id) => Pending(w, id)'
  <1>0. /\ UNCHANGED <<mode, now, xero, order, mirror, watermark, causes, disturbed>>
        /\ pull[w].pc = "fetch"
    BY DEF FetchPage, xeroVars, stateVars
  <1> DEFINE rows == Rows(List(w), pull[w].page)
  <1>1. /\ pull'[w] = [pull[w] EXCEPT !.pc = "upsert", !.rows = rows]
        /\ \A v \in Workers : v # w => pull'[v] = pull[v]
    BY SetEffect DEF FetchPage
  <1>2. /\ pull'[w].pc = "upsert" /\ pull'[w].rows = rows /\ pull'[w].seen = pull[w].seen
        /\ pull'[w].max = pull[w].max /\ pull'[w].started = pull[w].started
        /\ pull'[w].since = pull[w].since /\ pull'[w].page = pull[w].page
    BY <1>1 DEF TypeOK, Pull
  <1>3. \A id \in Ids : pull'[w].rows[id] \in {None, xero[id]}
    BY <1>2 DEF Rows
  <1>4. Running(w)
    BY <1>0 DEF Running
  <1>5. ASSUME NEW id \in Ids, xero[id] # None, Pending(w, id)
        PROVE  Pending(w, id)'
    <2>1. id \in List(w)
      BY <1>5, PendingIsListed
    <2>2. Rank(order, id, List(w)) >= pull[w].page /\ Rank(order, id, List(w)) \in Nat
      BY <1>0, <1>5, <2>1, MatchingType, RankInList, OrderType DEF Pending, List
    <2>3. List(w)' = List(w)
      BY <1>0, <1>2 DEF List, Matching
    <2>4. CASE Rank(order, id, List(w)) = pull[w].page
      <3>1. rows[id] = xero[id]
        BY <2>1, <2>4 DEF Rows
      <3>2. QED BY <1>0, <1>2, <1>5, <3>1 DEF Pending
    <2>5. CASE Rank(order, id, List(w)) > pull[w].page
      <3>1. Rank(order, id, List(w))' > pull'[w].page
        BY <1>0, <1>2, <2>3, <2>5 DEF Rank
      <3>2. QED BY <1>0, <1>2, <1>5, <3>1 DEF Pending
    <2>6. QED BY <2>2, <2>4, <2>5, PullFields
  <1>6. QED BY <1>0, <1>1, <1>2, <1>3, <1>4, <1>5

LEMMA FetchPageStep ==
  ASSUME TypeOK, TypeOK', HoleInv, NEW w \in Workers, FetchPage(w)
  PROVE  HoleInv'
  BY FetchPageEffect, InnerStep

\* An action page that came back empty: the end, or on to the proxy.
LEMMA EmptyPageEffect ==
  ASSUME TypeOK, NEW w \in Workers, OnEmptyPage(w), pull[w].pc = "fetch", UNCHANGED <<xero, order>>
  PROVE  /\ Running(w)
         /\ \A v \in Workers : v # w => pull'[v] = pull[v]
         /\ pull'[w].pc = IF pull[w].page = 1 THEN "fallback" ELSE Ended
         /\ pull'[w].page = pull[w].page /\ pull'[w].proxy = 1
         /\ pull'[w].max = pull[w].max /\ pull'[w].started = pull[w].started
         /\ pull'[w].since = pull[w].since /\ pull'[w].seen = pull[w].seen
         /\ \A id \in Ids : pull'[w].rows[id] = None
         /\ pull[w].page = 1 \/ PastEnd(List(w), pull[w].page) =>
              \A id \in Ids : xero[id] # None /\ Pending(w, id) => Pending(w, id)'
  <1> DEFINE pc == IF pull[w].pc = "fetch" /\ pull[w].page = 1 THEN "fallback" ELSE Ended
  <1>1. /\ pull'[w] = [pull[w] EXCEPT !.pc = pc, !.rows = NoRows, !.proxy = 1]
        /\ \A v \in Workers : v # w => pull'[v] = pull[v]
    BY SetEffect DEF OnEmptyPage
  <1>2. /\ pull'[w].pc = pc /\ pull'[w].rows = NoRows /\ pull'[w].page = pull[w].page
        /\ pull'[w].max = pull[w].max /\ pull'[w].started = pull[w].started
        /\ pull'[w].since = pull[w].since /\ pull'[w].proxy = 1
        /\ pull'[w].seen = pull[w].seen
    BY <1>1 DEF TypeOK, Pull
  <1>3. \A id \in Ids : pull'[w].rows[id] = None
    BY <1>2 DEF NoRows
  <1>4. Running(w)
    BY DEF Running
  <1>5. ASSUME pull[w].page = 1 \/ PastEnd(List(w), pull[w].page),
               NEW id \in Ids, xero[id] # None, Pending(w, id)
        PROVE  Pending(w, id)'
    <2>1. id \in List(w)
      BY <1>5, PendingIsListed
    <2>2. /\ Rank(order, id, List(w)) >= pull[w].page /\ Rank(order, id, List(w)) \in Nat
          /\ Rank(order, id, List(w)) <= Length(order, List(w)) /\ Length(order, List(w)) \in Nat
      BY <1>5, <2>1, MatchingType, RankInList, OrderType, ListIsFinite DEF Pending, List
    <2>3. pull[w].page = 1
      BY <1>5, <2>2, PullFields DEF PastEnd
    <2>4. id \in Matching(None)
      BY <1>5 DEF Matching
    <2>5. Rank(order, id, Matching(None)) >= 1
      BY <2>4, MatchingType, RankInList, OrderType
    <2>6. Matching(None)' = Matching(None)
      BY DEF Matching
    <2>7. Rank(order, id, Matching(None))' >= pull'[w].proxy
      BY <1>2, <2>5, <2>6 DEF Rank
    <2>8. pull'[w].pc = "fallback"
      BY <1>2, <2>3
    <2>9. QED BY <1>2, <1>5, <2>7, <2>8 DEF Pending
  <1>6. QED BY <1>1, <1>2, <1>3, <1>4, <1>5

LEMMA EmptyPageStep ==
  ASSUME TypeOK, TypeOK', HoleInv, NEW w \in Workers, OnEmptyPage(w),
         pull[w].pc = "fetch",
         UNCHANGED <<mode, now, xero, order, mirror, watermark>>,
         causes \subseteq causes',
         pull[w].page # 1 /\ causes' = {} => PastEnd(List(w), pull[w].page)
  PROVE  HoleInv'
  BY EmptyPageEffect, InnerStep

LEMMA FetchEmptyStep ==
  ASSUME TypeOK, TypeOK', HoleInv, NEW w \in Workers, FetchEmpty(w)
  PROVE  HoleInv'
  BY EmptyPageStep DEF FetchEmpty, xeroVars, stateVars

\* Giving up records of a list leaves a cause behind.
LEMMA GiveUpLeavesCause ==
  ASSUME NEW w, NEW list, NEW n, NEW cause, GiveUp(w, list, n, cause)
  PROVE  causes \subseteq causes' /\ (causes' = {} => PastEnd(list, n))
  BY DEF GiveUp

LEMMA FetchFailsStep ==
  ASSUME TypeOK, TypeOK', HoleInv, NEW w \in Workers, FetchFails(w)
  PROVE  HoleInv'
  <1>1. /\ OnEmptyPage(w) /\ pull[w].pc = "fetch"
        /\ UNCHANGED <<mode, now, xero, order, mirror, watermark>>
    BY DEF FetchFails, xeroVars, stateVars
  <1>2. CASE pull[w].page = 1
    BY <1>1, <1>2, EmptyPageStep DEF FetchFails
  <1>3. CASE pull[w].page # 1
    <2>1. GiveUp(w, List(w), pull[w].page, "failed_page")
      BY <1>3 DEF FetchFails
    <2>2. QED BY <1>1, <1>3, <2>1, GiveUpLeavesCause, EmptyPageStep
  <1>4. QED BY <1>2, <1>3

\* The proxy loop hands over its rows.
LEMMA ReturnEffect ==
  ASSUME TypeOK, NEW w \in Workers, NEW rows, Return(w, rows), pull[w].pc = "fallback"
  PROVE  /\ Running(w)
         /\ \A v \in Workers : v # w => pull'[v] = pull[v]
         /\ pull'[w].pc = IF \E id \in Ids : rows[id] # None THEN "upsert" ELSE Ended
         /\ pull'[w].rows = rows /\ pull'[w].seen = pull[w].seen
         /\ pull'[w].max = pull[w].max /\ pull'[w].started = pull[w].started
         /\ pull'[w].since = pull[w].since /\ pull'[w].page = pull[w].page
  <1> DEFINE pc == IF \E id \in Ids : rows[id] # None THEN "upsert" ELSE Ended
  <1>1. /\ pull'[w] = [pull[w] EXCEPT !.pc = pc, !.rows = rows]
        /\ \A v \in Workers : v # w => pull'[v] = pull[v]
    BY SetEffect DEF Return
  <1>2. /\ pull'[w].pc = pc /\ pull'[w].rows = rows
        /\ pull'[w].seen = pull[w].seen /\ pull'[w].page = pull[w].page
        /\ pull'[w].max = pull[w].max /\ pull'[w].started = pull[w].started
        /\ pull'[w].since = pull[w].since
    BY <1>1 DEF TypeOK, Pull
  <1>3. QED BY <1>1, <1>2 DEF Running

\* What it hands over is pending no more than what is in hand.
LEMMA ReturnKeeps ==
  ASSUME TypeOK, NEW w \in Workers, NEW rows, Return(w, rows), pull[w].pc = "fallback",
         UNCHANGED <<xero, order>>,
         NEW id \in Ids, xero[id] # None, Pending(w, id), rows[id] = xero[id]
  PROVE  Pending(w, id)'
  <1>1. pull'[w].pc = "upsert" /\ pull'[w].rows = rows /\ pull'[w].since = pull[w].since
    BY ReturnEffect
  <1>2. QED BY <1>1 DEF Pending

\* All that were pending are handed over, or there is a cause.
LEMMA ReturnStep ==
  ASSUME TypeOK, TypeOK', HoleInv, NEW w \in Workers, NEW rows, Return(w, rows),
         pull[w].pc = "fallback",
         UNCHANGED <<mode, now, xero, order, mirror, watermark>>,
         causes \subseteq causes',
         \A id \in Ids : rows[id] \in {None, pull[w].rows[id], xero[id]},
         causes' = {} /\ mode = "incremental" =>
           \A id \in Ids : xero[id] # None /\ Pending(w, id) => rows[id] = xero[id]
  PROVE  HoleInv'
  <1>1. ASSUME causes' = {}, mode = "incremental", NEW id \in Ids, xero[id] # None, Pending(w, id)
        PROVE  Pending(w, id)'
    <2>1. rows[id] = xero[id]
      BY <1>1
    <2>2. QED BY <1>1, <2>1, ReturnKeeps
  <1>2. QED BY <1>1, ReturnEffect, InnerStep

\* What is pending in the proxy loop.
LEMMA PendingInLoop ==
  ASSUME NEW w \in Workers, NEW id \in Ids, pull[w].pc = "fallback", Pending(w, id)
  PROVE  pull[w].rows[id] = xero[id] \/ Rank(order, id, Matching(None)) >= pull[w].proxy
  BY DEF Pending

\* The proxy's list ended: every record is in hand.
LEMMA ProxyEnded ==
  ASSUME TypeOK, NEW n \in Nat, PastEnd(Matching(None), n), NEW id \in Ids, xero[id] # None
  PROVE  ~(Rank(order, id, Matching(None)) >= n)
  <1>1. id \in Matching(None)
    BY DEF Matching
  <1>2. /\ Rank(order, id, Matching(None)) <= Length(order, Matching(None))
        /\ Rank(order, id, Matching(None)) \in Nat /\ Length(order, Matching(None)) \in Nat
    BY <1>1, MatchingType, RankInList, OrderType, ListIsFinite
  <1>3. QED BY <1>2 DEF PastEnd

LEMMA ProxyEmptyStep ==
  ASSUME TypeOK, TypeOK', HoleInv, NEW w \in Workers, ProxyEmpty(w)
  PROVE  HoleInv'
  <1>1. /\ UNCHANGED <<mode, now, xero, order, mirror, watermark, causes>>
        /\ pull[w].pc = "fallback" /\ PastEnd(Matching(None), pull[w].proxy)
        /\ Return(w, pull[w].rows)
    BY DEF ProxyEmpty, xeroVars, stateVars
  <1>2. \A id \in Ids : xero[id] # None => ~(Rank(order, id, Matching(None)) >= pull[w].proxy)
    BY <1>1, PullFields, ProxyEnded
  <1>3. QED BY <1>1, <1>2, PendingInLoop, ReturnStep

LEMMA ProxyFailsStep ==
  ASSUME TypeOK, TypeOK', HoleInv, NEW w \in Workers, ProxyFails(w)
  PROVE  HoleInv'
  <1> DEFINE all == Matching(None)
  <1>1. /\ UNCHANGED <<mode, now, xero, order, mirror, watermark>>
        /\ pull[w].pc = "fallback"
    BY DEF ProxyFails, xeroVars, stateVars
  <1>2. ASSUME NEW n \in Nat, PastEnd(all, n), NEW id \in Ids, xero[id] # None
        PROVE  ~(Rank(order, id, all) >= n)
    BY <1>2, ProxyEnded
  <1>3. CASE Return(w, pull[w].rows) /\ GiveUp(w, all, pull[w].proxy, "failed_page")
    <2>1. causes \subseteq causes' /\ (causes' = {} => PastEnd(all, pull[w].proxy))
      BY <1>3, GiveUpLeavesCause
    <2>2. QED BY <1>1, <1>2, <1>3, <2>1, PullFields, PendingInLoop, ReturnStep
  <1>4. CASE Return(w, NoRows) /\ GiveUp(w, all, 1, "failed_page")
    <2>1. causes \subseteq causes' /\ (causes' = {} => PastEnd(all, 1))
      BY <1>4, GiveUpLeavesCause
    <2>2. ASSUME causes' = {}, NEW id \in Ids PROVE xero[id] = None
      <3>1. SUFFICES ASSUME xero[id] # None PROVE FALSE
        OBVIOUS
      <3>2. id \in all
        BY <3>1 DEF Matching
      <3>3. Rank(order, id, all) >= 1
        BY <3>2, MatchingType, RankInList, OrderType
      <3>4. QED BY <1>2, <2>1, <2>2, <3>1, <3>3
    <2>3. \A id \in Ids : NoRows[id] = None
      BY DEF NoRows
    <2>4. \A id \in Ids : NoRows[id] \in {None, pull[w].rows[id], xero[id]}
      BY <2>3
    <2>5. causes' = {} /\ mode = "incremental" =>
            \A id \in Ids : xero[id] # None /\ Pending(w, id) => NoRows[id] = xero[id]
      BY <2>2
    <2>6. Return(w, NoRows)
      BY <1>4
    <2> HIDE DEF all
    <2>7. QED BY <1>1, <2>1, <2>4, <2>5, <2>6, ReturnStep
  <1>5. QED BY <1>3, <1>4 DEF ProxyFails

\* A page of the proxy joins what the loop has gathered.
Gathered(w) == Merge(pull[w].rows, Rows(Matching(None), pull[w].proxy))

LEMMA ProxyGathers ==
  ASSUME TypeOK, NEW w \in Workers, NEW id \in Ids
  PROVE  /\ Gathered(w)[id] \in {None, pull[w].rows[id], xero[id]}
         /\ xero[id] # None
            /\ (pull[w].rows[id] = xero[id] \/ Rank(order, id, Matching(None)) >= pull[w].proxy)
            => Gathered(w)[id] = xero[id] \/ Rank(order, id, Matching(None)) >= pull[w].proxy + 1
  <1> DEFINE all == Matching(None)
             n == pull[w].proxy
  <1>1. Gathered(w)[id] \in {None, pull[w].rows[id], xero[id]}
    BY DEF Gathered, Merge, Rows
  <1>2. ASSUME xero[id] # None, pull[w].rows[id] = xero[id] \/ Rank(order, id, all) >= n
        PROVE  Gathered(w)[id] = xero[id] \/ Rank(order, id, all) >= n + 1
    <2>1. id \in all
      BY <1>2 DEF Matching
    <2>2. Rank(order, id, all) \in Nat
      BY <2>1, MatchingType, RankInList, OrderType
    <2>3. CASE Rank(order, id, all) = n
      BY <1>2, <2>1, <2>3 DEF Gathered, Merge, Rows
    <2>4. CASE Rank(order, id, all) # n /\ Rank(order, id, all) >= n
      <3>1. n \in Nat
        BY PullFields
      <3>2. \A r, k \in Nat : r # k /\ r >= k => r >= k + 1
        OBVIOUS
      <3>3. QED BY <2>2, <2>4, <3>1, <3>2
    <2>5. CASE Rank(order, id, all) # n /\ pull[w].rows[id] = xero[id]
      BY <1>2, <2>5 DEF Gathered, Merge, Rows
    <2>6. QED BY <1>2, <2>3, <2>4, <2>5
  <1>3. QED BY <1>1, <1>2

\* Below its cap the loop goes on to the next page.
LEMMA ProxyGoesOn ==
  ASSUME TypeOK, NEW w \in Workers, ProxyPage(w),
         mode = "incremental" /\ pull[w].proxy < MaxProxyPages
  PROVE  /\ UNCHANGED <<causes, disturbed>> /\ Running(w)
         /\ \A v \in Workers : v # w => pull'[v] = pull[v]
         /\ pull'[w].pc = "fallback" /\ pull'[w].rows = Gathered(w)
         /\ pull'[w].page = pull[w].page /\ pull'[w].seen = pull[w].seen
         /\ pull'[w].max = pull[w].max /\ pull'[w].started = pull[w].started
         /\ pull'[w].since = pull[w].since
         /\ \A id \in Ids : xero[id] # None /\ Pending(w, id) => Pending(w, id)'
  <1> DEFINE all == Matching(None)
             n == pull[w].proxy
             rows == Gathered(w)
  <1>1. pull[w].pc = "fallback" /\ UNCHANGED <<xero, order>>
    BY DEF ProxyPage, xeroVars
  <1>2. /\ Set(w, [pull[w] EXCEPT !.rows = rows, !.proxy = n + 1])
        /\ UNCHANGED <<causes, disturbed>>
    BY DEF ProxyPage, Gathered
  <1>3. /\ pull'[w] = [pull[w] EXCEPT !.rows = rows, !.proxy = n + 1]
        /\ \A v \in Workers : v # w => pull'[v] = pull[v]
    BY <1>2, SetEffect
  <1>4. /\ pull'[w].pc = "fallback" /\ pull'[w].rows = rows /\ pull'[w].proxy = n + 1
        /\ pull'[w].max = pull[w].max /\ pull'[w].started = pull[w].started
        /\ pull'[w].since = pull[w].since /\ pull'[w].page = pull[w].page
        /\ pull'[w].seen = pull[w].seen
    BY <1>1, <1>3 DEF TypeOK, Pull
  <1>5. ASSUME NEW id \in Ids, xero[id] # None, Pending(w, id)
        PROVE  Pending(w, id)'
    <2>1. rows[id] = xero[id] \/ Rank(order, id, all) >= n + 1
      BY <1>1, <1>5, ProxyGathers DEF Pending
    <2>2. all' = all
      BY <1>1 DEF Matching
    <2>3. pull'[w].rows[id] = xero'[id] \/ Rank(order, id, all)' >= pull'[w].proxy
      BY <1>1, <1>4, <2>1, <2>2 DEF Rank
    <2>4. QED BY <1>1, <1>4, <1>5, <2>3 DEF Pending
  <1>6. QED BY <1>1, <1>2, <1>3, <1>4, <1>5 DEF Running

LEMMA ProxyPageStep ==
  ASSUME TypeOK, TypeOK', HoleInv, NEW w \in Workers, ProxyPage(w)
  PROVE  HoleInv'
  <1> DEFINE all == Matching(None)
             n == pull[w].proxy
             rows == Gathered(w)
  <1>1. /\ UNCHANGED <<mode, now, xero, order, mirror, watermark>>
        /\ pull[w].pc = "fallback" /\ n \in Nat
    BY PullFields DEF ProxyPage, xeroVars, stateVars
  <1>2. \A id \in Ids : rows[id] \in {None, pull[w].rows[id], xero[id]}
    BY ProxyGathers
  <1>4. CASE mode = "incremental" /\ n < MaxProxyPages
    <2>1. \A id \in Ids : pull'[w].rows[id] \in {None, pull[w].rows[id], xero[id]}
      BY <1>2, <1>4, ProxyGoesOn
    <2>2. QED BY <1>1, <1>4, <2>1, ProxyGoesOn, InnerStep
  <1>5. CASE ~(mode = "incremental" /\ n < MaxProxyPages)
    <2>1. Return(w, rows)
      BY <1>5 DEF ProxyPage, Gathered
    <2>2. IF mode = "incremental" THEN GiveUp(w, all, n + 1, "page_cap")
          ELSE UNCHANGED <<causes, disturbed>>
      BY <1>5 DEF ProxyPage
    <2>3. causes \subseteq causes'
      BY <2>2, GiveUpLeavesCause
    <2>4. ASSUME causes' = {}, mode = "incremental", NEW id \in Ids, xero[id] # None,
                 pull[w].rows[id] = xero[id] \/ Rank(order, id, all) >= n
          PROVE  rows[id] = xero[id]
      <3>1. PastEnd(all, n + 1)
        BY <2>2, <2>4, GiveUpLeavesCause
      <3>2. id \in all
        BY <2>4 DEF Matching
      <3>3. Rank(order, id, all) <= Length(order, all) /\ Rank(order, id, all) \in Nat /\ Length(order, all) \in Nat
        BY <3>2, MatchingType, RankInList, OrderType, ListIsFinite
      <3>4. ~(Rank(order, id, all) >= n + 1)
        BY <1>1, <3>1, <3>3 DEF PastEnd
      <3>5. QED BY <2>4, <3>4, ProxyGathers
    <2>5. QED BY <1>1, <1>2, <2>1, <2>3, <2>4, PendingInLoop, ReturnStep
  <1>6. QED BY <1>4, <1>5

\* Without pages what is pending is handed over, unless an inactive record of
\* the list is left out.
LEMMA ProxyAllKeeps ==
  ASSUME NEW w \in Workers, Inactive(List(w)) = {},
         NEW id \in Ids, xero[id] # None, Pending(w, id)
  PROVE  ActiveIn(Matching(None))[id] = xero[id]
  <1>1. id \in List(w) /\ id \in Matching(None)
    BY PendingIsListed DEF Matching
  <1>2. xero[id].active
    BY <1>1 DEF Inactive
  <1>3. QED BY <1>1, <1>2 DEF ActiveIn

LEMMA ProxyAllStep ==
  ASSUME TypeOK, TypeOK', HoleInv, NEW w \in Workers, ProxyAll(w)
  PROVE  HoleInv'
  <1> DEFINE rows == ActiveIn(Matching(None))
  <1>1. /\ UNCHANGED <<mode, now, xero, order, mirror, watermark>>
        /\ pull[w].pc = "fallback" /\ Return(w, rows)
    BY DEF ProxyAll, xeroVars, stateVars
  <1>2. \A id \in Ids : rows[id] \in {None, pull[w].rows[id], xero[id]}
    BY DEF ActiveIn
  <1>3. causes \subseteq causes' /\ (causes' = {} => Inactive(List(w)) = {})
    BY DEF ProxyAll
  <1> HIDE DEF rows
  <1>4. ASSUME causes' = {}, NEW id \in Ids, xero[id] # None, Pending(w, id)
        PROVE  rows[id] = xero[id]
    BY <1>3, <1>4, ProxyAllKeeps DEF rows
  <1>5. QED BY <1>1, <1>2, <1>3, <1>4, ReturnStep

\* The last page of a pull, and a list that goes on behind it.
IsLast(w) == pull[w].page >= MaxPages \/ order = None
CutOffStep(w) == IsLast(w) /\ ~PastEnd(List(w), pull[w].page + 1)

LEMMA UpsertEffect ==
  ASSUME TypeOK, NEW w \in Workers, Upsert(w)
  PROVE  /\ UNCHANGED <<mode, now, xero, order, watermark>>
         /\ pull[w].pc = "upsert" /\ Running(w)
         /\ mirror' = Mirrored(w)
         /\ causes' = causes \cup IF CutOffStep(w) THEN {"page_cap"} ELSE {}
         /\ disturbed' = [v \in Workers |->
              IF v = w THEN disturbed[v] \cup IF CutOffStep(w) THEN {"fetch"} ELSE {}
              ELSE IF Running(v) THEN disturbed[v] \cup {"mirror"} ELSE disturbed[v]]
         /\ \A v \in Workers : v # w => pull'[v] = pull[v]
         /\ pull'[w].pc = IF IsLast(w) THEN Ended ELSE "fetch"
         /\ pull'[w].page = pull[w].page + 1
         /\ \A id \in Ids : pull'[w].rows[id] = None
         /\ pull'[w].seen = pull[w].seen \cup Held(w)
         /\ pull'[w].started = pull[w].started /\ pull'[w].since = pull[w].since
         /\ pull'[w].max # None =>
              \/ pull'[w].max = pull[w].max
              \/ \E id \in Held(w) : pull'[w].max = pull[w].rows[id].upd
         /\ pull[w].max # None => pull'[w].max # None /\ pull'[w].max >= pull[w].max
         /\ \A id \in Held(w) : pull'[w].max # None /\ pull'[w].max >= pull[w].rows[id].upd
  <1> DEFINE p == pull[w]
             stamps == {p.rows[id].upd : id \in Held(w)} \cup ({p.max} \ {None})
             last == p.page >= MaxPages \/ order = None
             pc == IF last THEN Ended ELSE "fetch"
  <1>1. PICK max \in IF stamps = {} THEN {None} ELSE Newest(stamps) :
          Set(w, [p EXCEPT !.pc = pc, !.page = @ + 1, !.rows = NoRows, !.max = max,
                           !.seen = @ \cup Held(w)])
    BY DEF Upsert
  <1>2. /\ pull'[w] = [p EXCEPT !.pc = pc, !.page = @ + 1, !.rows = NoRows, !.max = max,
                                !.seen = @ \cup Held(w)]
        /\ \A v \in Workers : v # w => pull'[v] = pull[v]
    BY <1>1, SetEffect
  <1>3. /\ pull'[w].pc = pc /\ pull'[w].page = p.page + 1 /\ pull'[w].rows = NoRows
        /\ pull'[w].max = max /\ pull'[w].started = p.started /\ pull'[w].since = p.since
        /\ pull'[w].seen = p.seen \cup Held(w)
    BY <1>2 DEF TypeOK, Pull
  <1>4. max # None => max \in stamps
    BY <1>1 DEF Newest
  <1>5. /\ UNCHANGED <<mode, now, xero, order, watermark>>
        /\ p.pc = "upsert" /\ Running(w) /\ mirror' = Mirrored(w)
    BY DEF Upsert, xeroVars, stateVars, Running
  <1>6. /\ causes' = causes \cup IF CutOffStep(w) THEN {"page_cap"} ELSE {}
        /\ disturbed' = [v \in Workers |->
             IF v = w THEN disturbed[v] \cup IF CutOffStep(w) THEN {"fetch"} ELSE {}
             ELSE IF Running(v) THEN disturbed[v] \cup {"mirror"} ELSE disturbed[v]]
    BY DEF Upsert, CutOffStep, IsLast
  <1>7. \A id \in Ids : pull'[w].rows[id] = None
    BY <1>3 DEF NoRows
  <1>8. pull'[w].max # None =>
          \/ pull'[w].max = p.max
          \/ \E id \in Held(w) : pull'[w].max = p.rows[id].upd
    BY <1>3, <1>4
  <1>9. stamps \subseteq Nat
    <2>1. \A id \in Held(w) : p.rows[id] \in Record
      BY PullFields DEF Held
    <2>2. QED BY <2>1, PullFields DEF Record
  <1>10. ASSUME NEW u \in stamps PROVE pull'[w].max # None /\ pull'[w].max >= u
    <2>1. max \in stamps /\ u <= max
      BY <1>1 DEF Newest
    <2>2. max \in Nat /\ u \in Nat
      BY <1>9, <2>1
    <2>3. QED BY <1>3, <2>1, <2>2, NoneAssumption
  <1>11. /\ p.max # None => p.max \in stamps
         /\ \A id \in Held(w) : p.rows[id].upd \in stamps
    OBVIOUS
  <1> HIDE DEF stamps
  <1>12. /\ p.max # None => pull'[w].max # None /\ pull'[w].max >= p.max
         /\ \A id \in Held(w) : pull'[w].max # None /\ pull'[w].max >= p.rows[id].upd
    BY <1>10, <1>11
  <1>13. QED BY <1>2, <1>3, <1>5, <1>6, <1>7, <1>8, <1>12 DEF IsLast

\* What is pending and not on this page comes on a later one, unless cut off.
LEMMA UpsertKeeps ==
  ASSUME TypeOK, NEW w \in Workers, Upsert(w), ~CutOffStep(w),
         NEW id \in Ids, xero[id] # None, pull[w].rows[id] = None, Pending(w, id)
  PROVE  Pending(w, id)'
  <1>1. id \in List(w)
    BY PendingIsListed
  <1>2. /\ Rank(order, id, List(w)) \in Nat /\ Length(order, List(w)) \in Nat
        /\ Rank(order, id, List(w)) <= Length(order, List(w))
    BY <1>1, MatchingType, RankInList, OrderType, ListIsFinite DEF List
  <1>3. Rank(order, id, List(w)) > pull[w].page
    BY UpsertEffect DEF Pending
  <1>4. Rank(order, id, List(w)) >= pull[w].page + 1
    BY <1>2, <1>3, PullFields
  <1>5. ~IsLast(w)
    <2>1. ~PastEnd(List(w), pull[w].page + 1)
      BY <1>2, <1>4, PullFields DEF PastEnd
    <2>2. QED BY <2>1 DEF CutOffStep
  <1>6. List(w)' = List(w)
    BY UpsertEffect DEF List, Matching
  <1>7. Rank(order, id, List(w))' >= pull'[w].page
    <2>1. order' = order /\ pull'[w].page = pull[w].page + 1
      BY UpsertEffect
    <2>2. QED BY <1>4, <1>6, <2>1 DEF Rank
  <1>8. pull'[w].pc = "fetch"
    BY <1>5, UpsertEffect
  <1>9. QED BY <1>7, <1>8, UpsertEffect DEF Pending

LEMMA UpsertStep ==
  ASSUME TypeOK, TypeOK', HoleInv, NEW w \in Workers, Upsert(w)
  PROVE  HoleInv'
  <1> DEFINE p == pull[w]
  <1> USE DEF HoleInv
  <1>0. /\ UNCHANGED <<mode, now, xero, order, watermark>>
        /\ p.pc = "upsert" /\ Running(w)
        /\ mirror' = Mirrored(w)
    BY UpsertEffect
  <1>2. \A v \in Workers : v # w => pull'[v] = pull[v]
    BY UpsertEffect
  <1>3. /\ \A id \in Ids : pull'[w].rows[id] = None
        /\ pull'[w].started = p.started
        /\ pull'[w].pc = IF IsLast(w) THEN Ended ELSE "fetch"
    BY UpsertEffect
  <1>4. causes \subseteq causes' /\ (causes' = {} => ~CutOffStep(w))
    BY UpsertEffect
  <1>5. pull'[w].max # None => pull'[w].max <= now
    BY UpsertEffect DEF Timely, Held
  <1>6. \A v \in Workers : Running(v)' => Running(v) /\ pull'[v].started = pull[v].started
    BY <1>0, <1>2, <1>3 DEF Running
  <1>7. \A v \in Workers, id \in Ids : pull'[v].rows[id] \in {None, pull[v].rows[id]}
    BY <1>2, <1>3
  <1>8. Timely'
    <2>1. ASSUME NEW v \in Workers
          PROVE  /\ \A id \in Ids : pull'[v].rows[id] # None => pull'[v].rows[id].upd <= now'
                 /\ pull'[v].max # None => pull'[v].max <= now'
                 /\ Running(v)' => /\ pull'[v].started <= now'
                                   /\ "slow_pull" \notin causes' =>
                                        now' <= pull'[v].started + MaxPull
      <3>1. \A id \in Ids : pull'[v].rows[id] # None => pull'[v].rows[id].upd <= now'
        BY <1>0, <1>7 DEF Timely
      <3>2. pull'[v].max # None => pull'[v].max <= now'
        BY <1>0, <1>2, <1>3, <1>5 DEF Timely
      <3>3. Running(v)' => /\ pull'[v].started <= now'
                           /\ "slow_pull" \notin causes' => now' <= pull'[v].started + MaxPull
        BY <1>0, <1>4, <1>6 DEF Timely
      <3>4. QED BY <3>1, <3>2, <3>3
    <2>2. QED BY <1>0, <2>1 DEF Timely
  <1>9. ModesApart'
    <2>1. ASSUME mode = "incremental", NEW id \in Ids, xero[id] = None
          PROVE  mirror'[id] = None /\ \A v \in Workers : pull'[v].rows[id] = None
      BY <1>0, <1>7, <2>1 DEF ModesApart, Mirrored, Merge
    <2>2. QED BY <1>0, <2>1 DEF ModesApart
  <1>10. HeldRowsAreRecent'
    <2>1. ASSUME mode = "incremental", NEW v \in Workers, NEW id \in Ids,
                 Running(v)', pull'[v].rows[id] # None
          PROVE  pull'[v].rows[id] = xero[id] \/ xero[id].upd >= pull'[v].started
      BY <1>6, <1>7, <2>1 DEF HeldRowsAreRecent
    <2>2. QED BY <1>0, <2>1 DEF HeldRowsAreRecent
  \* What the upsert leaves or makes wrong: changed since this pull began, or
  \* wrong before and not in hand.
  <1>11. ASSUME mode = "incremental", NEW id \in Ids, mirror'[id] # xero[id]
         PROVE  \/ xero[id].upd >= p.started
                \/ p.rows[id] = None /\ mirror[id] # xero[id]
    <2>1. mirror'[id] = IF p.rows[id] # None THEN p.rows[id] ELSE mirror[id]
      BY <1>0 DEF Mirrored, Merge
    <2>2. CASE p.rows[id] # None
      BY <1>0, <1>11, <2>1, <2>2 DEF HeldRowsAreRecent
    <2>3. CASE p.rows[id] = None
      BY <1>11, <2>1, <2>3
    <2>4. QED BY <2>2, <2>3
  <1>12. ASSUME mode = "incremental", NEW id \in Ids, mirror'[id] # xero[id]
         PROVE  xero[id] # None /\ xero[id].upd \in Nat
    BY <1>0, <1>9, <1>12 DEF ModesApart, TypeOK, Record
  <1>13. PullsRepair'
    <2> SUFFICES ASSUME causes' = {}, mode = "incremental", NEW v \in Workers, NEW id \in Ids,
                        Running(v)', mirror'[id] # xero[id]
                 PROVE  Pending(v, id)' \/ xero[id].upd >= pull'[v].started - MaxPull
      BY <1>0 DEF PullsRepair
    <2>1. causes = {}
      BY <1>4
    <2>2. CASE xero[id].upd >= p.started
      <3>1. now <= p.started + MaxPull
        BY <1>0, <2>1 DEF Timely
      <3>2. pull[v].started <= now
        BY <1>6 DEF Timely
      <3>3. xero[id].upd >= pull[v].started - MaxPull
        BY <1>12, <2>2, <3>1, <3>2, PullFields, BoundAssumption DEF TypeOK
      <3>4. QED BY <1>6, <3>3
    <2>3. CASE p.rows[id] = None /\ mirror[id] # xero[id]
      <3>1. Pending(v, id) \/ xero[id].upd >= pull[v].started - MaxPull
        BY <1>6, <2>1, <2>3 DEF PullsRepair
      <3>2. CASE xero[id].upd >= pull[v].started - MaxPull
        BY <1>6, <3>2
      <3>3. CASE Pending(v, id) /\ v # w
        <4>1. pull'[v] = pull[v] /\ Matching(None)' = Matching(None) /\ List(v)' = List(v)
          BY <1>0, <1>2, <3>3 DEF List, Matching
        <4>2. QED BY <1>0, <3>3, <4>1 DEF Pending, Rank
      <3>4. CASE Pending(w, id) /\ v = w
        BY <1>4, <1>12, <2>3, <3>4, UpsertKeeps
      <3>5. QED BY <3>1, <3>2, <3>3, <3>4
    <2>4. QED BY <1>11, <2>2, <2>3
  <1>14. HolesHaveACause'
    <2> SUFFICES ASSUME causes' = {}, NEW id \in Ids, Hole(id)'
                 PROVE  FALSE
      BY DEF HolesHaveACause, WatermarkCoversMirror
    <2>1. causes = {} /\ watermark # None /\ xero[id] # None /\ mirror'[id] # xero[id]
          /\ xero[id].upd <= watermark - Overlap
      BY <1>0, <1>4 DEF Hole
    <2>2. mode = "incremental"
      BY <2>1, ModesAssumption DEF ModesApart, TypeOK
    <2>3. CASE xero[id].upd >= p.started
      <3>1. now <= p.started + MaxPull /\ watermark <= now
        BY <1>0, <2>1 DEF Timely
      <3>2. watermark \in Nat /\ now \in Nat /\ xero[id].upd \in Nat /\ p.started \in Nat
        BY <1>12, <2>1, <2>2, PullFields DEF TypeOK
      <3>3. QED
        BY <2>1, <2>3, <3>1, <3>2, BoundAssumption, OverlapAssumption
    <2>4. CASE mirror[id] # xero[id]
      BY <2>1, <2>4 DEF HolesHaveACause, WatermarkCoversMirror, Hole
    <2>5. QED BY <1>11, <2>1, <2>2, <2>3, <2>4
  <1>15. QED BY <1>8, <1>9, <1>10, <1>13, <1>14

LEMMA PruneStep ==
  ASSUME TypeOK, TypeOK', HoleInv, NEW w \in Workers, Prune(w)
  PROVE  HoleInv'
  <1> USE DEF HoleInv
  <1>0. UNCHANGED <<mode, now, xero, order, watermark, causes>> /\ mode = "full"
    BY DEF Prune, xeroVars, stateVars
  <1>1. /\ pull'[w] = [pull[w] EXCEPT !.pc = "finish"]
        /\ \A v \in Workers : v # w => pull'[v] = pull[v]
    BY SetEffect DEF Prune
  <1>2. \A v \in Workers :
          /\ pull'[v].rows = pull[v].rows /\ pull'[v].max = pull[v].max
          /\ pull'[v].started = pull[v].started
          /\ Running(v)' => Running(v)
    <2>1. Running(w)
      BY DEF Running, Prune
    <2>2. /\ pull'[w].rows = pull[w].rows /\ pull'[w].max = pull[w].max
          /\ pull'[w].started = pull[w].started
      BY <1>1 DEF TypeOK, Pull
    <2>3. \A v \in Workers : v # w => pull'[v] = pull[v] /\ (Running(v)' <=> Running(v))
      BY <1>1 DEF Running
    <2>4. QED BY <2>1, <2>2, <2>3
  <1>3. Timely'
    BY <1>0, <1>2 DEF Timely
  <1>4. mode' # "incremental"
    BY <1>0
  <1>5. ModesApart'
    BY <1>0, <1>4 DEF ModesApart
  <1>6. HeldRowsAreRecent' /\ PullsRepair'
    BY <1>4 DEF HeldRowsAreRecent, PullsRepair
  <1>7. HolesHaveACause'
    BY <1>0 DEF HolesHaveACause, WatermarkCoversMirror, Hole, ModesApart
  <1>8. QED BY <1>3, <1>5, <1>6, <1>7

LEMMA FinishStep ==
  ASSUME TypeOK, TypeOK', HoleInv, NEW w \in Workers, Finish(w)
  PROVE  HoleInv'
  <1> USE DEF HoleInv
  <1>0. /\ UNCHANGED <<mode, now, xero, order, mirror, causes>>
        /\ pull[w].pc = "finish" /\ Running(w)
    BY DEF Finish, xeroVars, Running
  <1>1. pull'[w] = Idle /\ \A v \in Workers : v # w => pull'[v] = pull[v]
    BY SetEffect DEF Finish, Leave
  <1>2. \A v \in Workers : Running(v)' => v # w
    BY <1>1 DEF Running, Idle
  <1>3. pull'[w].max = None /\ \A id \in Ids : pull'[w].rows[id] = None
    BY <1>1 DEF Idle, NoRows
  <1>4. watermark' = watermark \/ (mode = "incremental" /\ watermark' = pull[w].max)
    BY DEF Finish
  <1>5. \A v \in Workers : v # w => (Running(v)' <=> Running(v))
    BY <1>1 DEF Running
  <1>6. Timely'
    <2>1. watermark' # None => watermark' <= now
      BY <1>4 DEF Timely
    <2>2. ASSUME NEW v \in Workers
          PROVE  /\ \A id \in Ids : pull'[v].rows[id] # None => pull'[v].rows[id].upd <= now'
                 /\ pull'[v].max # None => pull'[v].max <= now'
                 /\ Running(v)' => /\ pull'[v].started <= now'
                                   /\ "slow_pull" \notin causes' =>
                                        now' <= pull'[v].started + MaxPull
      <3>1. CASE v = w
        BY <1>2, <1>3, <3>1
      <3>2. CASE v # w
        BY <1>0, <1>1, <1>5, <3>2 DEF Timely
      <3>3. QED BY <3>1, <3>2
    <2>3. QED BY <1>0, <2>1, <2>2 DEF Timely
  <1>7. ModesApart'
    <2>1. mode = "full" => watermark' = None
      BY <1>4 DEF ModesApart
    <2>2. ASSUME mode = "incremental", NEW id \in Ids, xero[id] = None
          PROVE  mirror[id] = None /\ \A v \in Workers : pull'[v].rows[id] = None
      <3>1. \A v \in Workers : pull[v].rows[id] = None
        BY <2>2 DEF ModesApart
      <3>2. QED BY <1>1, <1>3, <2>2, <3>1 DEF ModesApart
    <2>3. QED BY <1>0, <2>1, <2>2 DEF ModesApart
  <1>8. HeldRowsAreRecent'
    BY <1>0, <1>1, <1>2, <1>5 DEF HeldRowsAreRecent
  <1>9. PullsRepair'
    <2> SUFFICES ASSUME causes = {}, mode = "incremental", NEW v \in Workers, NEW id \in Ids,
                        Running(v)', mirror[id] # xero[id]
                 PROVE  Pending(v, id)' \/ xero[id].upd >= pull'[v].started - MaxPull
      BY <1>0 DEF PullsRepair
    <2>1. pull'[v] = pull[v] /\ Running(v)
      BY <1>1, <1>2, <1>5
    <2>2. Pending(v, id) \/ xero[id].upd >= pull[v].started - MaxPull
      BY <2>1 DEF PullsRepair
    <2>3. Matching(None)' = Matching(None) /\ List(v)' = List(v)
      BY <1>0, <2>1 DEF List, Matching
    <2>4. Pending(v, id) => Pending(v, id)'
      BY <1>0, <2>1, <2>3 DEF Pending, Rank
    <2>5. QED BY <2>1, <2>2, <2>4
  <1>10. HolesHaveACause'
    <2> SUFFICES ASSUME causes = {}, NEW id \in Ids, Hole(id)'
                 PROVE  FALSE
      BY <1>0 DEF HolesHaveACause, WatermarkCoversMirror
    <2>1. /\ mirror[id] # xero[id] /\ xero[id] # None
          /\ watermark' # None /\ xero[id].upd <= watermark' - Overlap
      BY <1>0 DEF Hole
    <2>2. CASE watermark' = watermark
      BY <2>1, <2>2 DEF HolesHaveACause, WatermarkCoversMirror, Hole
    <2>3. CASE mode = "incremental" /\ watermark' = pull[w].max
      <3>1. ~Pending(w, id)
        BY <1>0 DEF Pending
      <3>2. xero[id].upd >= pull[w].started - MaxPull
        BY <1>0, <2>1, <2>3, <3>1 DEF PullsRepair
      <3>3. now <= pull[w].started + MaxPull /\ watermark' <= now
        BY <1>0, <2>1, <2>3 DEF Timely
      <3>4. watermark' \in Nat /\ now \in Nat /\ pull[w].started \in Nat /\ xero[id].upd \in Nat
        BY <2>1, <2>3, PullFields, WrongIsPresent DEF TypeOK
      <3>5. QED BY <2>1, <3>2, <3>3, <3>4, BoundAssumption, OverlapAssumption
    <2>4. QED BY <1>4, <2>2, <2>3
  <1>11. QED BY <1>6, <1>7, <1>8, <1>9, <1>10

LEMMA TickStep ==
  ASSUME TypeOK, TypeOK', HoleInv, Tick
  PROVE  HoleInv'
  <1> USE DEF HoleInv
  <1>0. /\ UNCHANGED <<mode, xero, order, mirror, watermark, pull>>
        /\ causes \subseteq causes'
    BY DEF Tick, stateVars
  <1>1. now' = now + 1
    BY DEF Tick
  <1>2. \A v \in Workers : Running(v)' <=> Running(v)
    BY <1>0 DEF Running
  <1>3. Timely'
    <2>0. now \in Nat /\ now <= now'
      BY <1>1 DEF TypeOK
    <2>1. \A id \in Ids : xero[id] # None => xero[id].upd <= now'
      <3> SUFFICES ASSUME NEW id \in Ids, xero[id] # None PROVE xero[id].upd <= now'
        OBVIOUS
      <3>1. xero[id].upd \in Nat /\ xero[id].upd <= now
        BY DEF TypeOK, Record, Timely
      <3>2. QED BY <1>1, <2>0, <3>1
    <2>2. watermark # None => watermark <= now'
      <3>1. watermark # None => watermark \in Nat /\ watermark <= now
        BY DEF TypeOK, Timely
      <3>2. QED BY <1>1, <2>0, <3>1
    <2>3. ASSUME NEW v \in Workers
          PROVE  /\ \A id \in Ids : pull[v].rows[id] # None => pull[v].rows[id].upd <= now'
                 /\ pull[v].max # None => pull[v].max <= now'
                 /\ Running(v) => /\ pull[v].started <= now'
                                  /\ "slow_pull" \notin causes' =>
                                       now' <= pull[v].started + MaxPull
      <3>1. ASSUME NEW id \in Ids, pull[v].rows[id] # None PROVE pull[v].rows[id].upd <= now'
        <4>1. pull[v].rows[id] \in Record
          BY <3>1, PullFields
        <4>2. pull[v].rows[id].upd \in Nat /\ pull[v].rows[id].upd <= now
          BY <3>1, <4>1 DEF Record, Timely
        <4>3. QED BY <1>1, <2>0, <4>2
      <3>2. pull[v].max # None => pull[v].max <= now'
        <4>1. pull[v].max # None => pull[v].max \in Nat /\ pull[v].max <= now
          BY PullFields DEF Timely
        <4>2. QED BY <1>1, <2>0, <4>1
      <3>3. ASSUME Running(v)
            PROVE  /\ pull[v].started <= now'
                   /\ "slow_pull" \notin causes' => now' <= pull[v].started + MaxPull
        <4>1. pull[v].started \in Nat /\ pull[v].started <= now
          BY <3>3, PullFields DEF Timely
        <4>2. now' > pull[v].started + MaxPull => "slow_pull" \in causes'
          BY <3>3 DEF Tick
        <4>3. MaxPull \in Nat /\ now' \in Nat
          BY BoundAssumption DEF TypeOK
        <4>4. pull[v].started + MaxPull \in Nat
          BY <4>1, <4>3
        <4>5. \A a, b \in Nat : ~(a > b) => a <= b
          OBVIOUS
        <4>6. "slow_pull" \notin causes' => now' <= pull[v].started + MaxPull
          BY <4>2, <4>3, <4>4, <4>5
        <4>7. pull[v].started <= now'
          BY <1>1, <2>0, <4>1
        <4>8. QED BY <4>6, <4>7
      <3>4. QED BY <3>1, <3>2, <3>3
    <2>4. QED BY <1>0, <1>2, <2>1, <2>2, <2>3 DEF Timely
  <1>4. ModesApart'
    BY <1>0 DEF ModesApart
  <1>5. HeldRowsAreRecent'
    BY <1>0, <1>2 DEF HeldRowsAreRecent
  <1>6. PullsRepair'
    <2>1. \A v \in Workers, id \in Ids : Pending(v, id) => Pending(v, id)'
      BY <1>0 DEF Pending, List, Matching, Rank
    <2>2. causes' = {} => causes = {}
      BY <1>0
    <2>3. QED BY <1>0, <1>2, <2>1, <2>2 DEF PullsRepair
  <1>7. HolesHaveACause'
    BY <1>0 DEF HolesHaveACause, WatermarkCoversMirror, Hole
  <1>8. QED BY <1>3, <1>4, <1>5, <1>6, <1>7

(* A change in Xero stamps the record with the current time: it is younger *)
(* than every pull and every watermark, and only adds to the lists.        *)
LEMMA EditStep ==
  ASSUME TypeOK, TypeOK', HoleInv, NEW id \in Ids, NEW active \in BOOLEAN, Edit(id, active)
  PROVE  HoleInv'
  <1> USE DEF HoleInv
  <1> DEFINE new == [upd |-> now, rev |-> edits + 1, active |-> active]
  <1>0. /\ UNCHANGED <<mode, now, order, mirror, watermark, pull, causes>>
        /\ xero' = [xero EXCEPT ![id] = new]
    BY DEF Edit, stateVars
  <1>1. /\ xero'[id] = new /\ new.upd = now /\ new # None
        /\ \A j \in Ids : j # id => xero'[j] = xero[j]
    BY <1>0, NoneAssumption DEF TypeOK, Record
  <1>2. \A v \in Workers : Running(v)' <=> Running(v)
    BY <1>0 DEF Running
  <1>3. now \in Nat /\ now <= now
    BY DEF TypeOK
  <1>4. Timely'
    <2>1. \A j \in Ids : xero'[j] # None => xero'[j].upd <= now
      BY <1>1, <1>3 DEF Timely
    <2>2. QED BY <1>0, <1>2, <2>1 DEF Timely
  <1>5. ModesApart'
    BY <1>0, <1>1 DEF ModesApart
  <1>6. HeldRowsAreRecent'
    <2> SUFFICES ASSUME mode = "incremental", NEW v \in Workers, NEW j \in Ids,
                        Running(v), pull[v].rows[j] # None
                 PROVE  pull[v].rows[j] = xero'[j] \/ xero'[j].upd >= pull[v].started
      BY <1>0, <1>2 DEF HeldRowsAreRecent
    <2>1. CASE j = id
      <3>1. pull[v].started <= now /\ pull[v].started \in Nat
        BY PullFields DEF Timely
      <3>2. QED BY <1>1, <1>3, <2>1, <3>1
    <2>2. CASE j # id
      BY <1>1, <2>2 DEF HeldRowsAreRecent
    <2>3. QED BY <2>1, <2>2
  <1>7. PullsRepair'
    <2> SUFFICES ASSUME causes = {}, mode = "incremental", NEW v \in Workers, NEW j \in Ids,
                        Running(v), mirror[j] # xero'[j]
                 PROVE  Pending(v, j)' \/ xero'[j].upd >= pull[v].started - MaxPull
      BY <1>0, <1>2 DEF PullsRepair
    <2>1. CASE j = id
      <3>1. pull[v].started <= now /\ pull[v].started \in Nat
        BY PullFields DEF Timely
      <3>2. QED BY <1>1, <1>3, <2>1, <3>1, BoundAssumption
    <2>2. CASE j # id
      <3>1. Pending(v, j) \/ xero[j].upd >= pull[v].started - MaxPull
        BY <1>1, <2>2 DEF PullsRepair
      <3>2. ASSUME Pending(v, j) PROVE Pending(v, j)'
        <4>1. xero[j] # None
          BY <1>1, <2>2, WrongIsPresent
        <4>2. List(v) \subseteq List(v)'
          <5> SUFFICES ASSUME NEW k \in List(v) PROVE k \in List(v)'
            OBVIOUS
          <5>1. CASE k # id
            BY <1>0, <1>1, <5>1 DEF List, Matching
          <5>2. CASE k = id
            <6>1. xero[id] # None /\ (pull[v].since = None \/ xero[id].upd > pull[v].since)
              BY <5>2 DEF List, Matching
            <6>2. xero[id].upd <= now /\ xero[id].upd \in Nat
              BY <6>1 DEF Timely, TypeOK, Record
            <6>3. pull[v].since = None \/ now > pull[v].since
              BY <1>3, <6>1, <6>2, PullFields
            <6>4. QED BY <1>0, <1>1, <5>2, <6>3 DEF List, Matching
          <5>3. QED BY <5>1, <5>2
        <4>3. Matching(None) \subseteq Matching(None)'
          BY <1>1 DEF Matching
        <4>4. j \in List(v) /\ j \in Matching(None)
          BY <3>2, <4>1, PendingIsListed DEF Matching
        <4>5. /\ List(v) \in SUBSET Ids /\ List(v)' \in SUBSET Ids
              /\ Matching(None) \in SUBSET Ids /\ Matching(None)' \in SUBSET Ids
          BY DEF List, Matching
        <4>6. /\ Rank(order, j, List(v)) <= Rank(order, j, List(v)')
              /\ Rank(order, j, List(v)) \in Nat /\ Rank(order, j, List(v)') \in Nat
          BY <4>2, <4>4, <4>5, RankGrows, RankInList, OrderType
        <4>7. /\ Rank(order, j, Matching(None)) <= Rank(order, j, Matching(None)')
              /\ Rank(order, j, Matching(None)) \in Nat /\ Rank(order, j, Matching(None)') \in Nat
          BY <4>3, <4>4, <4>5, RankGrows, RankInList, OrderType
        <4>8. /\ Rank(order, j, List(v))' = Rank(order, j, List(v)')
              /\ Rank(order, j, Matching(None))' = Rank(order, j, Matching(None)')
          BY <1>0 DEF Rank
        <4>9. /\ Rank(order, j, List(v)) >= pull[v].page => Rank(order, j, List(v))' >= pull[v].page
              /\ Rank(order, j, List(v)) > pull[v].page => Rank(order, j, List(v))' > pull[v].page
          BY <4>6, <4>8, PullFields
        <4>10. Rank(order, j, Matching(None)) >= pull[v].proxy =>
                 Rank(order, j, Matching(None))' >= pull[v].proxy
          BY <4>7, <4>8, PullFields
        <4>11. QED BY <1>0, <1>1, <2>2, <3>2, <4>9, <4>10 DEF Pending
      <3>3. QED BY <1>1, <2>2, <3>1, <3>2
    <2>3. QED BY <2>1, <2>2
  <1>8. HolesHaveACause'
    <2> SUFFICES ASSUME causes = {}, NEW j \in Ids, Hole(j)'
                 PROVE  FALSE
      BY <1>0 DEF HolesHaveACause, WatermarkCoversMirror
    <2>1. /\ mirror[j] # xero'[j] /\ xero'[j] # None
          /\ watermark # None /\ xero'[j].upd <= watermark - Overlap
      BY <1>0 DEF Hole
    <2>2. CASE j = id
      <3>1. watermark \in Nat /\ watermark <= now
        BY <2>1 DEF TypeOK, Timely
      <3>2. QED
        BY <1>1, <1>3, <2>1, <2>2, <3>1, BoundAssumption, OverlapAssumption
    <2>3. CASE j # id
      BY <1>1, <2>1, <2>3 DEF HolesHaveACause, WatermarkCoversMirror, Hole
    <2>4. QED BY <2>2, <2>3
  <1>9. QED BY <1>4, <1>5, <1>6, <1>7, <1>8

LEMMA DeleteStep ==
  ASSUME TypeOK, TypeOK', HoleInv, NEW id \in Ids, Delete(id)
  PROVE  HoleInv'
  <1> USE DEF HoleInv
  <1>0. /\ UNCHANGED <<mode, now, order, mirror, watermark, pull, causes>>
        /\ xero' = [xero EXCEPT ![id] = None] /\ mode = "full"
    BY DEF Delete, stateVars
  <1>1. \A j \in Ids : xero'[j] \in {None, xero[j]}
    BY <1>0 DEF TypeOK
  <1>2. \A v \in Workers : Running(v)' <=> Running(v)
    BY <1>0 DEF Running
  <1>3. Timely'
    <2>1. \A j \in Ids : xero'[j] # None => xero'[j].upd <= now
      BY <1>1 DEF Timely
    <2>2. QED BY <1>0, <1>2, <2>1 DEF Timely
  <1>4. ModesApart' /\ HeldRowsAreRecent' /\ PullsRepair'
    BY <1>0 DEF ModesApart, HeldRowsAreRecent, PullsRepair
  <1>5. HolesHaveACause'
    BY <1>0 DEF HolesHaveACause, WatermarkCoversMirror, Hole, ModesApart
  <1>6. QED BY <1>3, <1>4, <1>5

\* Only a pull that runs minds the order.
LEMMA ReorderStep ==
  ASSUME TypeOK, TypeOK', HoleInv, Reorder
  PROVE  HoleInv'
  <1> USE DEF HoleInv
  <1>0. UNCHANGED <<mode, now, xero, mirror, watermark, pull>> /\ causes \subseteq causes'
    BY DEF Reorder, stateVars
  <1>1. \A v \in Workers : Running(v)' <=> Running(v)
    BY <1>0 DEF Running
  <1>2. Timely'
    BY <1>0, <1>1 DEF Timely
  <1>3. ModesApart' /\ HeldRowsAreRecent'
    BY <1>0, <1>1 DEF ModesApart, HeldRowsAreRecent
  <1>4. PullsRepair'
    <2>1. causes' = {} => \A v \in Workers : ~Running(v)
      BY DEF Reorder
    <2>2. QED BY <1>1, <2>1 DEF PullsRepair
  <1>5. HolesHaveACause'
    BY <1>0 DEF HolesHaveACause, WatermarkCoversMirror, Hole
  <1>6. QED BY <1>2, <1>3, <1>4, <1>5

LEMMA InitHoleInv == Init => HoleInv
  <1> SUFFICES ASSUME Init PROVE HoleInv
    OBVIOUS
  <1>1. \A v \in Workers : pull[v] = Idle /\ ~Running(v)
    BY DEF Init, Running, Idle
  <1>2. \A v \in Workers : pull[v].max = None /\ \A id \in Ids : pull[v].rows[id] = None
    BY <1>1 DEF Idle, NoRows
  <1>3. \A id \in Ids : xero[id] # None => xero[id].upd = 1
    BY DEF Init
  <1>4. now = 1 /\ watermark \in {None, 1} /\ (mirror = NoRows \/ mirror = xero)
    BY DEF Init
  <1>5. Timely
    <2>1. \A id \in Ids : xero[id] # None => xero[id].upd <= now
      BY <1>3, <1>4
    <2>2. watermark # None => watermark <= now
      BY <1>4
    <2>3. \A v \in Workers :
            /\ \A id \in Ids : pull[v].rows[id] # None => pull[v].rows[id].upd <= now
            /\ pull[v].max # None => pull[v].max <= now
      BY <1>2
    <2>4. QED BY <1>1, <2>1, <2>2, <2>3 DEF Timely
  <1>6. ModesApart
    <2>1. mode = "full" => watermark = None
      BY DEF Init
    <2>2. \A id \in Ids : xero[id] = None => mirror[id] = None
      BY <1>4 DEF NoRows
    <2>3. \A v \in Workers, id \in Ids : pull[v].rows[id] = None
      BY <1>2
    <2>4. QED BY <2>1, <2>2, <2>3 DEF ModesApart
  <1>7. HeldRowsAreRecent /\ PullsRepair
    BY <1>1 DEF HeldRowsAreRecent, PullsRepair
  <1>8. HolesHaveACause
    BY DEF Init, HolesHaveACause, WatermarkCoversMirror, Hole
  <1>9. QED BY <1>5, <1>6, <1>7, <1>8 DEF HoleInv

LEMMA NextHoleInv == TypeOK /\ TypeOK' /\ HoleInv /\ [Next]_vars => HoleInv'
  <1> SUFFICES ASSUME TypeOK, TypeOK', HoleInv, [Next]_vars PROVE HoleInv'
    OBVIOUS
  <1>1. CASE Tick
    BY <1>1, TickStep
  <1>2. ASSUME NEW id \in Ids, NEW active \in BOOLEAN, Edit(id, active) \/ Delete(id) PROVE HoleInv'
    BY <1>2, EditStep, DeleteStep
  <1>3. ASSUME NEW w \in Workers, Step(w) PROVE HoleInv'
    <2>1. ASSUME NEW forced \in BOOLEAN, LoadState(w, forced) PROVE HoleInv'
      BY <2>1, LoadStateStep
    <2>2. CASE CreateState(w)
      BY <2>2, CreateStateStep
    <2>3. CASE FetchPage(w)
      BY <2>3, FetchPageStep
    <2>4. CASE FetchEmpty(w)
      BY <2>4, FetchEmptyStep
    <2>5. CASE FetchFails(w)
      BY <2>5, FetchFailsStep
    <2>6. CASE ProxyPage(w)
      BY <2>6, ProxyPageStep
    <2>7. CASE ProxyEmpty(w)
      BY <2>7, ProxyEmptyStep
    <2>8. CASE ProxyFails(w)
      BY <2>8, ProxyFailsStep
    <2>9. CASE Upsert(w)
      BY <2>9, UpsertStep
    <2>10. CASE Prune(w)
      BY <2>10, PruneStep
    <2>11. CASE Finish(w)
      BY <2>11, FinishStep
    <2>12. CASE PullRaises(w)
      BY <2>12, LeaveStep DEF PullRaises, xeroVars
    <2>13. CASE Crash(w)
      BY <2>13, LeaveStep DEF Crash, xeroVars, stateVars
    <2>14. CASE ProxyAll(w)
      BY <2>14, ProxyAllStep
    <2>15. QED
      BY <1>3, <2>1, <2>2, <2>3, <2>4, <2>5, <2>6, <2>7, <2>8, <2>9, <2>10, <2>11, <2>12, <2>13,
         <2>14
      DEF Step
  <1>4. CASE UNCHANGED vars
    <2>0. UNCHANGED <<mode, now, xero, order, mirror, watermark, pull, causes>>
      BY <1>4 DEF vars
    <2>1. \A w \in Workers : Running(w)' <=> Running(w)
      BY <2>0 DEF Running
    <2>2. \A w \in Workers, id \in Ids : Pending(w, id)' <=> Pending(w, id)
      BY <2>0 DEF Pending, List, Matching, Rank
    <2>3. Timely' /\ ModesApart' /\ HeldRowsAreRecent'
      <3>1. Timely'
        BY <2>0, <2>1 DEF HoleInv, Timely
      <3>2. ModesApart'
        BY <2>0 DEF HoleInv, ModesApart
      <3>3. HeldRowsAreRecent'
        BY <2>0, <2>1 DEF HoleInv, HeldRowsAreRecent
      <3>4. QED BY <3>1, <3>2, <3>3
    <2>4. PullsRepair'
      BY <2>0, <2>1, <2>2 DEF HoleInv, PullsRepair
    <2>5. HolesHaveACause'
      BY <2>0 DEF HoleInv, HolesHaveACause, WatermarkCoversMirror, Hole
    <2>6. QED BY <2>3, <2>4, <2>5 DEF HoleInv
  <1>5. CASE Reorder
    BY <1>5, ReorderStep
  <1>6. QED BY <1>1, <1>2, <1>3, <1>4, <1>5 DEF Next

(* Whatever pulls overlap, crash, raise or write older rows over newer     *)
(* ones, a record that the mirror has wrong is asked for again, until a    *)
(* failed page, a page cap, a slow pull, another order of the list during  *)
(* a pull or an inactive record that the proxy left out: HoleInv is        *)
(* inductive.                                                              *)
THEOREM HolesTheorem == Spec => []HolesHaveACause
  <1>1. Init => TypeOK /\ HoleInv
    BY InitType, InitHoleInv
  <1>2. TypeOK /\ HoleInv /\ [Next]_vars => (TypeOK /\ HoleInv)'
    BY NextType, NextHoleInv
  <1>3. TypeOK /\ HoleInv => HolesHaveACause
    BY DEF HoleInv
  <1>4. QED BY <1>1, <1>2, <1>3, PTL DEF Spec

-----------------------------------------------------------------------------
(* A pull that nothing disturbed.                                          *)

\* QuietInv for one pull.
QuietAt(w) ==
  /\ AsksForAll(w)
  /\ Quiet(w) => RowsAreCurrent(w) /\ Repairs(w) /\ (mode = "full" => SeesAll(w))

LEMMA NotRunning ==
  ASSUME NEW w, ~Running(w)
  PROVE  QuietAt(w)
  BY DEF QuietAt, AsksForAll, Quiet

\* What others do leaves a pull as it is, or disturbs it.
LEMMA OthersStep ==
  ASSUME NEW w \in Workers, QuietAt(w), pull'[w] = pull[w], mode' = mode,
         causes \subseteq causes', disturbed[w] \subseteq disturbed'[w],
         UNCHANGED <<xero, order, mirror>> \/ (Running(w) => disturbed'[w] # {})
  PROVE  QuietAt(w)'
  <1>1. Running(w)' <=> Running(w)
    BY DEF Running
  <1>2. AsksForAll(w)'
    BY <1>1 DEF QuietAt, AsksForAll
  <1>3. ASSUME Quiet(w)'
        PROVE  RowsAreCurrent(w)' /\ Repairs(w)' /\ (mode' = "full" => SeesAll(w)')
    <2>1. Quiet(w) /\ UNCHANGED <<xero, order, mirror>>
      BY <1>1, <1>3 DEF Quiet
    <2>2. Matching(None)' = Matching(None) /\ List(w)' = List(w)
      BY <2>1 DEF List, Matching
    <2>3. \A id \in Ids : Pending(w, id) => Pending(w, id)'
      BY <2>1, <2>2 DEF Pending, Rank
    <2>4. RowsAreCurrent(w) /\ Repairs(w) /\ (mode = "full" => SeesAll(w))
      BY <2>1 DEF QuietAt
    <2>5. RowsAreCurrent(w)' /\ Repairs(w)'
      BY <2>1, <2>3, <2>4 DEF RowsAreCurrent, Repairs
    <2>6. mode' = "full" => SeesAll(w)'
      BY <2>1, <2>3, <2>4 DEF SeesAll
    <2>7. QED BY <2>5, <2>6
  <1>4. QED BY <1>2, <1>3 DEF QuietAt

\* A step that writes nothing keeps a pull quiet when nothing pending is lost.
LEMMA QuietStep ==
  ASSUME NEW w \in Workers, QuietAt(w), Running(w),
         UNCHANGED <<mode, xero, order, mirror>>,
         causes \subseteq causes', disturbed[w] \subseteq disturbed'[w],
         pull'[w].since = pull[w].since, pull'[w].seen = pull[w].seen,
         \A id \in Ids : pull'[w].rows[id] \in {None, pull[w].rows[id], xero[id]},
         mode = "full" => pull'[w].pc # "finish",
         pull'[w].pc = "fallback" =>
           pull'[w].page = 1 /\ (mode = "full" => pull'[w].proxy = 1),
         Quiet(w)' => \A id \in Ids : xero[id] # None /\ Pending(w, id) => Pending(w, id)'
  PROVE  QuietAt(w)'
  <1>1. AsksForAll(w)'
    BY DEF QuietAt, AsksForAll
  <1>2. ASSUME Quiet(w)'
        PROVE  RowsAreCurrent(w)' /\ Repairs(w)' /\ (mode' = "full" => SeesAll(w)')
    <2>1. Quiet(w)
      BY <1>2 DEF Quiet
    <2>2. RowsAreCurrent(w) /\ Repairs(w) /\ (mode = "full" => SeesAll(w))
      BY <2>1 DEF QuietAt
    <2>3. RowsAreCurrent(w)' /\ Repairs(w)'
      BY <1>2, <2>2 DEF RowsAreCurrent, Repairs
    <2>4. mode' = "full" => SeesAll(w)'
      BY <1>2, <2>2 DEF SeesAll
    <2>5. QED BY <2>3, <2>4
  <1>3. QED BY <1>1, <1>2 DEF QuietAt

\* A pull that begins asks for all that is wrong, and has neither rows nor seen.
LEMMA QuietBegin ==
  ASSUME TypeOK, NEW w \in Workers, NEW since, NEW loaded, NEW max,
         Begin(w, since, loaded, max),
         UNCHANGED <<mode, xero, order, mirror, causes>>,
         mode = "full" => since = None,
         causes = {} =>
           \A id \in Ids : xero[id] # None /\ mirror[id] # xero[id] =>
             since = None \/ xero[id].upd > since
  PROVE  QuietAt(w)'
  <1>1. pull'[w] = [Idle EXCEPT !.pc = "fetch", !.started = now, !.since = since,
                                !.loaded = loaded, !.max = max]
    BY SetEffect DEF Begin
  <1>2. /\ pull'[w].pc = "fetch" /\ pull'[w].since = since /\ pull'[w].rows = NoRows
        /\ pull'[w].seen = {}
    BY <1>1 DEF Idle
  <1>3. AsksForAll(w)'
    BY <1>2 DEF AsksForAll
  <1>4. ASSUME Quiet(w)'
        PROVE  RowsAreCurrent(w)' /\ Repairs(w)' /\ (mode' = "full" => SeesAll(w)')
    <2>1. since = None \/ causes = {}
      BY <1>2, <1>4 DEF Quiet
    <2>2. RowsAreCurrent(w)'
      BY <1>2 DEF RowsAreCurrent, NoRows
    <2>3. Repairs(w)'
      BY <2>1, BeginAsks DEF Repairs
    <2>4. mode = "full" => SeesAll(w)'
      BY <1>2, BeginAsks DEF SeesAll
    <2>5. QED BY <2>2, <2>3, <2>4
  <1>5. QED BY <1>3, <1>4 DEF QuietAt
LEMMA QuietLoadState ==
  ASSUME TypeOK, HoleInv, NEW w \in Workers, NEW forced \in BOOLEAN, LoadState(w, forced)
  PROVE  QuietAt(w)'
  <1>0. UNCHANGED <<mode, xero, order, mirror, causes>>
    BY DEF LoadState, xeroVars
  <1>1. CASE status = None
    <2>1. pull'[w] = [Idle EXCEPT !.pc = "create"]
      BY <1>1, SetEffect DEF LoadState
    <2>2. ~Running(w)'
      BY <2>1 DEF Running, Idle
    <2>3. QED BY <2>2 DEF QuietAt, AsksForAll, Quiet
  <1>2. CASE status # None /\ watermark # None /\ ~forced
    <2>1. Begin(w, Since(watermark), watermark, watermark)
      BY <1>2 DEF LoadState
    <2>2. mode # "full"
      BY <1>2 DEF HoleInv, ModesApart
    <2>3. ASSUME causes = {}, NEW id \in Ids, xero[id] # None, mirror[id] # xero[id]
          PROVE  xero[id].upd > Since(watermark)
      <3>1. xero[id].upd \in Nat /\ watermark \in Nat
        BY <1>2, <2>3 DEF TypeOK, Record
      <3>2. ~(xero[id].upd <= watermark - Overlap)
        BY <1>2, <2>3 DEF HoleInv, HolesHaveACause, WatermarkCoversMirror, Hole
      <3>3. QED BY <3>1, <3>2, BoundAssumption DEF Since
    <2>4. QED BY <1>0, <2>1, <2>2, <2>3, QuietBegin
  <1>3. CASE status # None /\ ~(watermark # None /\ ~forced)
    <2>1. Begin(w, None, watermark, None)
      BY <1>3 DEF LoadState
    <2>2. QED BY <1>0, <2>1, QuietBegin
  <1>4. QED BY <1>1, <1>2, <1>3

LEMMA QuietCreateState ==
  ASSUME TypeOK, NEW w \in Workers, CreateState(w)
  PROVE  QuietAt(w)'
  <1>1. CASE status = None
    <2>1. Begin(w, None, None, None) /\ UNCHANGED <<mode, xero, order, mirror, causes>>
      BY <1>1 DEF CreateState, xeroVars
    <2>2. QED BY <2>1, QuietBegin
  <1>2. CASE status # None
    <2>1. pull'[w] = Idle
      BY <1>2, SetEffect DEF CreateState
    <2>2. ~Running(w)'
      BY <2>1 DEF Running, Idle
    <2>3. QED BY <2>2 DEF QuietAt, AsksForAll, Quiet
  <1>3. QED BY <1>1, <1>2

(* What fetching does to the pull of w and leaves alone: unless it was      *)
(* disturbed, nothing pending is lost.                                     *)
Fetching(w) ==
  \/ FetchPage(w) \/ FetchEmpty(w) \/ FetchFails(w)
  \/ ProxyPage(w) \/ ProxyAll(w) \/ ProxyEmpty(w) \/ ProxyFails(w)

LosesNothing(w) ==
  \A id \in Ids : xero[id] # None /\ Pending(w, id) => Pending(w, id)'

GoesOn(w) ==
  /\ UNCHANGED <<mode, xero, order, mirror, watermark>>
  /\ Running(w)
  /\ causes \subseteq causes'
  /\ \A v \in Workers : /\ disturbed[v] \subseteq disturbed'[v]
                        /\ v # w => pull'[v] = pull[v]
  /\ pull'[w].since = pull[w].since /\ pull'[w].max = pull[w].max
  /\ pull'[w].seen = pull[w].seen
  /\ \A id \in Ids : pull'[w].rows[id] \in {None, pull[w].rows[id], xero[id]}
  /\ mode = "full" => pull'[w].pc # "finish"
  /\ pull'[w].pc = "fallback" => pull'[w].page = 1 /\ (mode = "full" => pull'[w].proxy = 1)
  /\ disturbed'[w] # {} \/ LosesNothing(w)

LEMMA GiveUpDisturbs ==
  ASSUME TypeOK, NEW w \in Workers, NEW list, NEW n, NEW cause, GiveUp(w, list, n, cause)
  PROVE  /\ causes \subseteq causes'
         /\ disturbed'[w] # {}
         /\ \A v \in Workers : disturbed[v] \subseteq disturbed'[v]
  BY DEF GiveUp, TypeOK

LEMMA PageGoesOn ==
  ASSUME TypeOK, NEW w \in Workers, FetchPage(w)
  PROVE  GoesOn(w)
  <1>1. pull'[w].pc = "upsert"
    BY FetchPageEffect
  <1>2. pull'[w].pc # "finish" /\ pull'[w].pc # "fallback"
    BY <1>1
  <1>3. QED BY <1>2, FetchPageEffect DEF GoesOn, LosesNothing

\* A first page that failed or came back empty loses nothing: the proxy has it.
LEMMA EmptyPageGoesOn ==
  ASSUME TypeOK, NEW w \in Workers, FetchEmpty(w) \/ FetchFails(w)
  PROVE  GoesOn(w)
  <1>1. /\ OnEmptyPage(w) /\ pull[w].pc = "fetch"
        /\ UNCHANGED <<mode, xero, order, mirror, watermark>>
    BY DEF FetchEmpty, FetchFails, xeroVars, stateVars
  <1>2. /\ mode = "full" => pull'[w].pc # "finish"
        /\ pull'[w].pc = "fallback" => pull'[w].page = 1 /\ pull'[w].proxy = 1
    BY <1>1, EmptyPageEffect DEF Ended
  <1>3. CASE /\ UNCHANGED <<causes, disturbed>>
             /\ pull[w].page = 1 \/ PastEnd(List(w), pull[w].page)
    BY <1>1, <1>2, <1>3, EmptyPageEffect DEF GoesOn, LosesNothing
  <1>4. CASE GiveUp(w, List(w), pull[w].page, "failed_page")
    BY <1>1, <1>2, <1>4, EmptyPageEffect, GiveUpDisturbs DEF GoesOn
  <1>5. QED BY <1>3, <1>4 DEF FetchEmpty, FetchFails

\* The rows the proxy loop hands over, when nothing pending is lost or it gave up.
LEMMA ReturnGoesOn ==
  ASSUME TypeOK, NEW w \in Workers, NEW rows, Return(w, rows),
         pull[w].pc = "fallback", UNCHANGED <<mode, xero, order, mirror, watermark>>,
         causes \subseteq causes', \A v \in Workers : disturbed[v] \subseteq disturbed'[v],
         \A id \in Ids : rows[id] \in {None, pull[w].rows[id], xero[id]},
         disturbed'[w] # {} \/ LosesNothing(w)
  PROVE  GoesOn(w)
  <1>1. pull'[w].pc \in {"upsert", "prune", "finish"} /\ (mode = "full" => pull'[w].pc # "finish")
    BY ReturnEffect DEF Ended
  <1>2. QED BY <1>1, ReturnEffect DEF GoesOn

LEMMA ProxyAllGoesOn ==
  ASSUME TypeOK, NEW w \in Workers, ProxyAll(w)
  PROVE  GoesOn(w)
  <1> DEFINE rows == ActiveIn(Matching(None))
  <1>1. /\ UNCHANGED <<mode, xero, order, mirror, watermark>>
        /\ pull[w].pc = "fallback" /\ Return(w, rows)
    BY DEF ProxyAll, xeroVars, stateVars
  <1>2. \A id \in Ids : rows[id] \in {None, pull[w].rows[id], xero[id]}
    BY DEF ActiveIn
  <1>3. /\ causes \subseteq causes' /\ \A v \in Workers : disturbed[v] \subseteq disturbed'[v]
        /\ disturbed'[w] # {} \/ Inactive(List(w)) = {}
    BY DEF ProxyAll, TypeOK
  <1> HIDE DEF rows
  <1>4. ASSUME Inactive(List(w)) = {}, NEW id \in Ids, xero[id] # None, Pending(w, id)
        PROVE  Pending(w, id)'
    <2>1. rows[id] = xero[id]
      BY <1>4, ProxyAllKeeps DEF rows
    <2>2. QED BY <1>1, <1>4, <2>1, ReturnKeeps
  <1>5. disturbed'[w] # {} \/ LosesNothing(w)
    BY <1>3, <1>4 DEF LosesNothing
  <1>6. QED BY <1>1, <1>2, <1>3, <1>5, ReturnGoesOn

\* A set of numbers that is not empty has a first one.
LEMMA HasFirst ==
  ASSUME NEW T \in SUBSET Nat, T # {}
  PROVE  \E i \in T : \A j \in T : i <= j
  <1>1. PICK i \in T : \A j \in T : ~ (<<j, i>> \in OpToRel(<, Nat))
    BY NatLessThanWellFounded, WFMin
  <1>2. \A j \in T : ~ (j < i)
    BY <1>1 DEF OpToRel
  <1>3. QED BY <1>2

\* The first page of a list has a record.
LEMMA FirstPageHolds ==
  ASSUME NEW o \in Orders, NEW list \in SUBSET Ids, list # {}
  PROVE  \E id \in list : Rank(o, id, list) = 1
  <1> DEFINE places == {o[id] : id \in list}
  <1>1. places \in SUBSET Nat /\ places # {}
    BY OrderPlaces
  <1>2. PICK n \in places : \A m \in places : n <= m
    BY <1>1, HasFirst
  <1>3. PICK id \in list : o[id] = n
    BY <1>2
  <1>4. {j \in list : o[j] <= o[id]} = {id}
    <2>1. ASSUME NEW j \in list, o[j] <= o[id] PROVE j = id
      <3>1. o[id] <= o[j] /\ o[j] \in Nat /\ o[id] \in Nat
        BY <1>2, <1>3, OrderPlaces
      <3>2. o[j] = o[id]
        BY <2>1, <3>1
      <3>3. QED BY <3>2 DEF Orders
    <2>2. o[id] <= o[id]
      BY OrderPlaces
    <2>3. QED BY <2>1, <2>2
  <1>5. Cardinality({id}) = 1
    BY FS_Singleton
  <1>6. o # None
    BY OrderPlaces
  <1>7. QED BY <1>4, <1>5, <1>6 DEF Rank

LEMMA ProxyPageGoesOn ==
  ASSUME TypeOK, NEW w \in Workers, AsksForAll(w), ProxyPage(w)
  PROVE  GoesOn(w)
  <1> DEFINE all == Matching(None)
             n == pull[w].proxy
  <1>1. /\ UNCHANGED <<mode, xero, order, mirror, watermark>>
        /\ pull[w].pc = "fallback" /\ Running(w) /\ ~PastEnd(all, n)
    BY DEF ProxyPage, xeroVars, stateVars, Running
  <1>2. \A id \in Ids : Gathered(w)[id] \in {None, pull[w].rows[id], xero[id]}
    BY ProxyGathers
  <1>3. pull[w].page = 1 /\ (mode = "full" => pull[w].since = None /\ n = 1)
    BY <1>1 DEF AsksForAll
  <1>4. CASE mode = "incremental" /\ n < MaxProxyPages
    BY <1>1, <1>2, <1>3, <1>4, ProxyGoesOn DEF GoesOn, LosesNothing
  <1>5. CASE mode = "incremental" /\ ~(n < MaxProxyPages)
    <2>1. Return(w, Gathered(w)) /\ GiveUp(w, all, n + 1, "page_cap")
      BY <1>5 DEF ProxyPage, Gathered
    <2>2. QED BY <1>1, <1>2, <2>1, GiveUpDisturbs, ReturnGoesOn
  <1>6. CASE mode # "incremental"
    <2>1. Return(w, Gathered(w)) /\ UNCHANGED <<causes, disturbed>>
      BY <1>6 DEF ProxyPage, Gathered
    <2>2. mode = "full"
      BY <1>6, ModesAssumption DEF TypeOK
    \* The first page is not empty, so it is upserted.
    <2>3. pull'[w].pc = "upsert"
      <3>1. all \in SUBSET Ids /\ all # {}
        <4>1. all = {} => Length(order, all) = 0
          BY FS_EmptySet DEF Length
        <4>2. all \in SUBSET Ids
          BY DEF Matching
        <4>3. QED BY <1>1, <1>3, <2>2, <4>1, <4>2 DEF PastEnd
      <3>2. PICK id \in all : Rank(order, id, all) = 1
        BY <3>1, FirstPageHolds DEF ProxyPage, TypeOK
      <3>3. id \in Ids /\ xero[id] # None
        BY <3>2 DEF Matching
      <3>4. Rows(all, n)[id] = xero[id]
        BY <1>3, <2>2, <3>2, <3>3 DEF Rows
      <3>5. Gathered(w)[id] # None
        BY <3>3, <3>4 DEF Gathered, Merge
      <3>6. QED BY <1>1, <2>1, <3>3, <3>5, ReturnEffect
    \* What the page does not hold the action serves from page two on.
    <2>4. ASSUME NEW id \in Ids, xero[id] # None, Pending(w, id)
          PROVE  Pending(w, id)'
      <3>1. Gathered(w)[id] = xero[id] \/ Rank(order, id, all) >= 2
        <4>1. pull[w].rows[id] = xero[id] \/ Rank(order, id, all) >= n
          BY <1>1, <2>4 DEF Pending
        <4>2. n + 1 = 2
          BY <1>3, <2>2
        <4>3. QED BY <2>4, <4>1, <4>2, ProxyGathers
      <3>2. /\ pull'[w].rows = Gathered(w) /\ pull'[w].since = None
            /\ pull'[w].page = 1
        BY <1>1, <1>3, <2>1, <2>2, ReturnEffect
      <3>3. List(w)' = all
        BY <1>1, <3>2 DEF List, Matching
      <3>4. Rank(order, id, all) \in Nat
        <4>1. id \in all /\ all \in SUBSET Ids
          BY <2>4 DEF Matching
        <4>2. QED BY <4>1, RankInList, OrderType
      <3>5. Rank(order, id, all) >= 2 => Rank(order, id, List(w))' > pull'[w].page
        BY <1>1, <3>2, <3>3, <3>4 DEF Rank
      <3>6. QED BY <1>1, <2>3, <3>1, <3>2, <3>5 DEF Pending
    <2>5. LosesNothing(w)
      BY <2>4 DEF LosesNothing
    <2>6. QED BY <1>1, <1>2, <2>1, <2>5, ReturnGoesOn
  <1>7. QED BY <1>4, <1>5, <1>6

LEMMA ProxyEmptyGoesOn ==
  ASSUME TypeOK, NEW w \in Workers, ProxyEmpty(w)
  PROVE  GoesOn(w)
  <1>1. /\ UNCHANGED <<mode, xero, order, mirror, watermark, causes, disturbed>>
        /\ pull[w].pc = "fallback" /\ PastEnd(Matching(None), pull[w].proxy)
        /\ Return(w, pull[w].rows)
    BY DEF ProxyEmpty, xeroVars, stateVars
  <1>2. ASSUME NEW id \in Ids, xero[id] # None, Pending(w, id)
        PROVE  Pending(w, id)'
    <2>1. ~(Rank(order, id, Matching(None)) >= pull[w].proxy)
      BY <1>1, <1>2, PullFields, ProxyEnded
    <2>2. pull[w].rows[id] = xero[id]
      BY <1>1, <1>2, <2>1 DEF Pending
    <2>3. QED BY <1>1, <1>2, <2>2, ReturnKeeps
  <1>3. LosesNothing(w)
    BY <1>2 DEF LosesNothing
  <1>4. QED BY <1>1, <1>3, ReturnGoesOn

LEMMA ProxyFailsGoesOn ==
  ASSUME TypeOK, NEW w \in Workers, ProxyFails(w)
  PROVE  GoesOn(w)
  <1>1. UNCHANGED <<mode, xero, order, mirror, watermark>> /\ pull[w].pc = "fallback"
    BY DEF ProxyFails, xeroVars, stateVars
  <1>2. PICK rows \in {pull[w].rows, NoRows}, n \in {pull[w].proxy, 1} :
          Return(w, rows) /\ GiveUp(w, Matching(None), n, "failed_page")
    BY DEF ProxyFails
  <1>3. \A id \in Ids : rows[id] \in {None, pull[w].rows[id], xero[id]}
    BY <1>2 DEF NoRows
  <1>4. QED BY <1>1, <1>2, <1>3, GiveUpDisturbs, ReturnGoesOn

LEMMA FetchingGoesOn ==
  ASSUME TypeOK, NEW w \in Workers, AsksForAll(w), Fetching(w)
  PROVE  GoesOn(w)
  BY PageGoesOn, EmptyPageGoesOn, ProxyPageGoesOn, ProxyAllGoesOn, ProxyEmptyGoesOn, ProxyFailsGoesOn
  DEF Fetching

LEMMA QuietFetching ==
  ASSUME TypeOK, NEW w \in Workers, QuietAt(w), Fetching(w)
  PROVE  QuietAt(w)'
  <1>1. GoesOn(w)
    BY FetchingGoesOn DEF QuietAt
  <1>2. Quiet(w)' => LosesNothing(w)
    BY <1>1 DEF GoesOn, Quiet
  <1>3. QED BY <1>1, <1>2, QuietStep DEF GoesOn, LosesNothing

LEMMA QuietUpsert ==
  ASSUME TypeOK, NEW w \in Workers, QuietAt(w), Upsert(w)
  PROVE  QuietAt(w)'
  <1>1. /\ UNCHANGED <<mode, xero, order>> /\ Running(w) /\ mirror' = Mirrored(w)
        /\ pull'[w].since = pull[w].since
        /\ pull'[w].seen = pull[w].seen \cup Held(w)
        /\ \A id \in Ids : pull'[w].rows[id] = None
        /\ causes \subseteq causes'
    BY UpsertEffect
  <1>2. pull'[w].pc # "fallback" /\ (mode = "full" => pull'[w].pc # "finish")
    BY UpsertEffect DEF Ended
  <1>3. AsksForAll(w)'
    BY <1>1, <1>2 DEF QuietAt, AsksForAll
  <1>4. ASSUME Quiet(w)'
        PROVE  RowsAreCurrent(w)' /\ Repairs(w)' /\ (mode' = "full" => SeesAll(w)')
    <2>1. disturbed'[w] = disturbed[w] \cup IF CutOffStep(w) THEN {"fetch"} ELSE {}
      BY UpsertEffect
    <2>2. Quiet(w) /\ ~CutOffStep(w)
      BY <1>1, <1>4, <2>1 DEF Quiet
    <2>3. RowsAreCurrent(w) /\ Repairs(w) /\ (mode = "full" => SeesAll(w))
      BY <2>2 DEF QuietAt
    <2>4. \A id \in Ids : mirror'[id] = IF pull[w].rows[id] # None THEN pull[w].rows[id]
                                        ELSE mirror[id]
      BY <1>1 DEF Mirrored, Merge
    <2>5. RowsAreCurrent(w)'
      BY <1>1 DEF RowsAreCurrent
    <2>6. Repairs(w)'
      <3> SUFFICES ASSUME NEW id \in Ids, xero[id] # None, mirror'[id] # xero[id]
                   PROVE  Pending(w, id)'
        BY <1>1 DEF Repairs
      <3>1. pull[w].rows[id] = None /\ mirror[id] # xero[id]
        BY <2>3, <2>4 DEF RowsAreCurrent
      <3>2. QED BY <2>2, <2>3, <3>1, UpsertKeeps DEF Repairs
    <2>7. ASSUME mode = "full" PROVE SeesAll(w)'
      <3>1. ASSUME NEW id \in Ids, id \in pull'[w].seen PROVE xero[id] # None
        BY <1>1, <2>3, <2>7, <3>1 DEF SeesAll, Held, RowsAreCurrent
      <3>2. ASSUME NEW id \in Ids, xero[id] # None, id \notin pull'[w].seen
            PROVE  Pending(w, id)'
        <4>1. pull[w].rows[id] = None /\ id \notin pull[w].seen
          BY <1>1, <3>2 DEF Held
        <4>2. QED BY <2>2, <2>3, <2>7, <3>2, <4>1, UpsertKeeps DEF SeesAll
      <3>3. QED BY <1>1, <1>2, <2>7, <3>1, <3>2 DEF SeesAll
    <2>8. QED BY <1>1, <2>5, <2>6, <2>7
  <1>5. QED BY <1>3, <1>4 DEF QuietAt

\* A quiet pull that prunes has seen every record, and has every one right.
LEMMA QuietPrune ==
  ASSUME TypeOK, NEW w \in Workers, QuietAt(w), Prune(w)
  PROVE  QuietAt(w)'
  <1>1. /\ UNCHANGED <<mode, xero, order, causes>> /\ mode = "full"
        /\ pull[w].pc = "prune" /\ Running(w)
        /\ \A id \in Ids : mirror'[id] = IF id \in pull[w].seen THEN mirror[id] ELSE None
    BY DEF Prune, xeroVars, Running, Kept
  <1>2. pull'[w] = [pull[w] EXCEPT !.pc = "finish"]
    BY SetEffect DEF Prune
  <1>3. /\ pull'[w].pc = "finish" /\ pull'[w].since = pull[w].since
        /\ pull'[w].rows = pull[w].rows /\ pull'[w].seen = pull[w].seen
    BY <1>2 DEF TypeOK, Pull
  <1>4. AsksForAll(w)'
    BY <1>1, <1>3 DEF QuietAt, AsksForAll
  <1>5. ASSUME Quiet(w)'
        PROVE  RowsAreCurrent(w)' /\ Repairs(w)' /\ SeesAll(w)'
    <2>1. disturbed'[w] = disturbed[w]
      BY DEF Prune, Disturb, TypeOK
    <2>2. Quiet(w)
      BY <1>1, <1>3, <1>5, <2>1 DEF Quiet
    <2>3. RowsAreCurrent(w) /\ Repairs(w) /\ SeesAll(w)
      BY <1>1, <2>2 DEF QuietAt
    <2>4. \A id \in Ids : ~Pending(w, id)
      BY <1>1 DEF Pending
    <2>5. ASSUME NEW id \in Ids
          PROVE  mirror'[id] = xero[id] /\ (xero[id] # None <=> id \in pull[w].seen)
      <3>1. CASE xero[id] # None
        BY <1>1, <2>3, <2>4, <3>1 DEF Repairs, SeesAll
      <3>2. CASE xero[id] = None
        BY <1>1, <2>3, <3>2 DEF SeesAll
      <3>3. QED BY <3>1, <3>2
    <2>6. RowsAreCurrent(w)'
      BY <1>1, <1>3, <2>3 DEF RowsAreCurrent
    <2>7. Repairs(w)'
      BY <1>1, <2>5 DEF Repairs
    <2>8. SeesAll(w)'
      BY <1>1, <1>3, <2>5 DEF SeesAll
    <2>9. QED BY <2>6, <2>7, <2>8
  <1>6. QED BY <1>4, <1>5 DEF QuietAt

\* A pull that ends leaves nothing to answer for.
LEMMA QuietLeave ==
  ASSUME TypeOK, NEW w \in Workers, Leave(w)
  PROVE  QuietAt(w)'
  <1>1. pull'[w] = Idle
    BY SetEffect DEF Leave
  <1>2. ~Running(w)'
    BY <1>1 DEF Running, Idle
  <1>3. QED BY <1>2 DEF QuietAt, AsksForAll, Quiet
\* A pull writes only its own variables; when it writes the mirror, the others
\* that run are disturbed.
LEMMA StepLeavesOthers ==
  ASSUME TypeOK, NEW w \in Workers, AsksForAll(w), Step(w), NEW v \in Workers, v # w
  PROVE  /\ pull'[v] = pull[v] /\ mode' = mode /\ causes \subseteq causes'
         /\ disturbed[v] \subseteq disturbed'[v]
         /\ UNCHANGED <<xero, order, mirror>> \/ (Running(v) => disturbed'[v] # {})
  <1> USE DEF xeroVars
  <1>1. ASSUME NEW forced \in BOOLEAN, LoadState(w, forced)
        PROVE  /\ pull'[v] = pull[v] /\ UNCHANGED <<mode, xero, order, mirror, causes>>
               /\ disturbed'[v] = disturbed[v]
    BY <1>1, SetEffect DEF LoadState, Begin, TypeOK
  <1>2. CASE CreateState(w)
    BY <1>2, SetEffect DEF CreateState, Begin, TypeOK
  <1>3. CASE Fetching(w)
    BY <1>3, FetchingGoesOn DEF GoesOn
  <1>4. CASE Upsert(w)
    <2>0. disturbed' = [u \in Workers |->
             IF u = w THEN disturbed[u] \cup IF CutOffStep(w) THEN {"fetch"} ELSE {}
             ELSE IF Running(u) THEN disturbed[u] \cup {"mirror"} ELSE disturbed[u]]
      BY <1>4, UpsertEffect
    <2>1. disturbed'[v] = IF Running(v) THEN disturbed[v] \cup {"mirror"} ELSE disturbed[v]
      BY <2>0
    <2>2. QED BY <1>4, <2>1, UpsertEffect
  <1>5. CASE Prune(w)
    <2>1. disturbed'[v] = IF Running(v) THEN disturbed[v] \cup {"mirror"} ELSE disturbed[v]
      BY <1>5 DEF Prune, Disturb
    <2>2. pull'[v] = pull[v] /\ UNCHANGED <<mode, xero, order, causes>>
      BY <1>5, SetEffect DEF Prune
    <2>3. QED BY <2>1, <2>2
  <1>6. CASE Finish(w) \/ PullRaises(w) \/ Crash(w)
    BY <1>6, SetEffect DEF Finish, PullRaises, Crash, Leave, TypeOK
  <1>7. QED BY <1>1, <1>2, <1>3, <1>4, <1>5, <1>6 DEF Step, Fetching

LEMMA InitQuietInv == Init => QuietInv
  <1> SUFFICES ASSUME Init, NEW w \in Workers PROVE QuietAt(w)
    BY DEF QuietInv, QuietAt
  <1>1. ~Running(w)
    BY DEF Init, Idle, Running
  <1>2. QED BY <1>1, NotRunning

LEMMA NextQuietInv == TypeOK /\ TypeOK' /\ HoleInv /\ QuietInv /\ [Next]_vars => QuietInv'
  <1> SUFFICES ASSUME TypeOK, TypeOK', HoleInv, QuietInv, [Next]_vars,
                      NEW v \in Workers
               PROVE  QuietAt(v)'
    BY DEF QuietInv, QuietAt
  <1>0. QuietAt(v)
    BY DEF QuietInv, QuietAt
  <1>1. CASE Tick
    <2>1. UNCHANGED <<mode, xero, order, mirror, pull, disturbed>> /\ causes \subseteq causes'
      BY <1>1 DEF Tick
    <2>2. QED BY <1>0, <2>1, OthersStep
  <1>2. ASSUME NEW id \in Ids, NEW active \in BOOLEAN, Edit(id, active) \/ Delete(id) PROVE QuietAt(v)'
    <2>1. UNCHANGED <<mode, mirror, pull, causes>> /\ Disturb(None, "xero")
      BY <1>2 DEF Edit, Delete
    <2>2. disturbed'[v] = IF Running(v) THEN disturbed[v] \cup {"xero"} ELSE disturbed[v]
      BY <2>1, NoneAssumption DEF Disturb
    <2>3. QED BY <1>0, <2>1, <2>2, OthersStep
  <1>3. ASSUME NEW w \in Workers, Step(w), v # w PROVE QuietAt(v)'
    <2>1. AsksForAll(w)
      BY DEF QuietInv
    <2>2. QED BY <1>0, <1>3, <2>1, StepLeavesOthers, OthersStep
  <1>4. CASE Step(v)
    <2>1. ASSUME NEW forced \in BOOLEAN, LoadState(v, forced) PROVE QuietAt(v)'
      BY <2>1, QuietLoadState
    <2>2. CASE CreateState(v)
      BY <2>2, QuietCreateState
    <2>3. CASE Fetching(v)
      BY <1>0, <2>3, QuietFetching
    <2>4. CASE Upsert(v)
      BY <1>0, <2>4, QuietUpsert
    <2>5. CASE Prune(v)
      BY <1>0, <2>5, QuietPrune
    <2>6. CASE Finish(v) \/ PullRaises(v) \/ Crash(v)
      BY <2>6, QuietLeave DEF Finish, PullRaises, Crash
    <2>7. QED BY <1>4, <2>1, <2>2, <2>3, <2>4, <2>5, <2>6 DEF Step, Fetching
  <1>5. CASE UNCHANGED vars
    BY <1>0, <1>5, OthersStep DEF vars
  <1>6. CASE Reorder
    <2>1. UNCHANGED <<mode, mirror, pull>> /\ causes \subseteq causes' /\ Disturb(None, "xero")
      BY <1>6 DEF Reorder
    <2>2. disturbed'[v] = IF Running(v) THEN disturbed[v] \cup {"xero"} ELSE disturbed[v]
      BY <2>1, NoneAssumption DEF Disturb
    <2>3. QED BY <1>0, <2>1, <2>2, OthersStep
  <1>7. QED BY <1>1, <1>2, <1>3, <1>4, <1>5, <1>6 DEF Next

\* When a quiet pull is about to finish nothing is pending, so nothing is wrong.
LEMMA FinishIsExact ==
  ASSUME TypeOK, HoleInv, QuietInv, NEW w \in Workers, Finish(w), disturbed[w] = {},
         pull[w].since = None \/ causes = {}
  PROVE  mirror = xero
  <1>1. pull[w].pc = "finish" /\ Quiet(w)
    BY DEF Finish, Running, Quiet
  <1>2. Repairs(w) /\ (mode = "full" => SeesAll(w))
    BY <1>1 DEF QuietInv
  <1>3. ASSUME NEW id \in Ids PROVE mirror[id] = xero[id]
    <2>1. CASE mode = "full"
      BY <1>1, <1>2, <2>1 DEF SeesAll
    <2>2. CASE mode = "incremental" /\ xero[id] = None
      BY <2>2 DEF HoleInv, ModesApart
    <2>3. CASE mode = "incremental" /\ xero[id] # None
      <3>1. ~Pending(w, id)
        BY <1>1 DEF Pending
      <3>2. QED BY <1>2, <2>3, <3>1 DEF Repairs
    <2>4. QED BY <2>1, <2>2, <2>3, ModesAssumption DEF TypeOK
  <1>4. QED BY <1>3 DEF TypeOK

QuietFinish ==
  \A w \in Workers :
    /\ Finish(w)
    /\ disturbed[w] = {}
    /\ pull[w].since = None \/ causes = {}
    => mirror = xero

(* A pull during which Xero and the mirror stood still and that gave up no  *)
(* page and no inactive record leaves the mirror equal to Xero, whatever happened before and   *)
(* whatever pulls wait beside it: QuietInv is inductive with HoleInv.       *)
THEOREM QuietTheorem == Spec => QuietPullIsExact
  <1>1. Init => TypeOK /\ HoleInv /\ QuietInv
    BY InitType, InitHoleInv, InitQuietInv
  <1>2. TypeOK /\ HoleInv /\ QuietInv /\ [Next]_vars => (TypeOK /\ HoleInv /\ QuietInv)'
    BY NextType, NextHoleInv, NextQuietInv
  <1>3. TypeOK /\ HoleInv /\ QuietInv => QuietFinish
    BY FinishIsExact DEF QuietFinish
  <1>4. Spec => [][QuietFinish]_vars
    BY <1>1, <1>2, <1>3, PTL DEF Spec
  <1>5. QED BY <1>4 DEF QuietPullIsExact, QuietFinish
-----------------------------------------------------------------------------
(* The watermark.                                                          *)

\* What a step that leaves Xero alone does not change.
LEMMA MarkOthers ==
  ASSUME NEW v \in Workers, CatchesUp(v), pull'[v] = pull[v], UNCHANGED <<xero, order>>,
         disturbed[v] \subseteq disturbed'[v]
  PROVE  CatchesUp(v)'
  <1>1. Reached(pull[v].max)'
    BY DEF CatchesUp, Reached
  <1>2. Undisturbed(v)' => Undisturbed(v)
    BY DEF Undisturbed, Running
  <1>3. Matching(None)' = Matching(None) /\ List(v)' = List(v)
    BY DEF List, Matching
  <1>4. \A id \in Ids : Pending(v, id) => Pending(v, id)'
    BY <1>3 DEF Pending, Rank
  <1>5. QED BY <1>1, <1>2, <1>4 DEF CatchesUp

LEMMA MarkFetching ==
  ASSUME TypeOK, NEW w \in Workers, CatchesUp(w), GoesOn(w)
  PROVE  CatchesUp(w)'
  <1>1. /\ UNCHANGED <<xero, order>>
        /\ pull'[w].max = pull[w].max /\ pull'[w].since = pull[w].since
        /\ Undisturbed(w)' => Undisturbed(w) /\ LosesNothing(w)
    BY DEF GoesOn, Undisturbed
  <1>2. Reached(pull[w].max)'
    BY <1>1 DEF CatchesUp, Reached
  <1>3. \A id \in Ids : xero[id] # None => xero[id].upd >= xero[id].upd
    BY DEF TypeOK, Record
  <1>4. \A id \in Ids : pull'[w].rows[id] # None =>
          xero[id] # None /\ xero[id].upd >= pull'[w].rows[id].upd
    BY <1>3 DEF GoesOn, CatchesUp
  <1>5. ASSUME Undisturbed(w)', NEW id \in Ids
        PROVE  /\ pull'[w].rows[id] # None => pull'[w].rows[id] = xero[id]
               /\ xero[id] # None => \/ Pending(w, id)'
                                     \/ pull[w].max # None /\ pull[w].max >= xero[id].upd
    BY <1>1, <1>5 DEF GoesOn, CatchesUp, LosesNothing
  <1>6. QED BY <1>1, <1>2, <1>4, <1>5 DEF CatchesUp

LEMMA MarkUpsert ==
  ASSUME TypeOK, TypeOK', NEW w \in Workers, CatchesUp(w), Upsert(w)
  PROVE  CatchesUp(w)'
  <1>1. /\ UNCHANGED <<xero, order>> /\ Running(w) /\ pull'[w].since = pull[w].since
        /\ \A id \in Ids : pull'[w].rows[id] = None
        /\ disturbed'[w] = disturbed[w] \cup IF CutOffStep(w) THEN {"fetch"} ELSE {}
    BY UpsertEffect
  <1>2. /\ pull[w].max # None => pull'[w].max # None /\ pull'[w].max >= pull[w].max
        /\ \A id \in Held(w) : pull'[w].max # None /\ pull'[w].max >= pull[w].rows[id].upd
    BY UpsertEffect
  <1>3. /\ pull[w].max \in Nat \cup {None} /\ pull'[w].max \in Nat \cup {None}
        /\ pull[w].since \in Int \cup {None}
        /\ \A id \in Ids : xero[id] # None => xero[id].upd \in Nat
    <2>1. pull'[w] \in Pull
      BY DEF TypeOK
    <2>2. QED BY <2>1, PullFields DEF TypeOK, Record, Pull
  <1>4. Reached(pull[w].max)'
    <2>1. CASE pull'[w].max = None
      BY <2>1 DEF Reached
    <2>2. CASE pull'[w].max # None /\ pull'[w].max = pull[w].max
      BY <1>1, <2>2 DEF CatchesUp, Reached
    <2>3. ASSUME NEW id \in Held(w), pull'[w].max = pull[w].rows[id].upd
          PROVE  Reached(pull[w].max)'
      <3>1. id \in Ids /\ xero[id] # None /\ xero[id].upd >= pull'[w].max
        BY <2>3 DEF Held, CatchesUp
      <3>2. QED BY <1>1, <3>1 DEF Reached
    <2>4. QED BY <2>1, <2>2, <2>3, UpsertEffect
  <1>5. pull'[w].since # None => pull'[w].max # None /\ pull'[w].max >= pull'[w].since
    <2>1. pull[w].since # None => pull[w].max # None /\ pull[w].max >= pull[w].since
      BY DEF CatchesUp
    <2>2. QED BY <1>1, <1>2, <1>3, <2>1
  <1>6. ASSUME Undisturbed(w)', NEW id \in Ids, xero[id] # None
        PROVE  Pending(w, id)' \/ (pull'[w].max # None /\ pull'[w].max >= xero[id].upd)
    <2>1. Undisturbed(w) /\ ~CutOffStep(w)
      BY <1>1, <1>6 DEF Undisturbed
    <2>2. CASE pull[w].rows[id] # None
      <3>1. pull[w].rows[id] = xero[id] /\ id \in Held(w)
        BY <2>1, <2>2 DEF CatchesUp, Held
      <3>2. QED BY <1>2, <3>1
    <2>3. CASE pull[w].rows[id] = None /\ Pending(w, id)
      BY <1>6, <2>1, <2>3, UpsertKeeps
    <2>4. CASE pull[w].max # None /\ pull[w].max >= xero[id].upd
      BY <1>2, <1>3, <1>6, <2>4
    <2>5. QED BY <1>6, <2>1, <2>2, <2>3, <2>4 DEF CatchesUp
  <1>7. QED BY <1>1, <1>4, <1>5, <1>6 DEF CatchesUp

LEMMA MarkLeave ==
  ASSUME NEW w \in Workers, pull'[w].max = None, pull'[w].since = None,
         ~Running(w)', \A id \in Ids : pull'[w].rows[id] = None
  PROVE  CatchesUp(w)'
  BY DEF CatchesUp, Reached, Undisturbed

\* A pull that begins with a watermark has reached it, and asks for what is newer.
LEMMA MarkBegin ==
  ASSUME TypeOK, NEW w \in Workers, NEW since, NEW loaded, NEW max \in Nat \cup {None},
         Begin(w, since, loaded, max), UNCHANGED <<xero, order>>,
         max # None => \E id \in Ids : xero[id] # None /\ xero[id].upd >= max,
         since # None => since \in Int /\ max # None /\ max >= since
  PROVE  CatchesUp(w)'
  <1>1. pull'[w] = [Idle EXCEPT !.pc = "fetch", !.started = now, !.since = since,
                                !.loaded = loaded, !.max = max]
    BY SetEffect DEF Begin
  <1>2. pull'[w].since = since /\ pull'[w].max = max /\ pull'[w].rows = NoRows
    BY <1>1 DEF Idle
  <1>3. \A id \in Ids : pull'[w].rows[id] = None
    BY <1>2 DEF NoRows
  <1>4. Reached(pull[w].max)'
    BY <1>2 DEF Reached
  <1>5. ASSUME NEW id \in Ids, xero[id] # None
        PROVE  Pending(w, id)' \/ (max # None /\ max >= xero[id].upd)
    <2>1. CASE since = None \/ xero[id].upd > since
      BY <1>5, <2>1, BeginAsks
    <2>2. CASE since # None /\ ~(xero[id].upd > since)
      <3>1. xero[id].upd \in Nat
        BY <1>5 DEF TypeOK, Record
      <3>2. QED BY <2>2, <3>1
    <2>3. QED BY <2>1, <2>2
  <1>6. QED BY <1>2, <1>3, <1>4, <1>5 DEF CatchesUp
\* What Xero holds only gets newer.
LEMMA EditIsNewer ==
  ASSUME TypeOK, Timely, NEW id \in Ids, NEW active \in BOOLEAN, Edit(id, active), NEW j \in Ids, xero[j] # None
  PROVE  xero'[j] # None /\ xero'[j].upd >= xero[j].upd
  <1>1. xero[j].upd \in Nat /\ xero[j].upd <= now /\ now \in Nat
    BY DEF TypeOK, Record, Timely
  <1>2. CASE j = id
    <2>1. xero'[j] = [upd |-> now, rev |-> edits + 1, active |-> active]
      BY <1>2 DEF Edit, TypeOK
    <2>2. xero'[j] \in Record
      BY <1>1, <2>1 DEF TypeOK, Record
    <2>3. QED BY <1>1, <2>1, <2>2, NoneAssumption
  <1>3. CASE j # id
    BY <1>1, <1>3 DEF Edit, TypeOK
  <1>4. QED BY <1>2, <1>3

\* So a stamp that Xero had reached stays reached.
LEMMA EditReaches ==
  ASSUME TypeOK, TypeOK', Timely, NEW id \in Ids, NEW active \in BOOLEAN, Edit(id, active), NEW mark \in Nat \cup {None},
         Reached(mark)
  PROVE  mark # None => \E j \in Ids : xero'[j] # None /\ xero'[j].upd >= mark
  <1> SUFFICES ASSUME mark # None
               PROVE  \E j \in Ids : xero'[j] # None /\ xero'[j].upd >= mark
    OBVIOUS
  <1>1. PICK j \in Ids : xero[j] # None /\ xero[j].upd >= mark
    BY DEF Reached
  <1>2. xero'[j] # None /\ xero'[j].upd >= xero[j].upd
    BY <1>1, EditIsNewer
  <1>3. xero[j].upd \in Nat /\ xero'[j].upd \in Nat /\ mark \in Nat
    BY <1>1, <1>2 DEF TypeOK, Record
  <1>4. QED BY <1>1, <1>2, <1>3

LEMMA MarkEdit ==
  ASSUME TypeOK, TypeOK', Timely, NEW id \in Ids, NEW active \in BOOLEAN, Edit(id, active), NEW v \in Workers, CatchesUp(v)
  PROVE  CatchesUp(v)'
  <1>1. pull'[v] = pull[v]
    BY DEF Edit
  <1>2. ~Undisturbed(v)'
    <2>1. disturbed'[v] = IF Running(v) THEN disturbed[v] \cup {"xero"} ELSE disturbed[v]
      BY NoneAssumption DEF Edit, Disturb
    <2>2. QED BY <1>1, <2>1 DEF Undisturbed, Running
  <1>3. Reached(pull[v].max)'
    <2>1. pull[v].max \in Nat \cup {None} /\ Reached(pull[v].max)
      BY PullFields DEF CatchesUp
    <2>2. QED BY <1>1, <2>1, EditReaches DEF Reached
  <1>4. ASSUME NEW j \in Ids, pull'[v].rows[j] # None
        PROVE  xero'[j] # None /\ xero'[j].upd >= pull'[v].rows[j].upd
    <2>1. xero[j] # None /\ xero[j].upd >= pull[v].rows[j].upd
      BY <1>1, <1>4 DEF CatchesUp
    <2>2. xero'[j] # None /\ xero'[j].upd >= xero[j].upd
      BY <2>1, EditIsNewer
    <2>3. xero[j].upd \in Nat /\ xero'[j].upd \in Nat /\ pull[v].rows[j].upd \in Nat
      <3>1. pull[v].rows[j] \in Record
        BY <1>1, <1>4, PullFields
      <3>2. QED BY <2>1, <2>2, <3>1 DEF TypeOK, Record
    <2>4. QED BY <1>1, <2>1, <2>2, <2>3
  <1>5. pull'[v].since # None => pull'[v].max # None /\ pull'[v].max >= pull'[v].since
    BY <1>1 DEF CatchesUp
  <1>6. QED BY <1>2, <1>3, <1>4, <1>5 DEF CatchesUp

LEMMA MarkReorder ==
  ASSUME TypeOK, Reorder, NEW v \in Workers, CatchesUp(v)
  PROVE  CatchesUp(v)'
  <1>1. pull'[v] = pull[v] /\ xero' = xero
    BY DEF Reorder
  <1>2. ~Undisturbed(v)'
    <2>1. disturbed'[v] = IF Running(v) THEN disturbed[v] \cup {"xero"} ELSE disturbed[v]
      BY NoneAssumption DEF Reorder, Disturb
    <2>2. QED BY <1>1, <2>1 DEF Undisturbed, Running
  <1>3. Reached(pull[v].max)'
    BY <1>1 DEF CatchesUp, Reached
  <1>4. QED BY <1>1, <1>2, <1>3 DEF CatchesUp

LEMMA MarkLoadState ==
  ASSUME TypeOK, Reached(watermark), NEW w \in Workers, NEW forced \in BOOLEAN,
         LoadState(w, forced)
  PROVE  CatchesUp(w)'
  <1>0. UNCHANGED <<xero, order>>
    BY DEF LoadState, xeroVars
  <1>1. CASE status = None
    <2>1. pull'[w] = [Idle EXCEPT !.pc = "create"]
      BY <1>1, SetEffect DEF LoadState
    <2>2. QED BY <2>1, MarkLeave DEF Running, Idle, NoRows
  <1>2. CASE status # None /\ watermark # None /\ ~forced
    <2>1. Begin(w, Since(watermark), watermark, watermark)
      BY <1>2 DEF LoadState
    <2>2. watermark \in Nat /\ Since(watermark) \in Int /\ watermark >= Since(watermark)
      BY <1>2, BoundAssumption DEF TypeOK, Since
    <2>3. \E id \in Ids : xero[id] # None /\ xero[id].upd >= watermark
      BY <1>2 DEF Reached
    <2>4. QED BY <1>0, <1>2, <2>1, <2>2, <2>3, MarkBegin
  <1>3. CASE status # None /\ ~(watermark # None /\ ~forced)
    <2>1. Begin(w, None, watermark, None)
      BY <1>3 DEF LoadState
    <2>2. QED BY <1>0, <2>1, MarkBegin
  <1>4. QED BY <1>1, <1>2, <1>3

LEMMA MarkCreateState ==
  ASSUME TypeOK, NEW w \in Workers, CreateState(w)
  PROVE  CatchesUp(w)'
  <1>1. CASE status = None
    <2>1. Begin(w, None, None, None) /\ UNCHANGED <<xero, order>>
      BY <1>1 DEF CreateState, xeroVars
    <2>2. QED BY <2>1, MarkBegin
  <1>2. CASE status # None
    <2>1. pull'[w] = Idle
      BY <1>2, SetEffect DEF CreateState
    <2>2. QED BY <2>1, MarkLeave DEF Running, Idle, NoRows
  <1>3. QED BY <1>1, <1>2
LEMMA StepLeavesXero ==
  ASSUME NEW w \in Workers, Step(w)
  PROVE  UNCHANGED <<mode, xero, order>>
  BY DEF Step, LoadState, CreateState, FetchPage, FetchEmpty, FetchFails, ProxyPage, ProxyAll,
         ProxyEmpty, ProxyFails, Upsert, Prune, Finish, PullRaises, Crash, xeroVars

\* The watermark is what it was, or what a finished pull has reached.
LEMMA StepReaches ==
  ASSUME NEW w \in Workers, Step(w), Reached(watermark), Reached(pull[w].max)
  PROVE  Reached(watermark)'
  <1>1. UNCHANGED <<xero, order>>
    BY StepLeavesXero
  <1>2. watermark' = watermark \/ watermark' = pull[w].max
    BY DEF Step, LoadState, CreateState, FetchPage, FetchEmpty, FetchFails, ProxyPage, ProxyAll,
           ProxyEmpty, ProxyFails, Upsert, Prune, Finish, PullRaises, Crash, stateVars
  <1>3. QED BY <1>1, <1>2 DEF Reached

\* What a step of w does to its own pull.
LEMMA MarkStep ==
  ASSUME TypeOK, TypeOK', Reached(watermark), mode = "incremental",
         NEW w \in Workers, AsksForAll(w), CatchesUp(w), Step(w)
  PROVE  CatchesUp(w)'
  <1>1. ASSUME NEW forced \in BOOLEAN, LoadState(w, forced) PROVE CatchesUp(w)'
    BY <1>1, MarkLoadState
  <1>2. CASE CreateState(w)
    BY <1>2, MarkCreateState
  <1>3. CASE Fetching(w)
    BY <1>3, FetchingGoesOn, MarkFetching
  <1>4. CASE Upsert(w)
    BY <1>4, MarkUpsert
  <1>5. CASE Finish(w) \/ PullRaises(w) \/ Crash(w)
    <2>1. pull'[w] = Idle
      BY <1>5, SetEffect DEF Finish, PullRaises, Crash, Leave
    <2>2. QED BY <2>1, MarkLeave DEF Running, Idle, NoRows
  <1>6. ~Prune(w)
    BY DEF Prune
  <1>7. QED BY <1>1, <1>2, <1>3, <1>4, <1>5, <1>6 DEF Step, Fetching

LEMMA InitMarkInv == Init => MarkInv
  <1> SUFFICES ASSUME Init, mode = "incremental"
               PROVE  Reached(watermark) /\ \A w \in Workers : CatchesUp(w)
    BY DEF MarkInv
  <1>1. ASSUME watermark # None
        PROVE  \E id \in Ids : xero[id] # None /\ xero[id].upd >= watermark
    <2>1. watermark = 1 /\ xero # NoRows
      BY <1>1 DEF Init
    <2>2. PICK id \in Ids : xero[id] # None
      BY <2>1 DEF Init, NoRows
    <2>3. xero[id].upd = 1
      BY <2>2 DEF Init
    <2>4. QED BY <2>1, <2>2, <2>3
  <1>2. ASSUME NEW w \in Workers PROVE CatchesUp(w)
    <2>1. pull[w] = Idle
      BY DEF Init
    <2>2. /\ pull[w].max = None /\ pull[w].since = None /\ pull[w].pc = "idle"
          /\ \A id \in Ids : pull[w].rows[id] = None
      BY <2>1 DEF Idle, NoRows
    <2>3. QED BY <2>2 DEF CatchesUp, Reached, Undisturbed, Running
  <1>3. QED BY <1>1, <1>2 DEF Reached

LEMMA NextMarkInv ==
  TypeOK /\ TypeOK' /\ HoleInv /\ QuietInv /\ MarkInv /\ [Next]_vars => MarkInv'
  <1> SUFFICES ASSUME TypeOK, TypeOK', HoleInv, QuietInv, MarkInv, [Next]_vars,
                      mode' = "incremental"
               PROVE  Reached(watermark)' /\ \A v \in Workers : CatchesUp(v)'
    BY DEF MarkInv
  <1>1. CASE UNCHANGED <<mode, xero, order, pull, watermark, disturbed>>
    <2>1. Reached(watermark) /\ \A v \in Workers : CatchesUp(v)
      BY <1>1 DEF MarkInv
    <2>2. Reached(watermark)'
      BY <1>1, <2>1 DEF Reached
    <2>3. QED BY <1>1, <2>1, <2>2, MarkOthers
  <1>2. ASSUME NEW id \in Ids, NEW active \in BOOLEAN, Edit(id, active)
        PROVE  Reached(watermark)' /\ \A v \in Workers : CatchesUp(v)'
    <2>1. Timely /\ UNCHANGED <<mode, watermark>>
      BY <1>2 DEF HoleInv, Edit, stateVars
    <2>2. Reached(watermark) /\ \A v \in Workers : CatchesUp(v)
      BY <2>1 DEF MarkInv
    <2>3. Reached(watermark)'
      <3>1. watermark \in Nat \cup {None}
        BY DEF TypeOK
      <3>2. QED BY <1>2, <2>1, <2>2, <3>1, EditReaches DEF Reached
    <2>4. QED BY <1>2, <2>1, <2>2, <2>3, MarkEdit
  <1>3. ASSUME NEW w \in Workers, Step(w)
        PROVE  Reached(watermark)' /\ \A v \in Workers : CatchesUp(v)'
    <2>1. UNCHANGED <<mode, xero, order>> /\ AsksForAll(w)
      BY <1>3, StepLeavesXero DEF QuietInv
    <2>2. Reached(watermark) /\ \A v \in Workers : CatchesUp(v)
      BY <2>1 DEF MarkInv
    <2>3. Reached(watermark)'
      BY <1>3, <2>2, StepReaches DEF CatchesUp
    <2>4. ASSUME NEW v \in Workers, v # w PROVE CatchesUp(v)'
      BY <1>3, <2>1, <2>2, <2>4, StepLeavesOthers, MarkOthers
    <2>5. CatchesUp(w)'
      BY <1>3, <2>1, <2>2, MarkStep
    <2>6. QED BY <2>3, <2>4, <2>5
  <1>4. ASSUME NEW id \in Ids, Delete(id) PROVE FALSE
    BY <1>4 DEF Delete
  <1>5. Tick \/ UNCHANGED vars => UNCHANGED <<mode, xero, order, pull, watermark, disturbed>>
    BY DEF Tick, vars, stateVars
  <1>6. CASE Reorder
    <2>1. UNCHANGED <<mode, xero, watermark>>
      BY <1>6 DEF Reorder, stateVars
    <2>2. Reached(watermark) /\ \A v \in Workers : CatchesUp(v)
      BY <2>1 DEF MarkInv
    <2>3. Reached(watermark)'
      BY <2>1, <2>2 DEF Reached
    <2>4. QED BY <1>6, <2>2, <2>3, MarkReorder
  <1>7. QED BY <1>1, <1>2, <1>3, <1>4, <1>5, <1>6 DEF Next

\* An undisturbed pull that is about to finish has seen the newest record there is.
LEMMA FinishAdvances ==
  ASSUME TypeOK, HoleInv, MarkInv, NEW w \in Workers, Finish(w), disturbed[w] = {},
         watermark # None
  PROVE  watermark' >= watermark
  <1>1. mode = "incremental" /\ watermark \in Nat
    BY ModesAssumption DEF HoleInv, ModesApart, TypeOK
  <1>2. pull[w].pc = "finish" /\ Undisturbed(w)
    BY DEF Finish, Undisturbed, Running
  <1>3. PICK id \in Ids : xero[id] # None /\ xero[id].upd >= watermark
    BY <1>1 DEF MarkInv, Reached
  <1>4. pull[w].max # None /\ pull[w].max >= xero[id].upd
    <2>1. ~Pending(w, id)
      BY <1>2 DEF Pending
    <2>2. QED BY <1>1, <1>2, <1>3, <2>1 DEF MarkInv, CatchesUp
  <1>5. pull[w].max \in Nat /\ xero[id].upd \in Nat
    BY <1>3, <1>4, PullFields DEF TypeOK, Record
  <1>6. watermark' = watermark \/ watermark' = pull[w].max
    BY DEF Finish
  <1>7. QED BY <1>1, <1>3, <1>4, <1>5, <1>6

AdvancingFinish ==
  \A w \in Workers :
    /\ Finish(w)
    /\ disturbed[w] = {}
    /\ watermark # None
    => watermark' >= watermark

(* A pull that nothing disturbed never moves the watermark back, a forced  *)
(* full one included: MarkInv is inductive with HoleInv and QuietInv.      *)
THEOREM MarkTheorem == Spec => WatermarkOnlyAdvances
  <1>1. Init => TypeOK /\ HoleInv /\ QuietInv /\ MarkInv
    BY InitType, InitHoleInv, InitQuietInv, InitMarkInv
  <1>2. TypeOK /\ HoleInv /\ QuietInv /\ MarkInv /\ [Next]_vars
          => (TypeOK /\ HoleInv /\ QuietInv /\ MarkInv)'
    BY NextType, NextHoleInv, NextQuietInv, NextMarkInv
  <1>3. TypeOK /\ HoleInv /\ MarkInv => AdvancingFinish
    BY FinishAdvances DEF AdvancingFinish
  <1>4. Spec => [][AdvancingFinish]_vars
    BY <1>1, <1>2, <1>3, PTL DEF Spec
  <1>5. QED BY <1>4 DEF WatermarkOnlyAdvances, AdvancingFinish

-----------------------------------------------------------------------------
(***************************************************************************)
(* The tasks around the pulls: SyncTask, whose constants and variables are *)
(* its own, for any entities, tasks in the queue or at work, and faults.   *)
(***************************************************************************)
(* Effects of the operators the actions are built from.                    *)

LEMMA GotoEffect ==
  ASSUME TaskTypeOK, NEW t \in Tasks, NEW place \in Places, Goto(t, place)
  PROVE  /\ task' \in [Tasks -> Places]
         /\ task'[t] = place
         /\ \A u \in Tasks : u # t => task'[u] = task[u]
  BY DEF Goto, TaskTypeOK

\* A new value for the pulls of a task that is not in the middle of one.
LEMMA ResetEffect ==
  ASSUME TaskTypeOK, NEW t \in Tasks, NEW at \in {"idle", "load"},
         pullOf' = [pullOf EXCEPT ![t] = All(at)]
  PROVE  /\ pullOf' \in [Tasks -> [Entities -> PullState]]
         /\ CutOff(t)' = {}
         /\ \A u \in Tasks : u # t => pullOf'[u] = pullOf[u]
  <1>1. All(at) \in [Entities -> PullState]
    BY DEF All, PullState
  <1>2. pullOf'[t] = All(at) /\ \A u \in Tasks : u # t => pullOf'[u] = pullOf[u]
    BY DEF TaskTypeOK
  <1>3. \A e \in Entities : pullOf'[t][e].at = at
    BY <1>2 DEF All
  <1>4. QED BY <1>1, <1>2, <1>3 DEF TaskTypeOK, CutOff

\* A step of one pull.
LEMMA PullEffect ==
  ASSUME TaskTypeOK, NEW t \in Tasks, NEW e \in Entities,
         \/ \E at \in {"create", "fetch"} : PullGoto(t, e, at)
         \/ \E out \in Outcomes : PullEnds(t, e, out)
  PROVE  /\ pullOf' \in [Tasks -> [Entities -> PullState]]
         /\ \A u \in Tasks : u # t => pullOf'[u] = pullOf[u]
         /\ \A d \in Entities : d # e => pullOf'[t][d] = pullOf[t][d]
  <1>1. pullOf[t] \in [Entities -> PullState] /\ pullOf[t][e] \in PullState
    BY DEF TaskTypeOK
  <1>2. CASE \E at \in {"create", "fetch"} : PullGoto(t, e, at)
    <2>1. PICK at \in {"create", "fetch"} : PullGoto(t, e, at)
      BY <1>2
    <2>2. [pullOf[t][e] EXCEPT !.at = at] \in PullState
      BY <1>1 DEF PullState
    <2>3. pullOf' = [pullOf EXCEPT ![t] = [pullOf[t] EXCEPT ![e] = [pullOf[t][e] EXCEPT !.at = at]]]
      BY <2>1 DEF PullGoto
    <2>4. QED BY <1>1, <2>2, <2>3 DEF TaskTypeOK
  <1>3. CASE \E out \in Outcomes : PullEnds(t, e, out)
    <2>1. PICK out \in Outcomes : PullEnds(t, e, out)
      BY <1>3
    <2>2. [at |-> "done", out |-> out] \in PullState
      BY DEF PullState
    <2>3. pullOf' = [pullOf EXCEPT ![t] = [pullOf[t] EXCEPT ![e] = [at |-> "done", out |-> out]]]
      BY <2>1 DEF PullEnds
    <2>4. QED BY <1>1, <2>2, <2>3 DEF TaskTypeOK
  <1>4. QED BY <1>2, <1>3

LEMMA EndEffect ==
  ASSUME TaskTypeOK, NEW t \in Tasks, End(t)
  PROVE  /\ task' \in [Tasks -> Places]
         /\ task'[t] = "none"
         /\ \A u \in Tasks : u # t => task'[u] = task[u]
         /\ pullOf' \in [Tasks -> [Entities -> PullState]]
         /\ CutOff(t)' = {}
         /\ \A u \in Tasks : u # t => pullOf'[u] = pullOf[u]
  <1>1. Goto(t, "none") /\ pullOf' = [pullOf EXCEPT ![t] = All("idle")]
    BY DEF End, NoPulls
  <1>2. QED BY <1>1, GotoEffect, ResetEffect DEF Places

LEMMA FaultEffect ==
  ASSUME TaskTypeOK, Fault
  PROVE  faults' \in 0 .. MaxFaults
  BY TaskBoundAssumption DEF Fault, TaskTypeOK

-----------------------------------------------------------------------------
(* A pull cut off by a limit is the only one that leaves an entity shown   *)
(* as being pulled: a task that is not pulling has none at its pages.      *)
OnlyPullingFetches ==
  \A t \in Tasks : task[t] # "pulling" => CutOff(t) = {}

\* A task that settles the connection health has something to say.
Decided(t) == {"auth", "ok"} \cap Results(t) # {}
SettlesIfDecided == \A t \in Tasks : task[t] = "settle" => Decided(t)

SyncInv == TaskTypeOK /\ OnlyPullingFetches /\ SettlesIfDecided /\ InProgressIsTrue

LEMMA InitHolds == TaskInit => SyncInv
  <1> SUFFICES ASSUME TaskInit PROVE SyncInv
    OBVIOUS
  <1>1. All("idle") \in [Entities -> PullState]
    BY DEF All, PullState
  <1>2. TaskTypeOK
    <2>1. valid \in BOOLEAN /\ needs \in BOOLEAN /\ flag \in BOOLEAN
      BY Zenon DEF TaskInit
    <2>2. last_status \in [Entities -> {Absent, "in_progress", "ok", "error"}]
      BY DEF TaskInit
    <2>3. QED BY <1>1, <2>1, <2>2, TaskBoundAssumption DEF TaskInit, TaskTypeOK, NoPulls, Places
  <1>3. \A t \in Tasks : CutOff(t) = {}
    BY DEF TaskInit, CutOff, NoPulls, All
  <1>4. InProgressIsTrue
    BY AbsentAssumption DEF TaskInit, InProgressIsTrue
  <1>5. SettlesIfDecided
    BY DEF TaskInit, SettlesIfDecided
  <1>6. QED BY <1>2, <1>3, <1>4, <1>5 DEF SyncInv, OnlyPullingFetches

\* A step of one task (or of none) keeps the invariant if the task has pages
\* to ask for only while pulling, and every entity shown as being pulled was
\* accounted for before and still is, or is accounted for by this task now.
LEMMA OneTaskStep ==
  ASSUME SyncInv, TaskTypeOK', NEW t \in Tasks,
         \A u \in Tasks : u # t => task'[u] = task[u] /\ pullOf'[u] = pullOf[u],
         task'[t] = "pulling" \/ CutOff(t)' = {},
         task'[t] = "settle" => Decided(t)',
         \A e \in Entities : last_status'[e] = "in_progress" =>
           \/ last_status[e] = "in_progress" /\ (e \in CutOff(t) \cup left => e \in CutOff(t)' \cup left')
           \/ e \in CutOff(t)' \cup left'
  PROVE  SyncInv'
  <1>1. \A u \in Tasks : u # t => CutOff(u)' = CutOff(u)
    BY DEF CutOff
  <1>2. OnlyPullingFetches'
    BY <1>1 DEF OnlyPullingFetches, SyncInv
  <1>3. InProgressIsTrue'
    <2> SUFFICES ASSUME NEW e \in Entities, last_status'[e] = "in_progress"
                 PROVE  (\E u \in Tasks : e \in CutOff(u)') \/ e \in left'
      BY DEF InProgressIsTrue
    <2>1. CASE e \in CutOff(t)' \cup left'
      BY <2>1
    <2>2. CASE e \notin CutOff(t)' \cup left'
      <3>1. last_status[e] = "in_progress" /\ e \notin CutOff(t) \cup left
        BY <2>2
      <3>2. PICK u \in Tasks : e \in CutOff(u)
        BY <3>1 DEF SyncInv, InProgressIsTrue
      <3>3. QED BY <1>1, <3>1, <3>2
    <2>3. QED BY <2>1, <2>2
  <1>4. \A u \in Tasks : u # t => Results(u)' = Results(u)
    BY DEF Results
  <1>5. SettlesIfDecided'
    BY <1>4 DEF SettlesIfDecided, Decided, SyncInv
  <1>6. QED BY <1>2, <1>3, <1>5 DEF SyncInv

\* A step that leaves the tasks, their pulls and the state rows alone.
LEMMA OutsideStep ==
  ASSUME SyncInv, TaskTypeOK', UNCHANGED <<task, pullOf, last_status, left>>
  PROVE  SyncInv'
  BY DEF SyncInv, OnlyPullingFetches, InProgressIsTrue, SettlesIfDecided, Decided, Results, CutOff

\* The place of a task changes, its pulls do not: it was done with them, or
\* goes on with them.
LEMMA TaskGoesOn ==
  ASSUME SyncInv, NEW t \in Tasks, NEW place \in Places, Goto(t, place),
         CutOff(t) = {}, place = "settle" => Decided(t),
         UNCHANGED <<pullOf, last_status, left>>, TaskTypeOK'
  PROVE  SyncInv'
  <1>1. TaskTypeOK
    BY DEF SyncInv
  <1>2. \A u \in Tasks : u # t => task'[u] = task[u] /\ pullOf'[u] = pullOf[u]
    BY <1>1, GotoEffect
  <1>3. CutOff(t)' = CutOff(t) /\ (Decided(t) => Decided(t)')
    BY DEF CutOff, Decided, Results
  <1>4. task'[t] = place
    BY <1>1, GotoEffect
  <1>5. QED BY <1>2, <1>3, <1>4, OneTaskStep

\* A task drops its pulls; those at their pages are counted as cut off.
LEMMA Drops ==
  ASSUME SyncInv, NEW t \in Tasks, NEW place \in Places \ {"settle"}, Goto(t, place),
         pullOf' = [pullOf EXCEPT ![t] = NoPulls], UNCHANGED last_status,
         left' = left \cup CutOff(t), TaskTypeOK'
  PROVE  SyncInv'
  <1>1. TaskTypeOK
    BY DEF SyncInv
  <1>2. task'[t] = place /\ \A u \in Tasks : u # t => task'[u] = task[u]
    BY <1>1, GotoEffect
  <1>3. CutOff(t)' = {} /\ \A u \in Tasks : u # t => pullOf'[u] = pullOf[u]
    BY <1>1, ResetEffect DEF NoPulls
  <1>4. QED BY <1>2, <1>3, OneTaskStep

-----------------------------------------------------------------------------
(* The steps of a pull.                                                    *)

LEMMA LoadKeeps ==
  ASSUME SyncInv, NEW t \in Tasks, NEW e \in Entities, Load(t, e)
  PROVE  SyncInv'
  <1>1. TaskTypeOK /\ task[t] = "pulling" /\ UNCHANGED <<flag, task, needs, valid, unaudited, bounds>>
    BY DEF SyncInv, Load
  <1>2. CASE last_status[e] = Absent
    <2>1. PullGoto(t, e, "create") /\ UNCHANGED <<last_status, left>>
      BY <1>2 DEF Load
    <2>2. /\ pullOf' \in [Tasks -> [Entities -> PullState]]
          /\ \A u \in Tasks : u # t => pullOf'[u] = pullOf[u]
          /\ \A d \in Entities : d # e => pullOf'[t][d] = pullOf[t][d]
      BY <1>1, <2>1, PullEffect
    <2>3. pullOf[t][e].at = "load"
      BY DEF Load
    <2>4. CutOff(t) \subseteq CutOff(t)'
      BY <2>2, <2>3 DEF CutOff
    <2>5. TaskTypeOK'
      BY <1>1, <2>1, <2>2 DEF TaskTypeOK, bounds
    <2>6. QED BY <1>1, <2>1, <2>2, <2>4, <2>5, OneTaskStep
  <1>3. CASE last_status[e] # Absent
    <2>1. /\ PullGoto(t, e, "fetch")
          /\ last_status' = [last_status EXCEPT ![e] = "in_progress"]
          /\ left' = left \ {e}
      BY <1>3 DEF Load
    <2>2. /\ pullOf' \in [Tasks -> [Entities -> PullState]]
          /\ \A u \in Tasks : u # t => pullOf'[u] = pullOf[u]
          /\ \A d \in Entities : d # e => pullOf'[t][d] = pullOf[t][d]
      BY <1>1, <2>1, PullEffect
    <2>3. pullOf'[t][e].at = "fetch"
      BY <1>1, <2>1 DEF PullGoto, TaskTypeOK, PullState
    <2>4. CutOff(t)' = CutOff(t) \cup {e}
      BY <2>2, <2>3 DEF CutOff
    <2>5. TaskTypeOK'
      BY <1>1, <2>1, <2>2 DEF TaskTypeOK, bounds
    <2>6. \A d \in Entities : d # e => last_status'[d] = last_status[d]
      BY <1>1, <2>1 DEF TaskTypeOK
    <2>7. QED BY <1>1, <2>1, <2>2, <2>4, <2>5, <2>6, OneTaskStep
  <1>4. QED BY <1>2, <1>3

LEMMA CreateKeeps ==
  ASSUME SyncInv, NEW t \in Tasks, NEW e \in Entities, Create(t, e)
  PROVE  SyncInv'
  <1>1. TaskTypeOK /\ task[t] = "pulling" /\ UNCHANGED <<flag, task, needs, valid, unaudited, left, bounds>>
    BY DEF SyncInv, Create
  <1>2. pullOf[t][e].at = "create"
    BY DEF Create
  <1>3. CASE last_status[e] = Absent
    <2>1. PullGoto(t, e, "fetch") /\ last_status' = [last_status EXCEPT ![e] = "in_progress"]
      BY <1>3 DEF Create
    <2>2. /\ pullOf' \in [Tasks -> [Entities -> PullState]]
          /\ \A u \in Tasks : u # t => pullOf'[u] = pullOf[u]
          /\ \A d \in Entities : d # e => pullOf'[t][d] = pullOf[t][d]
      BY <1>1, <2>1, PullEffect
    <2>3. pullOf'[t][e].at = "fetch"
      BY <1>1, <2>1 DEF PullGoto, TaskTypeOK, PullState
    <2>4. CutOff(t)' = CutOff(t) \cup {e}
      BY <2>2, <2>3 DEF CutOff
    <2>5. TaskTypeOK'
      BY <1>1, <2>1, <2>2 DEF TaskTypeOK, bounds
    <2>6. \A d \in Entities : d # e => last_status'[d] = last_status[d]
      BY <1>1, <2>1 DEF TaskTypeOK
    <2>7. QED BY <1>1, <2>1, <2>2, <2>4, <2>5, <2>6, OneTaskStep
  <1>4. CASE last_status[e] # Absent
    <2>1. PullEnds(t, e, "error") /\ UNCHANGED last_status
      BY <1>4 DEF Create
    <2>2. /\ pullOf' \in [Tasks -> [Entities -> PullState]]
          /\ \A u \in Tasks : u # t => pullOf'[u] = pullOf[u]
          /\ \A d \in Entities : d # e => pullOf'[t][d] = pullOf[t][d]
      BY <1>1, <2>1, PullEffect DEF Outcomes
    <2>3. CutOff(t) \subseteq CutOff(t)'
      BY <1>2, <2>2 DEF CutOff
    <2>4. TaskTypeOK'
      BY <1>1, <2>1, <2>2 DEF TaskTypeOK, bounds
    <2>5. QED BY <1>1, <2>1, <2>2, <2>3, <2>4, OneTaskStep
  <1>5. QED BY <1>3, <1>4

\* A pull ends with an outcome and records one: it leaves the fetching pulls,
\* but its entity is no longer shown as being pulled.
LEMMA PullEndsKeeps ==
  ASSUME SyncInv, NEW t \in Tasks, NEW e \in Entities, task[t] = "pulling",
         NEW out \in Outcomes, PullEnds(t, e, out),
         NEW told \in {"ok", "error"}, last_status' = [last_status EXCEPT ![e] = told],
         UNCHANGED <<flag, task, needs, valid, unaudited, left, grants>>,
         faults' \in 0 .. MaxFaults
  PROVE  SyncInv'
  <1>1. TaskTypeOK
    BY DEF SyncInv
  <1>2. /\ pullOf' \in [Tasks -> [Entities -> PullState]]
        /\ \A u \in Tasks : u # t => pullOf'[u] = pullOf[u]
        /\ \A d \in Entities : d # e => pullOf'[t][d] = pullOf[t][d]
    BY <1>1, PullEffect
  <1>3. TaskTypeOK'
    BY <1>1, <1>2 DEF TaskTypeOK
  <1>4. last_status'[e] # "in_progress" /\ \A d \in Entities : d # e => last_status'[d] = last_status[d]
    BY <1>1 DEF TaskTypeOK
  <1>5. CutOff(t) \subseteq CutOff(t)' \cup {e}
    BY <1>2 DEF CutOff
  <1>6. QED BY <1>2, <1>3, <1>4, <1>5, OneTaskStep

LEMMA PullStepKeeps ==
  ASSUME SyncInv, NEW t \in Tasks, NEW e \in Entities,
         Load(t, e) \/ Create(t, e) \/ Page(t, e) \/ FinishPull(t, e) \/ FailPull(t, e)
  PROVE  SyncInv'
  <1>1. TaskTypeOK
    BY DEF SyncInv
  <1>2. CASE Load(t, e)
    BY <1>2, LoadKeeps
  <1>3. CASE Create(t, e)
    BY <1>3, CreateKeeps
  <1>4. CASE Page(t, e)
    <2>1. TaskTypeOK'
      BY <1>1, <1>4 DEF Page, TaskTypeOK, bounds
    <2>2. QED BY <1>4, <2>1, OutsideStep DEF Page
  <1>5. CASE FinishPull(t, e)
    <2>1. /\ task[t] = "pulling"
          /\ PullEnds(t, e, IF valid THEN "ok" ELSE "auth")
          /\ last_status' = [last_status EXCEPT ![e] = IF valid THEN "ok" ELSE "error"]
          /\ UNCHANGED <<flag, task, needs, valid, unaudited, left, grants>>
          /\ faults' \in 0 .. MaxFaults
      BY <1>1, <1>5 DEF FinishPull, bounds, TaskTypeOK
    <2>2. CASE valid
      BY <2>1, <2>2, PullEndsKeeps DEF Outcomes
    <2>3. CASE ~valid
      BY <2>1, <2>3, PullEndsKeeps DEF Outcomes
    <2>4. QED BY <2>2, <2>3
  <1>6. CASE FailPull(t, e)
    <2>1. faults' \in 0 .. MaxFaults
      BY <1>1, <1>6, FaultEffect DEF FailPull
    <2>2. QED BY <1>6, <2>1, PullEndsKeeps DEF FailPull, Outcomes
  <1>7. QED BY <1>2, <1>3, <1>4, <1>5, <1>6

-----------------------------------------------------------------------------
(* The steps of a task.                                                    *)

LEMMA TaskStepKeeps ==
  ASSUME SyncInv, NEW t \in Tasks,
         \/ Tap(t) \/ Nightly(t) \/ Take(t)
         \/ Health(t) \/ Settle(t) \/ HealthFails(t)
         \/ Chain(t) \/ ChainFails(t) \/ Clear(t) \/ ClearFails(t)
         \/ SoftLimit(t) \/ HardLimit(t) \/ LoseWorker(t)
  PROVE  SyncInv'
  <1> USE DEF bounds
  <1>1. TaskTypeOK /\ (task[t] # "pulling" => CutOff(t) = {})
    BY DEF SyncInv, OnlyPullingFetches
  <1>2. CASE Tap(t) \/ Nightly(t)
    <2>1. Goto(t, "queued") /\ task[t] = "none" /\ UNCHANGED <<pullOf, last_status, left>>
      BY <1>2 DEF Tap, Nightly
    <2>2. TaskTypeOK'
      BY <1>1, <1>2, <2>1, GotoEffect DEF Tap, Nightly, TaskTypeOK, Places
    <2>3. QED BY <1>1, <2>1, <2>2, TaskGoesOn DEF Places
  <1>3. CASE Take(t)
    <2>1. Goto(t, "pulling") /\ pullOf' = [pullOf EXCEPT ![t] = All("load")] /\ CutOff(t) = {}
      BY <1>1, <1>3 DEF Take
    <2>2. /\ task' \in [Tasks -> Places] /\ task'[t] = "pulling"
          /\ \A u \in Tasks : u # t => task'[u] = task[u]
      BY <1>1, <2>1, GotoEffect DEF Places
    <2>3. /\ pullOf' \in [Tasks -> [Entities -> PullState]]
          /\ \A u \in Tasks : u # t => pullOf'[u] = pullOf[u]
      BY <1>1, <2>1, ResetEffect
    <2>4. TaskTypeOK'
      BY <1>1, <1>3, <2>2, <2>3 DEF Take, TaskTypeOK
    <2>5. QED BY <1>3, <2>1, <2>2, <2>3, <2>4, OneTaskStep DEF Take
  <1>4. CASE Health(t)
    <2>1. CutOff(t) = {}
      BY <1>4 DEF Health, CutOff
    <2>2. Goto(t, "chain") \/ (Goto(t, "settle") /\ Decided(t))
      BY <1>4 DEF Health, Verdict, Decided
    <2>3. TaskTypeOK'
      BY <1>1, <1>4, <2>2, GotoEffect DEF Health, TaskTypeOK, Places
    <2>4. UNCHANGED <<pullOf, last_status, left>>
      BY <1>4 DEF Health
    <2>5. QED BY <2>1, <2>2, <2>3, <2>4, TaskGoesOn DEF Places
  <1>5. CASE Settle(t)
    <2>1. Goto(t, "chain") /\ CutOff(t) = {} /\ UNCHANGED <<pullOf, last_status, left>>
      BY <1>1, <1>5 DEF Settle
    <2>2. Verdict(Results(t)) \in BOOLEAN
      BY <1>5 DEF SyncInv, SettlesIfDecided, Decided, Settle, Verdict
    <2>3. TaskTypeOK'
      BY <1>1, <1>5, <2>1, <2>2, GotoEffect DEF Settle, TaskTypeOK, Places
    <2>4. QED BY <2>1, <2>3, TaskGoesOn DEF Places
  <1>6. CASE HealthFails(t) \/ ChainFails(t)
    <2>1. Goto(t, "clear") /\ CutOff(t) = {} /\ UNCHANGED <<pullOf, last_status, left>>
      BY <1>1, <1>6 DEF HealthFails, ChainFails
    <2>2. TaskTypeOK'
      BY <1>1, <1>6, <2>1, GotoEffect, FaultEffect DEF HealthFails, ChainFails, TaskTypeOK, Places
    <2>3. QED BY <2>1, <2>2, TaskGoesOn DEF Places
  <1>7. CASE Chain(t)
    <2>1. Goto(t, "clear") /\ CutOff(t) = {} /\ UNCHANGED <<pullOf, last_status, left>>
      BY <1>1, <1>7 DEF Chain
    <2>2. TaskTypeOK'
      BY <1>1, <1>7, <2>1, GotoEffect DEF Chain, Chains, TaskTypeOK, Places
    <2>3. QED BY <2>1, <2>2, TaskGoesOn DEF Places
  <1>8. CASE Clear(t) \/ ClearFails(t)
    <2>1. End(t) /\ CutOff(t) = {} /\ UNCHANGED <<last_status, left>>
      BY <1>1, <1>8 DEF Clear, ClearFails
    <2>2. TaskTypeOK'
      BY <1>1, <1>8, <2>1, EndEffect, FaultEffect DEF Clear, ClearFails, TaskTypeOK
    <2>3. Goto(t, "none") /\ pullOf' = [pullOf EXCEPT ![t] = NoPulls] /\ left' = left \cup CutOff(t)
      BY <2>1 DEF End
    <2>4. QED BY <2>1, <2>2, <2>3, Drops DEF Places
  <1>9. CASE SoftLimit(t) \/ HardLimit(t) \/ LoseWorker(t)
    <2>1. PICK place \in {"clear", "none", "queued"} : Goto(t, place)
      BY <1>9 DEF SoftLimit, HardLimit, LoseWorker, End
    <2>2. /\ pullOf' = [pullOf EXCEPT ![t] = NoPulls]
          /\ left' = left \cup CutOff(t)
          /\ Fault
          /\ UNCHANGED <<flag, last_status, needs, valid, unaudited, grants>>
      BY <1>9 DEF SoftLimit, HardLimit, LoseWorker, End
    <2>3. pullOf' \in [Tasks -> [Entities -> PullState]]
      BY <1>1, <2>2, ResetEffect DEF NoPulls
    <2>4. left' \subseteq Entities
      BY <1>1, <2>2 DEF TaskTypeOK, CutOff
    <2>5. task' \in [Tasks -> Places] /\ faults' \in 0 .. MaxFaults
      BY <1>1, <2>1, <2>2, GotoEffect, FaultEffect DEF Places
    <2>6. TaskTypeOK'
      BY <1>1, <2>2, <2>3, <2>4, <2>5 DEF TaskTypeOK
    <2>7. QED BY <2>1, <2>2, <2>6, Drops DEF Places
  <1>10. QED BY <1>2, <1>3, <1>4, <1>5, <1>6, <1>7, <1>8, <1>9

LEMMA NextKeeps == SyncInv /\ [TaskNext]_taskVars => SyncInv'
  <1> SUFFICES ASSUME SyncInv, [TaskNext]_taskVars PROVE SyncInv'
    OBVIOUS
  <1>1. TaskTypeOK
    BY DEF SyncInv
  <1>2. CASE \E t \in Tasks :
               \/ Tap(t) \/ Nightly(t) \/ Take(t)
               \/ Health(t) \/ Settle(t) \/ HealthFails(t)
               \/ Chain(t) \/ ChainFails(t) \/ Clear(t) \/ ClearFails(t)
               \/ SoftLimit(t) \/ HardLimit(t) \/ LoseWorker(t)
    BY <1>2, TaskStepKeeps
  <1>3. CASE \E t \in Tasks, e \in Entities :
               Load(t, e) \/ Create(t, e) \/ Page(t, e) \/ FinishPull(t, e) \/ FailPull(t, e)
    BY <1>3, PullStepKeeps
  <1>4. CASE TapFails \/ Expire \/ Grant
    <2>1. TaskTypeOK'
      <3>1. CASE TapFails
        BY <1>1, <3>1, FaultEffect DEF TapFails, TaskTypeOK
      <3>2. CASE Expire
        BY <1>1, <3>2 DEF Expire, TaskTypeOK, bounds
      <3>3. CASE Grant
        <4>1. valid' \in BOOLEAN
          BY <3>3, Zenon DEF Grant
        <4>2. grants' \in 0 .. MaxGrants
          BY <1>1, <3>3, TaskBoundAssumption DEF Grant, TaskTypeOK
        <4>3. QED BY <1>1, <3>3, <4>1, <4>2 DEF Grant, TaskTypeOK
      <3>4. QED BY <1>4, <3>1, <3>2, <3>3
    <2>2. QED BY <1>4, <2>1, OutsideStep DEF TapFails, Expire, Grant
  <1>5. CASE UNCHANGED taskVars
    <2>1. TaskTypeOK'
      BY <1>1, <1>5 DEF TaskTypeOK, taskVars, bounds
    <2>2. QED BY <1>5, <2>1, OutsideStep DEF taskVars
  <1>6. QED BY <1>2, <1>3, <1>4, <1>5 DEF TaskNext

-----------------------------------------------------------------------------
(* Every variable keeps its type, in whatever order tasks and pulls race,  *)
(* fail, are cut off and are delivered again.                              *)
THEOREM TaskTypesCorrect == TaskSpec => []TaskTypeOK
  <1>1. SyncInv => TaskTypeOK
    BY DEF SyncInv
  <1>2. QED BY <1>1, InitHolds, NextKeeps, PTL DEF TaskSpec

(* /sync-status (sync_entity, _get_or_create_state): an entity shown as    *)
(* being pulled is being pulled by some task, or a pull of it was cut off  *)
(* and none has begun since.                                               *)
THEOREM InProgressTheorem == TaskSpec => []InProgressIsTrue
  <1>1. SyncInv => InProgressIsTrue
    BY DEF SyncInv
  <1>2. QED BY <1>1, InitHolds, NextKeeps, PTL DEF TaskSpec
=============================================================================
