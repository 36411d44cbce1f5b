----------------------------- MODULE XeroMirror -----------------------------
(***************************************************************************)
(* The local mirror of one Xero entity of one company (xero_document) and  *)
(* its watermark (xero_sync_state), kept by SyncEngine.sync_entity.        *)
(*                                                                         *)
(* A pull reads the state row, asks Xero page by page for the records      *)
(* modified since the watermark less an overlap, upserts and commits each  *)
(* page, and at the end advances the watermark to the newest record it     *)
(* saw.  Entities without a watermark ("full") are pulled whole, and       *)
(* records the pull did not see are pruned.  The list actions fail open:   *)
(* an error other than an authentication error looks like an empty page,   *)
(* and an empty first page falls back to the proxy, which pulls            *)
(* everything.  Several pulls may overlap: the nightly task, the Refresh   *)
(* button and the chain after a connect start one each, and nothing        *)
(* serialises them.                                                        *)
(*                                                                         *)
(* Xero is the environment: it serves page n of a list, one record to a    *)
(* page, in an order that no request asks for; or, of the accounts, the    *)
(* tax rates and the organisation, everything at once.  The proxy then     *)
(* asks for the active ones only, the action for all.                      *)
(***************************************************************************)
EXTENDS Integers, FiniteSets

CONSTANTS
  Ids,           \* identifiers of Xero records
  Modes,         \* EntitySpec.mode values to consider
  Workers,       \* Celery processes that may run a pull of this entity
  MaxPages,      \* MAX_SYNC_PAGES
  MaxProxyPages, \* the cap of the proxy loop of _inc_fb
  Overlap,       \* WATERMARK_OVERLAP, in seconds
  MaxPull,       \* seconds after which a pull counts as slow
  MaxTime,       \* bound: the clock
  MaxEdits,      \* bound: changes made in Xero
  MaxPulls,      \* bound: pulls started
  MaxFailures,   \* bound: failed requests, raised exceptions and crashes
  None           \* no record, no row, no watermark, no If-Modified-Since

ASSUME IdsAssumption == Ids \subseteq Nat /\ IsFiniteSet(Ids)
ASSUME ModesAssumption == Modes \subseteq {"incremental", "full"}
ASSUME BoundAssumption ==
  /\ MaxPages \in Nat \ {0} /\ MaxProxyPages \in Nat \ {0}
  /\ Overlap \in Nat /\ MaxPull \in Nat /\ MaxTime \in Nat
  /\ MaxEdits \in Nat /\ MaxPulls \in Nat /\ MaxFailures \in Nat

\* Two pulls in a row fit in the overlap.
ASSUME OverlapAssumption == 2 * MaxPull < Overlap

\* UpdatedDateUTC, the content as of a revision, and Status (of an account or
\* a tax rate).
Record == [upd : Nat, rev : Nat, active : BOOLEAN]

\* o[id] is the place of id when everything is listed.
Orders == {o \in [Ids -> Ids] : \A i, j \in Ids : o[i] = o[j] => i = j}

ASSUME NoneAssumption == None \notin Int \cup Record \cup Workers \cup Orders

VARIABLES
  mode,       \* the mode of the entity; never changes
  now,        \* Xero's clock and ours
  xero,       \* xero[id]: the record in Xero
  order,      \* the order Xero lists them in; None when there are no pages
  mirror,     \* mirror[id]: the xero_document row
  watermark,  \* xero_sync_state.watermark_utc
  status,     \* xero_sync_state.last_status; None when there is no row
  pull,       \* pull[w]: the local variables of the pull of worker w
  edits, pulls, failures,
  causes,     \* observer: what has happened that can leave a hole
  disturbed   \* observer: disturbed[w]: what happened during the pull of w

vars == <<mode, now, xero, order, mirror, watermark, status, pull,
          edits, pulls, failures, causes, disturbed>>
xeroVars == <<mode, now, xero, order, edits>>
stateVars == <<watermark, status>>

Steps == {"idle", "create", "fetch", "fallback", "upsert", "prune", "finish"}
Causes == {"failed_page", "page_cap", "slow_pull", "reordered", "active_only"}
Disturbances == {"xero", "mirror", "fetch"}

Pull == [pc      : Steps,
         started : Nat,
         since   : Int \cup {None},       \* If-Modified-Since
         loaded  : Nat \cup {None},       \* the watermark in the loaded state row
         page    : Nat,
         proxy   : Nat,                   \* page of the proxy loop
         rows    : [Ids -> Record \cup {None}],  \* what the last fetch returned
         max     : Nat \cup {None},       \* max_updated
         seen    : SUBSET Ids]            \* seen_ids

NoRows == [id \in Ids |-> None]
Idle == [pc |-> "idle", started |-> 0, since |-> None, loaded |-> None, page |-> 1,
         proxy |-> 1, rows |-> NoRows, max |-> None, seen |-> {}]

TypeOK ==
  /\ mode \in Modes
  /\ now \in Nat
  /\ xero \in [Ids -> Record \cup {None}]
  /\ order \in Orders \cup {None}
  /\ mirror \in [Ids -> Record \cup {None}]
  /\ watermark \in Nat \cup {None}
  /\ status \in {None, "in_progress", "ok", "error"}
  /\ pull \in [Workers -> Pull]
  /\ edits \in 0 .. MaxEdits
  /\ pulls \in 0 .. MaxPulls
  /\ failures \in 0 .. MaxFailures
  /\ causes \subseteq Causes
  /\ disturbed \in [Workers -> SUBSET Disturbances]

Init ==
  /\ mode \in Modes
  /\ now = 1
  /\ order \in {None, [id \in Ids |-> id]}
  /\ xero \in [Ids -> {None} \cup [upd : {1}, rev : {0},
                                   active : IF order = None THEN BOOLEAN ELSE {TRUE}]]
  /\ \/ mirror = NoRows /\ watermark = None /\ status = None    \* never synced
     \/ /\ mirror = xero                                        \* or in step
        /\ watermark = IF mode = "full" \/ xero = NoRows THEN None ELSE 1
        /\ status = "ok"
  /\ pull = [w \in Workers |-> Idle]
  /\ edits = 0
  /\ pulls = 0
  /\ failures = 0
  /\ causes = {}
  /\ disturbed = [w \in Workers |-> {}]

-----------------------------------------------------------------------------
(***************************************************************************)
(* Xero.                                                                   *)
(***************************************************************************)
Running(w) == pull[w].pc \notin {"idle", "create"}

\* Every pull but that of w notices a disturbance of this kind.
Disturb(w, kind) ==
  disturbed' = [v \in Workers |-> IF v # w /\ Running(v)
                                  THEN disturbed[v] \cup {kind} ELSE disturbed[v]]

Tick ==
  /\ now < MaxTime
  /\ now' = now + 1
  /\ causes' = causes \cup
       IF \E w \in Workers : Running(w) /\ now' > pull[w].started + MaxPull
       THEN {"slow_pull"} ELSE {}
  /\ UNCHANGED <<mode, xero, order, mirror, stateVars, pull, edits, pulls, failures, disturbed>>

\* A record is created or changed; voiding an invoice is a change too, and so
\* is archiving an account.
Edit(id, active) ==
  /\ edits < MaxEdits
  /\ edits' = edits + 1
  /\ active \/ order = None
  /\ xero' = [xero EXCEPT ![id] = [upd |-> now, rev |-> edits + 1, active |-> active]]
  /\ Disturb(None, "xero")
  /\ UNCHANGED <<mode, now, order, mirror, stateVars, pull, pulls, failures, causes>>

\* Payments, tax rates and the like do disappear from their lists.
Delete(id) ==
  /\ mode = "full"
  /\ edits < MaxEdits
  /\ xero[id] # None
  /\ edits' = edits + 1
  /\ xero' = [xero EXCEPT ![id] = None]
  /\ Disturb(None, "xero")
  /\ UNCHANGED <<mode, now, order, mirror, stateVars, pull, pulls, failures, causes>>

\* From now on the records are listed in another order, be it that an edited
\* one moves to the end: no request says which.
Reorder ==
  /\ order # None
  /\ edits < MaxEdits
  /\ edits' = edits + 1
  /\ order' \in Orders \ {order}
  /\ causes' = causes \cup IF \E w \in Workers : Running(w) THEN {"reordered"} ELSE {}
  /\ Disturb(None, "xero")
  /\ UNCHANGED <<mode, now, xero, mirror, stateVars, pull, pulls, failures>>

\* The list Xero filters by If-Modified-Since, and its pages.
Matching(since) ==
  {id \in Ids : xero[id] # None /\ (since = None \/ xero[id].upd > since)}
\* The page of a list that a record is on, and the number of pages.
Rank(o, id, list) == IF o = None THEN 1 ELSE Cardinality({j \in list : o[j] <= o[id]})
Length(o, list) == IF o # None THEN Cardinality(list) ELSE IF list = {} THEN 0 ELSE 1
Rows(list, n) == [id \in Ids |-> IF id \in list /\ Rank(order, id, list) = n
                                 THEN xero[id] ELSE None]
PastEnd(list, n) == n > Length(order, list)

-----------------------------------------------------------------------------
(***************************************************************************)
(* A pull.                                                                 *)
(***************************************************************************)
Set(w, p) == pull' = [pull EXCEPT ![w] = p]

Leave(w) == Set(w, Idle) /\ disturbed' = [disturbed EXCEPT ![w] = {}]

\* One more request failed, an exception was raised or the worker died.
Fail == failures < MaxFailures /\ failures' = failures + 1

Begin(w, since, loaded, max) ==
  Set(w, [Idle EXCEPT !.pc = "fetch", !.started = now, !.since = since,
                      !.loaded = loaded, !.max = max])

SinceExact(mark) == mark                      \* slip: no overlap
Since(mark) == mark - Overlap

\* _get_or_create_state finds the row; the run is incremental when it holds
\* a watermark and the caller did not force a full pull.
LoadState(w, forced) ==
  /\ pull[w].pc = "idle"
  /\ pulls < MaxPulls
  /\ pulls' = pulls + 1
  /\ disturbed' = [disturbed EXCEPT ![w] = {}]
  /\ IF status = None
       THEN /\ Set(w, [Idle EXCEPT !.pc = "create"])
            /\ status' = status
       ELSE /\ IF watermark # None /\ ~forced
                 THEN Begin(w, Since(watermark), watermark, watermark)
                 ELSE Begin(w, None, watermark, None)
            /\ status' = "in_progress"
  /\ UNCHANGED <<xeroVars, mirror, watermark, failures, causes>>

\* It found no row and inserts one.  The unique constraint lets one of two
\* first pulls through; the other raises, outside the try block.
CreateState(w) ==
  /\ pull[w].pc = "create"
  /\ IF status = None
       THEN Begin(w, None, None, None) /\ status' = "in_progress"
       ELSE Set(w, Idle) /\ status' = status
  /\ disturbed' = [disturbed EXCEPT ![w] = {}]
  /\ UNCHANGED <<xeroVars, mirror, watermark, pulls, failures, causes>>

List(w) == Matching(pull[w].since)
Ended == IF mode = "full" THEN "prune" ELSE "finish"

\* A page with records: they are as they are in Xero now.
FetchPage(w) ==
  /\ pull[w].pc = "fetch"
  /\ ~PastEnd(List(w), pull[w].page)
  /\ Set(w, [pull[w] EXCEPT !.pc = "upsert", !.rows = Rows(List(w), pull[w].page)])
  /\ UNCHANGED <<xeroVars, mirror, stateVars, pulls, failures, causes, disturbed>>

\* An empty page ends the list; the first one goes to the proxy instead.
OnEmptyPage(w) ==
  Set(w, [pull[w] EXCEPT !.pc = IF @ = "fetch" /\ pull[w].page = 1 THEN "fallback" ELSE Ended,
                         !.rows = NoRows, !.proxy = 1])

FetchEmpty(w) ==
  /\ pull[w].pc = "fetch"
  /\ PastEnd(List(w), pull[w].page)
  /\ OnEmptyPage(w)
  /\ UNCHANGED <<xeroVars, mirror, stateVars, pulls, failures, causes, disturbed>>

\* The records from page n of a list on are given up.
GiveUp(w, list, n, cause) ==
  /\ causes' = causes \cup IF PastEnd(list, n) THEN {} ELSE {cause}
  /\ disturbed' = [disturbed EXCEPT ![w] = @ \cup {"fetch"}]

\* The action failed and returned nothing, which is taken for an empty page.
FetchFails(w) ==
  /\ pull[w].pc = "fetch"
  /\ Fail
  /\ OnEmptyPage(w)
  /\ IF pull[w].page = 1 THEN UNCHANGED <<causes, disturbed>>
     ELSE GiveUp(w, List(w), pull[w].page, "failed_page")
  /\ UNCHANGED <<xeroVars, mirror, stateVars, pulls>>

(* The proxy knows no If-Modified-Since.  An incremental entity loops over *)
(* its pages and returns everything at once; a full one asks for the first *)
(* page only, and its next page comes from the action again.               *)
Return(w, rows) ==
  Set(w, [pull[w] EXCEPT !.pc = IF \E id \in Ids : rows[id] # None THEN "upsert" ELSE Ended,
                         !.rows = rows])

Merge(old, new) == [id \in Ids |-> IF new[id] # None THEN new[id] ELSE old[id]]

ProxyPage(w) ==
  LET all == Matching(None)
      n == pull[w].proxy
      rows == Merge(pull[w].rows, Rows(all, n))
  IN  /\ order # None
      /\ pull[w].pc = "fallback"
      /\ ~PastEnd(all, n)
      /\ IF mode = "incremental" /\ n < MaxProxyPages
           THEN /\ Set(w, [pull[w] EXCEPT !.rows = rows, !.proxy = n + 1])
                /\ UNCHANGED <<causes, disturbed>>
           ELSE /\ Return(w, rows)
                /\ IF mode = "incremental" THEN GiveUp(w, all, n + 1, "page_cap")
                   ELSE UNCHANGED <<causes, disturbed>>
      /\ UNCHANGED <<xeroVars, mirror, stateVars, pulls, failures>>

\* Without pages there is one call, which asks for the active records only:
\* those the pull should see and that are not active are lost on it.
ActiveIn(list) == [id \in Ids |-> IF id \in list /\ xero[id].active THEN xero[id] ELSE None]
Inactive(list) == {id \in list : ~ xero[id].active}

ProxyAll(w) ==
  /\ order = None
  /\ pull[w].pc = "fallback"
  /\ Matching(None) # {}
  /\ Return(w, ActiveIn(Matching(None)))
  /\ IF Inactive(List(w)) = {} THEN UNCHANGED <<causes, disturbed>>
     ELSE /\ causes' = causes \cup {"active_only"}
          /\ disturbed' = [disturbed EXCEPT ![w] = @ \cup {"fetch"}]
  /\ UNCHANGED <<xeroVars, mirror, stateVars, pulls, failures>>

ProxyEmpty(w) ==
  /\ pull[w].pc = "fallback"
  /\ PastEnd(Matching(None), pull[w].proxy)
  /\ Return(w, pull[w].rows)
  /\ UNCHANGED <<xeroVars, mirror, stateVars, pulls, failures, causes, disturbed>>

\* A proxy page that comes back empty ends the loop with the rows so far; an
\* exception drops them.
ProxyFails(w) ==
  /\ pull[w].pc = "fallback"
  /\ Fail
  /\ \/ Return(w, pull[w].rows) /\ GiveUp(w, Matching(None), pull[w].proxy, "failed_page")
     \/ Return(w, NoRows) /\ GiveUp(w, Matching(None), 1, "failed_page")
  /\ UNCHANGED <<xeroVars, mirror, stateVars, pulls>>

Held(w) == {id \in Ids : pull[w].rows[id] # None}

Mirrored(w) == Merge(mirror, pull[w].rows)

NewestLast(stamps) == stamps                  \* slip: the last stamp read wins
Newest(stamps) == {u \in stamps : \A v \in stamps : v <= u}

\* The page is upserted, whatever the row holds by now, and committed.
Upsert(w) ==
  LET p == pull[w]
      stamps == {p.rows[id].upd : id \in Held(w)} \cup ({p.max} \ {None})
      last == p.page >= MaxPages \/ order = None
      cut == last /\ ~PastEnd(List(w), p.page + 1)
  IN  /\ p.pc = "upsert"
      /\ mirror' = Mirrored(w)
      /\ \E max \in IF stamps = {} THEN {None} ELSE Newest(stamps) :
           Set(w, [p EXCEPT !.pc = IF last THEN Ended ELSE "fetch",
                            !.page = @ + 1, !.rows = NoRows, !.max = max,
                            !.seen = @ \cup Held(w)])
      /\ causes' = causes \cup IF cut THEN {"page_cap"} ELSE {}
      /\ disturbed' = [v \in Workers |->
           IF v = w THEN disturbed[v] \cup IF cut THEN {"fetch"} ELSE {}
           ELSE IF Running(v) THEN disturbed[v] \cup {"mirror"} ELSE disturbed[v]]
      /\ UNCHANGED <<xeroVars, stateVars, pulls, failures>>

KeptOnEmpty(w, id) == id \in pull[w].seen \/ mirror[id] # None   \* slip: never prunes
Kept(w, id) == id \in pull[w].seen

\* A full pull owns the whole set: what it did not see is deleted.
Prune(w) ==
  /\ mode = "full"
  /\ pull[w].pc = "prune"
  /\ mirror' = [id \in Ids |-> IF Kept(w, id) THEN mirror[id] ELSE None]
  /\ Set(w, [pull[w] EXCEPT !.pc = "finish"])
  /\ Disturb(w, "mirror")
  /\ UNCHANGED <<xeroVars, stateVars, pulls, failures, causes>>

\* The ORM writes the columns whose value differs from the loaded one.
Finish(w) ==
  /\ pull[w].pc = "finish"
  /\ watermark' = IF mode = "incremental" /\ pull[w].max \notin {None, pull[w].loaded}
                  THEN pull[w].max ELSE watermark
  /\ status' = "ok"
  /\ Leave(w)
  /\ UNCHANGED <<xeroVars, mirror, pulls, failures, causes>>

\* An authentication error, or any other exception in the loop, is recorded.
PullRaises(w) ==
  /\ Running(w)
  /\ Fail
  /\ status' = "error"
  /\ Leave(w)
  /\ UNCHANGED <<xeroVars, mirror, watermark, pulls, causes>>

Crash(w) ==
  /\ pull[w].pc # "idle"
  /\ Fail
  /\ Leave(w)
  /\ UNCHANGED <<xeroVars, mirror, stateVars, pulls, causes>>

-----------------------------------------------------------------------------
Step(w) ==
  \/ \E forced \in BOOLEAN : LoadState(w, forced)
  \/ CreateState(w)
  \/ FetchPage(w)
  \/ FetchEmpty(w)
  \/ FetchFails(w)
  \/ ProxyPage(w)
  \/ ProxyAll(w)
  \/ ProxyEmpty(w)
  \/ ProxyFails(w)
  \/ Upsert(w)
  \/ Prune(w)
  \/ Finish(w)
  \/ PullRaises(w)
  \/ Crash(w)

Next ==
  \/ Tick
  \/ \E id \in Ids : (\E active \in BOOLEAN : Edit(id, active)) \/ Delete(id)
  \/ Reorder
  \/ \E w \in Workers : Step(w)

Spec == Init /\ [][Next]_vars

-----------------------------------------------------------------------------
(***************************************************************************)
(* Properties.                                                             *)
(***************************************************************************)

\* The mirror has the record wrong and no later pull will ask for it: it is
\* older than the watermark less the overlap.
Hole(id) ==
  /\ mirror[id] # xero[id]
  /\ xero[id] # None
  /\ watermark # None
  /\ xero[id].upd <= watermark - Overlap

(* What the docstring of engine.py promises: whatever a pull missed, the   *)
(* watermark makes the next one ask for again.                             *)
WatermarkCoversMirror == \A id \in Ids : ~Hole(id)

(* It is kept, whatever pulls overlap, crash, raise or write older rows    *)
(* over newer ones, until a failed page is taken for the end of the list,  *)
(* a page cap cuts a list off, a pull outlasts half the overlap, Xero      *)
(* lists the records in another order during a pull, or the proxy, asked   *)
(* for the active ones, leaves out one that the pull should see.           *)
HolesHaveACause == causes = {} => WatermarkCoversMirror

(* What makes it inductive.  Nothing is newer than the clock, and unless   *)
(* a pull was slow none is older than MaxPull.                             *)
Timely ==
  /\ \A id \in Ids : xero[id] # None => xero[id].upd <= now
  /\ watermark # None => watermark <= now
  /\ \A w \in Workers :
       /\ \A id \in Ids : pull[w].rows[id] # None => pull[w].rows[id].upd <= now
       /\ pull[w].max # None => pull[w].max <= now
       /\ Running(w) => /\ pull[w].started <= now
                        /\ "slow_pull" \notin causes => now <= pull[w].started + MaxPull

\* A full entity has no watermark; an incremental one loses no record.
ModesApart ==
  /\ mode = "full" => watermark = None
  /\ mode = "incremental" =>
       \A id \in Ids : xero[id] = None =>
         mirror[id] = None /\ \A w \in Workers : pull[w].rows[id] = None

\* A row a pull holds is current, or was changed since that pull began.
HeldRowsAreRecent ==
  mode = "incremental" =>
    \A w \in Workers, id \in Ids :
      Running(w) /\ pull[w].rows[id] # None =>
        \/ pull[w].rows[id] = xero[id]
        \/ xero[id].upd >= pull[w].started

\* The pull of w has the record in hand or will still be served it.
Pending(w, id) ==
  /\ pull[w].since = None \/ xero[id].upd > pull[w].since
  /\ \/ pull[w].pc = "fetch" /\ Rank(order, id, List(w)) >= pull[w].page
     \/ /\ pull[w].pc = "fallback"
        /\ pull[w].rows[id] = xero[id] \/ Rank(order, id, Matching(None)) >= pull[w].proxy
     \/ /\ pull[w].pc = "upsert"
        /\ pull[w].rows[id] = xero[id] \/ Rank(order, id, List(w)) > pull[w].page

\* What a pull will not repair was changed at most MaxPull before it began.
PullsRepair ==
  causes = {} /\ mode = "incremental" =>
    \A w \in Workers, id \in Ids :
      Running(w) /\ mirror[id] # xero[id] =>
        Pending(w, id) \/ xero[id].upd >= pull[w].started - MaxPull

HoleInv == Timely /\ ModesApart /\ HeldRowsAreRecent /\ PullsRepair /\ HolesHaveACause

(* A pull that nothing disturbed leaves the mirror equal to Xero: always   *)
(* when it pulled everything, and when it was incremental if no hole was   *)
(* left before it.                                                         *)
QuietPullIsExact ==
  [][\A w \in Workers :
       /\ Finish(w)
       /\ disturbed[w] = {}
       /\ pull[w].since = None \/ causes = {}
       => mirror = xero]_vars

\* Nothing disturbed the pull of w so far, and no hole was left before it
\* unless it pulls everything.
Quiet(w) == Running(w) /\ disturbed[w] = {} /\ (pull[w].since = None \/ causes = {})

(* What makes it inductive.  The rows of a quiet pull are current, and what *)
(* the mirror has wrong the pull holds or will still be served; a full one  *)
(* has seen, or will, just the records there are, and has pruned the rest   *)
(* when it is about to finish.                                              *)
RowsAreCurrent(w) ==
  \A id \in Ids : pull[w].rows[id] # None => pull[w].rows[id] = xero[id]

Repairs(w) ==
  \A id \in Ids : xero[id] # None /\ mirror[id] # xero[id] => Pending(w, id)

SeesAll(w) ==
  \A id \in Ids : /\ id \in pull[w].seen => xero[id] # None
                  /\ xero[id] # None /\ id \notin pull[w].seen => Pending(w, id)
                  /\ pull[w].pc = "finish" => mirror[id] = xero[id]

\* A full pull asks for everything, and the proxy is asked in place of page one.
AsksForAll(w) ==
  Running(w) =>
    /\ mode = "full" => pull[w].since = None
    /\ pull[w].pc = "fallback" => pull[w].page = 1 /\ (mode = "full" => pull[w].proxy = 1)

QuietInv ==
  \A w \in Workers :
    /\ AsksForAll(w)
    /\ Quiet(w) => RowsAreCurrent(w) /\ Repairs(w) /\ (mode = "full" => SeesAll(w))

(* Undisturbed pulls never move the watermark back, forced full ones that  *)
(* start from no watermark included.                                       *)
WatermarkOnlyAdvances ==
  [][\A w \in Workers :
       /\ Finish(w)
       /\ disturbed[w] = {}
       /\ watermark # None
       => watermark' >= watermark]_vars

(* What makes it inductive.  The watermark, and what a pull will make it,   *)
(* is never ahead of Xero; an undisturbed pull holds or will be served all  *)
(* that is newer than the newest it has seen.                               *)
Reached(mark) ==
  mark # None => \E id \in Ids : xero[id] # None /\ xero[id].upd >= mark

Undisturbed(w) == Running(w) /\ disturbed[w] = {}

CatchesUp(w) ==
  /\ Reached(pull[w].max)
  /\ pull[w].since # None => pull[w].max # None /\ pull[w].max >= pull[w].since
  /\ \A id \in Ids : pull[w].rows[id] # None =>
                       xero[id] # None /\ xero[id].upd >= pull[w].rows[id].upd
  /\ Undisturbed(w) =>
       \A id \in Ids :
         /\ pull[w].rows[id] # None => pull[w].rows[id] = xero[id]
         /\ xero[id] # None => \/ Pending(w, id)
                               \/ pull[w].max # None /\ pull[w].max >= xero[id].upd

MarkInv == mode = "incremental" => Reached(watermark) /\ \A w \in Workers : CatchesUp(w)

(* The comment on pruning: what Xero no longer returns is deleted, and so  *)
(* nothing is that Xero still has.                                         *)
PruneOnlyWhatXeroLost ==
  [][\A w \in Workers, id \in Ids :
       Prune(w) /\ mirror[id] # None /\ mirror'[id] = None => xero[id] = None]_vars
=============================================================================
