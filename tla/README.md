# Formal models of the Eazycapture health-check backend

The backend mirrors a company's Xero ledger into Postgres, runs bookkeeping
checks over it in Celery workers, and keeps the findings as rows that users
resolve, dismiss, snooze or write back to Xero.  The modules in this directory
model the parts of it where several processes, several transactions or an
unreliable network meet, and the checks themselves.  They are translated from
the source; each definition is listed with its lines in `PROJECT.json` under
`map`, and the hazards the properties are aimed at under `hazards`.

## The system

| Component | State it keeps | Operations | What makes it correct |
| --- | --- | --- | --- |
| Issue-feed rows (`healthcheck/repository.py`, `resolve_service.py`, `contact_defaults_service.py`) | `health_check_result`, a JSON `result` per row with flags and user marks | dismiss, snooze, accept, restore, resolve, bulk, contact dismissals | one row per document; a user's decision is not lost; only what was checked is hidden |
| Historical audit (`healthcheck/tasks.py`) | five transactions on the rows; a progress hash in Redis; an `audit_batch` row | fetch, rules in chunks, persist, auto-clear | the feed shows what the last run found; a run ends in one state |
| Audit dispatch and progress (`audit_service.py`, `celery_app.py`) | `audit_batch`, Redis meta, the queue | dispatch, poll, redelivery, time limits | every dispatched audit reaches a final state, with its results |
| Xero mirror (`integrations/sync`) | `xero_document`, `xero_sync_state`, `sync:active`, `needs_reconnect` | pull (incremental or full), nightly fan-out, refresh | nothing Xero changed is skipped for good; nothing Xero has is deleted; what is shown about a sync is true and ends |
| Nango client and actions (`integrations/nango`, `nango-integrations/xero`) | none | list pages, update, create credit note, retry | an error is not mistaken for an answer |
| Organisation lifecycle (`nango/routers.py`, `healthcheck/routers.py`) | `company`, `excluded_tenant`, connections | connect, webhook, disconnect, reconnect, remove, re-allow, nightly reconcile | the firm has the orgs of its grants, once each |
| Xero write path (`resolve_service.py`, `attachment_service.py`, `apply_ai_fix_service.py`) | Xero documents and the row | resolve, void, credit note, attach, apply | a row is resolved only if Xero was changed; nothing else in Xero is |
| Pre-ledger firewall (`batch_router.py`) | pre-ledger rows | evaluate a batch, record what is blocked | one row per blocked document |
| Rule configuration (`company_config.py`, `audit_settings.py`) | one JSON column of `company` | read-modify-write by several endpoints | no entry is lost |
| Rules engine (`engine/`, `checks/`) | none | judge documents, pairs, contacts; merge | no flag hidden behind one that is gone; no advice that loses the last copy |
| Year-end screens (`bank_balance_service.py`, `opening_balance_service.py`, `prepayment_schedule_service.py`) | entries in the configuration, notes | list differences, mark, exclude, page through late invoices, schedules | what is not shown is settled |
| Auth, tenancy, notifications (`auth/routers.py`, `multi_tenant.py`, `notifications/`) | users, assignments, sign-up codes, the mail log | sign up, invite, accept, assign, disable, enable, remove, delivery events | who is in and who sees what is what the admin said |
| AI layer (`ai/`, `reenrich_service.py`) | `health_check_ai` keys | prewarm, sweep, enrich on demand | a note is about its own document and its present issues |
| Reports, insights, demo | caches, logs | reads and texts | see `PROJECT.json`, `components` |

Components meet in three ways: Celery tasks chained by name (a pull dispatches
an audit, an audit a prewarm of the notes), the database (READ COMMITTED, sessions with
`autoflush=False` and `expire_on_commit=False`), and Redis (progress hashes and
the `sync:active` flag).  Nothing serialises two tasks of one company.

What is hard here: a row is read in one step and its whole JSON written in a
later one, by audits and requests at the same time; a failed request of Xero
looks like an empty page; a write to Xero and the commit that records it are
two steps; work is split into commits that a crash can separate; tasks are
redelivered; flags expire; mail events come in any order.

## Modules

| Component | Module | TLC instance | Proofs |
| --- | --- | --- | --- |
| Issue-feed rows | `TrappedRows` | `MCTrappedRows` | `TrappedRowsProofs` |
| One entity's pull | `XeroMirror` | `MCXeroMirror` | `XeroMirrorProofs` |
| The sync task | `SyncTask` | `MCSyncTask` | `XeroMirrorProofs` |
| Audit, dispatch to outcome | `AuditRun`, implementing `AuditOutcome` | `MCAuditRun` | `AuditRunProofs` |
| Organisations | `OrgLifecycle` | `MCOrgLifecycle` | `OrgLifecycleProofs` |
| Writes to Xero | `XeroWrites` | `MCXeroWrites` | `XeroWritesProofs` |
| Configuration, bulk actions, blocked documents | `CompanyRequests` | `MCCompanyRequests` | `CompanyRequestsProofs` |
| Users, access, mail log | `TeamAccess` | `MCTeamAccess` | `TeamAccessProofs` |
| Rules | `Ledger` <- `DocumentChecks` <- `DocumentSets` <- `ContactChecks` <- `RulesEngine` | `MCRulesEngine` | `LedgerProofs` |
| Year-end screens | `YearEndSchedules` (on `DocumentChecks`) <- `WorkingPapers` | `MCWorkingPapers` | `LedgerProofs` |
| AI notes of rows | `AiNotes` | `MCAiNotes` | `TrappedRowsProofs` |

`A <- B`: `B` extends `A`.  Three modules of proofs are about two components
each, whose names are kept apart for that (`TaskSpec`, `EngineSpec`, `NotesSpec`
beside a `Spec`).

### `TrappedRows` — the rows of the issue feed

One company's table, its audits and its users' requests.  `rows` is the table;
`seen[p]` is what session *p* loaded and will write back; `stage`, `plan`,
`todo` and `missing` are the local variables of an audit between its
statements; `request` those of a user request.  An audit is `Evaluate` (fetch
and rules: what it evaluated, which chunks failed, what it flagged),
`SelectDocument` for each flagged document, `PersistCommit`, then
`SelectStale`/`ClearCommit` for what it evaluated and no longer flags, and
`AuditFails` at any point.  A request is `BeginRequest` or
`BeginContactRequest`, then `CommitRequest`, `InsertDismissed` or
`AbandonRequest`; `Bulk` locks before it loads and is one step.  Result flags
are a set of marks, the flagged issues a set of issue types; what the flags say
is left out.

Checked: `SecondRowNeedsOverlap`, `OnlyStaleCopiesLoseDecisions`,
`ClearsOnlyWhatItFetched`, `ScopedRunKeepsOtherIssues` and `LatestRunWins`.

Nothing in the schema or in the code keeps two audits of a company apart
(`render.yaml` runs Celery with `--concurrency=2`, `docker-compose.yml` with a
pool), and two that overlap may each insert a row for one document.
`SecondRowNeedsOverlap` says that nothing else gives a document a second row:
all the rows it has were written by somebody else while the audit that adds one
was running.  So audits that follow one another, redelivered, failed half-way or
after any snoozes, clears and decisions, always find the row there is.
`touched[w]`, the rows others committed during the audit of w, is the observer.

### `XeroMirror` — one entity of the mirror

`xero` is the environment, `mirror` the `xero_document` rows, `watermark` and
`status` the state row, `pull[w]` the local variables of `sync_entity` in
worker *w*.  Each request to Xero, each commit and each failure is a step.  The
model serves one record to a page, in an `order` that no request asks for and
Xero may change at any time (`Reorder`).  A full entity follows
`_fetch_payments` (its proxy fallback is the first page only), an incremental
one `_inc_fb` (its fallback pulls every page; that of the contacts does so
inside one call, with a cap of its own).  Entities that do not page (accounts,
tax rates, the organisation) have no order: everything comes at once, from the
action all of it, from the proxy only what is `active` (`ProxyAll`).  Of the state
row's columns only the watermark and the status are kept.  Not modelled: a
contact that is archived leaves Xero's default list, as nothing sends
`includeArchived`, and keeps the row it had.

Checked: `HolesHaveACause`: as long as no page failed unnoticed, no cap was hit,
no pull was slow, Xero did not change the order during a pull and the proxy left
no inactive record out, every record the mirror has wrong is newer than the
watermark less the overlap, whatever pulls overlap.  The last two causes are
holes of the code like the first: an archived account that the proxy leaves out,
or a record that moves to a page already read, is passed by the watermark and
not asked for again.  `QuietPullIsExact`: a
pull during which nothing moved, and that gave up no page and left no record
out, leaves the mirror equal to Xero; a quiet pull of the accounts through the
proxy is exact only when none of those it asks for is archived.
`WatermarkOnlyAdvances`: nor does it move the watermark back, which a pull that another one or Xero got in
the way of may do, as it writes the newest record it saw over whatever is there.

### `SyncTask` — the tasks around the pulls

A task of a company pulls all entities at once, each in its own session; then
it settles `needs_reconnect`, dispatches the audit and clears `sync:active`.
`task[t]` is where a task is (queued, pulling, settling, chaining, ...),
`pull[t][e]` where its pull of an entity is and how it ended, `status[e]` the
state row that `/sync-status` reads, `flag` the key in Redis that the Refresh
button sets and every task clears, `valid` the consent in Xero and `needs` what
the company's row says of it, `unaudited` the entities whose changes no audit
has been dispatched for.  `Tap`, `Nightly` and the connect hook start tasks;
`SoftLimit`, `HardLimit`, `Crash` and redelivery end or repeat them; `Create`
of a state row that another task created meanwhile fails on the unique index.
What a pull does to documents is `XeroMirror`; here it is the outcomes `ok`,
failed, cut off, or refused for want of consent.

Checked: `InProgressIsTrue` and, under fairness, `EveryPullIsToldOver`,
`HealthCatchesUp` and `ChangesAreAudited`: the flags of overlapping tasks
cannot contradict the facts for ever.  Deadlock is checked.

### `AuditRun` and `AuditOutcome` — dispatch, task, outcome

The batches of one company.  `dispatch`, `message` and `task` say where a batch
is: in a dispatching process, with the broker, in a worker.  `row` is
`audit_batch.status` (`None` once the company is gone, which deletes it),
`meta` the status in the Redis hash: `"untold"` when the hash expired in the
queue and was recreated by a stage report, which writes no status.  A write of
the hash is HSET and then EXPIRE, two steps: `ttl` says that the hash has an
expiry, `owes` that a worker has yet to set one (an EXPIRE that only prolongs
one is not a step).  `saved` are
the committed parts of the results.  `historical_audit_task` is one action per
transaction, report or read, in the order of the code; `Raise` is an exception
(or the soft limit) at any of them, `FailMeta` and `FailRow` the handler,
`HandlerFails` a handler that cannot write.  `Crash`, `HardLimit`, `Redeliver`
and `Expire` are the environment.  `Crash` is the death of the whole worker,
whose message is delivered again; a process lost under its worker is, like one
killed at the hard limit, acknowledged, `celery_app.py` setting `task_acks_late`
but not `task_reject_on_worker_lost`.  A part that has nothing to save (no
contacts, the accrual check disabled) counts as saved.  The progress stream is
one per batch, and the run opens that of one of its two batches (`Watched`).  An exception a step swallows, such as the soft limit inside a
chunk of rules, is the absence of `Raise`.

`AuditOutcome` is what the list of audits, the health score and the retention
of old audits rely on: a row starts in progress, results come in, it is
completed once it has those of the documents, and it may still fail.  It knows
no queue, worker or hash.  `AuditRun` implements it with `status <- row` and
`results <- saved` (`KeepsPromise`, checked by TLC and proved): whatever is
redelivered, killed or reported twice, the row and the results move as that
short module says.

Checked: `SettledAgree`: an audit that is over has one outcome in row and hash
and, if completed, all its results, unless its dispatch broke off, it was
killed or the handler failed; the death of the whole worker is not among the
exceptions.  `KeepsPromise`.  `EveryAuditSettles` and `EveryWatchEnds` are the
liveness side; the second has one exception, `undying`: a process that dies
between HSET and EXPIRE, and whose batch nobody takes up again, leaves a hash
in progress that Redis keeps, and its stream polls for ever.

### `OrgLifecycle` — the organisations of a firm

`company[t]` is the row of org *t* of one firm (its connection and whether it is
active), `excluded` the exclusions, `holder[u]` a user's connection.  `granted`
and `live` are Xero: whose consent made a connection, and the orgs it covers.
The connect handler (`Start` to `HookCommit`, one `HookSelect` per org) runs for
any connection ever granted, so a webhook may come late, twice, or beside a
`sync-connections` call.  The nightly task takes its connections from the users
(`RecStart`), visits one after the other (`RecListed`, `RecLoad`, `RecCommit`)
and ends at the first exception that leaves its loop.  A user request is `Ask`,
which loads the row, then its commit; `Revoke` is the call to Xero that
forgetting an org makes before.

A row a session inserts is flushed at once and locks its (firm, tenant) in the
unique index: `Insert` waits for another session's, `Conflict` is the error when
that one committed, `Deadlock` two sessions that wait for each other.  An UPDATE
writes the changed columns and is checked at the commit (`Gone`); one on a row
somebody else updated is two commits in either order.  `remove_company` reads
and writes the exclusion and deletes the row in its one transaction, the last
step.  `retired` only serves to tell a row from one created later for the same
org.  `busy[p]` is an observer for the properties.

Checked: `QuietReconcileIsExact`, `QuietConnectIsComplete`: a reconcile, or a
connect handler, that nobody disturbed leaves what its documentation says,
after whatever else happened before.  `RemovedReturnsTwoWays`: what is left of
the promise that a removed org stays out.  A connect handler brings it back only
if it read the exclusions before the removal; otherwise the nightly task alone
does, which reads none, and only an org its connection covers, or did when Xero
was asked.
`ReconcileDiesOnlyOfSharing`: the nightly task breaks off only for work at the
same time or for an org that has its row on another connection of the firm; the
second is no race: two users who consented to the same org make it happen every
night, and the connections behind are not visited.  `RevokedGoesInactive` is
the liveness side, with that case excluded.

### `XeroWrites` — requests that write to Xero

Documents at Xero (`xero[d]`: status, lines with an account and a tax code,
amount due, credit notes, file), their rows (`row[d]`), and the requests at work on them.  A
request reads the lines (`Fetch`), writes through the action (`Write`) and
through the proxy if that failed (`Proxy`), or makes a credit note (`Source`,
`Create`, `Allocate`), or files an attachment (`File`), and then commits
(`Commit`, or `CommitFails`).  Each call may be refused, take effect without
the answer arriving, or fail; people edit and pay the documents meanwhile, and
the company may be removed.  `stale[r]` says that r's document changed since r
read it, `loose[d]` that a request on d ended with the row open, `blind` that a
request took a failed call for done; they are observers.  Of a suggestion only
what `apply_ai_fix_service` can apply is kept; the language model may suggest
anything.  A recode goes into the field of a line that the code belongs to
(`With`), on the lines whose *account* is among the flagged codes (`Reached`);
the tax rules flag tax codes, so that theirs meet no line.  `ResolvedIsInXero`
excuses the lines of such a finding, `NoFalseSuccess` does not.

Checked: `ResolvedIsInXero`, `OtherLinesSurvive`,
`SecondNoteHasACause`.

### `CompanyRequests` — requests that change what is kept of a company

Sessions that save a section of the configuration column (`Load`, then
`SaveSection`, or `PutConfig` of the configuration screen), mark many rows (one
lock after the other in the order the client sent, then one commit), or log
blocked documents of a pre-ledger batch (one SELECT per transaction, then the
INSERTs at the commit). `holder[w]` are the row locks, `Deadlock` is Postgres
ending a cycle, `news[r]` an observer of what others committed since r began.

Checked and proved: `SaveKeepsOtherSections`, `SecondRowNeedsOverlap`; proved
only: `DecisionsAccumulate`; checked under fairness: `EveryRequestAnswers`.

### `Ledger`, `DocumentChecks`, `DocumentSets`, `ContactChecks`, `RulesEngine` — the rules

The checks are operators that return the flags their function appends: of one
document (required fields, ages, tax codes, vague and wrong-way accounts,
capital items, prepayments, attachments, payroll payees), of documents together
(duplicates within a contact and across contacts, direct settlements, habits,
outliers), of contacts.  Free text is the set of tags that the keyword lists
find in it, days are numbers, similarity of names is a given table.

`RulesEngine` runs them as `tasks.py` and `orchestrator.py` do: the listing is
reshaped, cut into chunks, every chunk goes through all checks and may fail,
flags of items on the asset register are dropped, the rest put into their
hierarchy.  A ledger is a list of Xero's documents with distinct ids, each with
the day Xero last updated it.  Between audits days pass and the client pays,
approves, edits and voids documents, also on the advice of a duplicate
flag (`keeper` remembers in favour of which).  What the model finds anomalous is
any subset of the candidates.

Checked: `NothingIsOrphaned` (a flag demoted in favour of another needs the
other to be there), `LastCopySurvives` (no sequence of advice, audits, payments
and edits leaves a group of duplicates without a copy),
`SweepMissesOnlyAcrossChunks` (the sorted sweeps of all chunks against all pairs
of the whole ledger: what stands in one chunk is compared, what the end of a
chunk keeps apart is not).  `duplicates.py` says "identical results to all-pairs"
of one call, and an audit makes one call per 200 documents: two copies of a bill
on either side of such a border are never compared, and which these are depends on
the order of the listing (`SweepMissesNothing`, violated: the run's `ChunkSize` is
three and its series of four bills has its last two within the window).

### `TeamAccess` — users, access and the mail log

`users`, `firms`, `access` are tables; `otp` the sign-up codes in Redis; `log`
and `mails` what the backend and the provider know of a mail; `req[r]` what a
request has read.  Sign-up (with and without a code), invite, resend, accept,
assign, disable, enable and remove read in one step and commit in another,
inserts before deletes, and fail as a whole.  A mail is sent and recorded after
the commit; events about it come with or without the provider's id, in any
order, also before the record.  `MayEnter` is the guard of the routes of one
company, `AllowedCompanies` that of the views across companies.  `past` is an
observer.

Checked: `OnlyParkedLackPassword`, `RevokedStaysOut`,
`AccessIsAsGranted`, `RowsFollowTheirMails`.

### `YearEndSchedules`, `WorkingPapers` — the year-end screens

`YearEndSchedules` has missing accruals and the prepayment schedule as
operators.  `WorkingPapers` reads the screens step by step, one report after
the other, over `xero`, its `mirror`, Companies House (`house`), balance sheets
and the entries, all of which change in between; `link` says whether Xero
answers, answers with an error (which reads as an empty report) or refuses the
token.  `walk` is the paging through invoices of a closed period, each page cut
from a list fetched anew and sorted by the day of the last edit (`edits.day` is
today; invoices of one day stay in the order in which Xero lists them).  An edit
sets the day; `Reorder` exchanges the places of two invoices in Xero's list, which
may happen at any time as no order is asked for.  Simplifications: an account is
its code, a year has twelve months of `MonthDays` days, the trial balance has no
date, one screen is open at a time, fetching one list is one step (what goes wrong
between the pages of one fetch is `XeroMirror`), saving an entry is one step (the
interleavings of saves are `CompanyRequests`).

Checked: `QuietMeansSettled`, `ShowMoreMissesOnlyTies`, `EveryGapIsReported`,
`PrepaidRunsOut`.  `ShowMoreMissesOnlyTies` exempts, besides what was edited, the
invoices that shared their day with another one when Xero's order changed: of two
edited on one day the one that was next can slip behind the other, onto a page
already shown, and is then on none (`ShowMoreMissesNothing`, violated).

Worth knowing when reading the screens: the unreconciled list counts voided
transactions and the reconciliation does not; the schedules read no document
status, so drafts and voided bills are in them, as are bills dated after the
year-end; an OK is tied to an account code and a period, not to what was seen.

### `AiNotes` — what the notes beside the rows were written from

`Apart` are the contacts and accounts among the documents; `enabled` is the setting
LLM_CHECKS_ENABLED together with a key.
`rowOf[d]` is `TrappedRows`' row reduced to its issues, `note[d]` the facts that
the key of *d* was written from, `job[j]` a job: an audit with the prewarm task
it queues at its end, a sweep over rows without a note, a reader.  A job carries
facts from the moment it read them (`all`, `todo`, `ready`) and nothing makes it
read them again; `InHand(j)` is what it will still write from.  `Answer` takes
any answers in any order; they are lined up with the rows asked about, a row
without one is passed over (`Skip`), the others are written one by one (`Write`).
`Die`, `Crash`, `TimeOut` and `WriteFails` are what may go wrong.  The rows an
audit or a sweep lists come in some order nothing depends on (`SetToSeq`).

An audit commits transactions (`Persist`), and hands the rows it inserted or
re-scored to its last step; then the contacts and the accounts, apart
(`PersistApart`), which it does not hand on.  That step queues a prewarm
(`Prewarm`) where the model is switched on, and nothing otherwise (`NoPrewarm`);
a sweep's task then returns at once (`TurnedAway`), while a reader asks all the
same.  Dismissing a contact that has no row makes one (`DismissContact`).

Checked: `NotesAreOfTheirDocument`.  `NotesAreUpToDate` names the ways an open row
can have no note, or one about other issues than it has.  Something was `lost`
(an answer, a write, a job).  It was `moved`: its issues changed with no prewarm to
follow, by a duplicates-only audit, because it is of a contact or an account
(tasks.py:1610-1678, 1705-1754: these never enter the list of the prewarm), or
because the model was switched off.  Or another job was `late` with older facts.
None of these can be left out of the property.  A sweep repairs those without any
note and no other; the note of a contact or an account that was re-scored is
stale until the row is opened with `force` or the note runs out.

## Runs and bounds

| Run | Instance | Result |
| --- | --- | --- |
| `rows` | a transaction with two issues, a contact, an account; two workers, one user, two audits with at most one document in a failed chunk, two requests | holds |
| `mirror` | three records in lists of at most two pages, two workers, two pulls, one failure, two changes in Xero of which one may be of the order (one change where all three records are there); and two records that come all at once, each active or not, with one change | holds |
| `audit` | a full and a duplicates-only audit, one worker, two faults | holds |
| `org` | two orgs, connections, users and handlers, one request, three events | holds |
| `writes` | an invoice with two lines (or none) and a bank transaction, two requests at a time | holds |
| `writes_false` | the same | violation of `NoFalseSuccess` |
| `requests` | two sections, two rows listed in both orders, a document under two ids, two sessions at a time, three requests | holds |
| `sync` | two entities, two tasks at a time, one fault, one change of the consent | holds |
| `checks` | seven families of ledgers with up to four documents, chunks of three, two days | holds |
| `team` | four scenes: sign-up, invitation, a bounced invitation, a member whose access changes; three users, two addresses, two companies, two requests at a time | holds |
| `papers` | eight scenes of screens, and every subset of a year's regular bills; five invoices of three days in pages of two, two edits, one more day and one change of order | holds |
| `notes` | two transactions and a contact, two issues, three audits (two with their prewarm at a time), a sweep or a reader, one fault, the model on or off | holds |

Every bound is a constant named `Max...` (`ChunkSize`, `LastDay` and `Limit` are
parameters of the code or the length of time) and appears in a guard only
(`MaxSkipped` limits the documents in failed chunks).

Two audits are what a row needs to be inserted, hidden and met again; two
requests what it takes to interleave with each other and with an audit.
`MCFewRequests` lets `rows` go on with one request where a chunk failed or two
documents were flagged, with no failed chunk where the account was, and with no
request where account and contact were; `MCFewInOverlap` lets the two audits
overlap on one flagged document, without failed chunks and before any request.
With more the run takes longer than is useful to repeat; the theorems hold
without these bounds.  `MCFirstWorkerFirst` starts the first worker first; the
two are interchangeable.

Two pulls overlap or follow each other; the initial state of `XeroMirror` is
either never synced or in step, so an incremental pull is met at once.
`mirror` uses an overlap of one second and counts a pull as slow when the clock
ticks during it: the smallest numbers with `2 * MaxPull < Overlap`.  With a cap of
two pages it takes three records for the cap to cut a list off;
`MCLongListChangesOnce` allows one change while all three are there, two otherwise,
and two records with one change where there are no pages.  `MCMovesToTheEnd` lets
the order change only during a pull and by a record that moves to the end, as an
edited one does in a list by date of update: with two pages that is what puts
another record on the page already read.

Two faults let a worker die and the second run raise, or the handler of a first
exception fail; two audits on one worker queue behind each other and share the
removal of their company.

`MaxEvents` in `org` counts the consents, changes of a grant, handlers and
requests that start.  Three are a consent, its webhook and one thing beside it,
or, as the initial state may already hold the orgs of one grant, three things
beside the nightly task, which is not counted and runs on.  `MCOrgLifecycle`
fixes which connection, user and org the initial grant has; they are
interchangeable.

`writes` starts from the three rules whose suggestions differ in kind (void the
duplicate, anything the language model says about a tax finding, approve a
draft); a recode asks for the codes no flagged line has, an edit takes a line
away or moves it to the other account (`MCFewCodes`); two requests are
two attempts on one document, a retry after a failure, or two documents that
are each other's duplicates.  In `requests`, two rows listed as `<<w1, w2>>` and
`<<w2, ghost, w1>>` make a lock cycle; a third request comes after one of two
overlapping ones has ended.  In `sync`, one fault is a tap that fails, a limit
or a dead worker, and one change of the consent a grant or its withdrawal while
pulls that saw the other answer are on their way.

`team`, `checks` and `papers` begin in scenes: lists of beginnings, each of which
makes one group of operations meet while counters at their bounds keep the
others out.  The union of the scenes takes every action.  `team` needs the
bounced invitation as a beginning because an invite, its bounce, a resend and
the late events of both mails are otherwise out of reach of two mails.

Three audits change a document's issues, change them again and prewarm while a
job with the first facts is under way.  `MCFew` takes them with either a fault or a
sweep or opening, and where the contact has a row stops at two audits and one
transaction: the kinds of rows share jobs and nothing else.  In `notes` the two audits that may be at
work together are interchangeable, which the run's symmetry uses.

Deadlock is checked in `org`, `sync`, `checks` and `team`, where something can
always happen.  In the other runs it is not: those systems stop when the bounds
are used up.

## Fairness

It is assumed in `AuditRun`, `OrgLifecycle`, `SyncTask` and `CompanyRequests`.
In `AuditRun` it is weak throughout: a dispatch begun and a task taken proceed
(they are straight-line code; a stuck call is a `HardLimit`, which is a fault
and needs none), a queued message is taken when a worker is free (the broker's
queue is first in, first out), the visibility timeout, the expiry of a hash and
the half-second loop of a stream come round.  Whether a dispatch starts, a fault
happens or a company is removed is left open.

In `OrgLifecycle` sessions that have begun proceed, the beat starts the task
every night and its loop goes through its connections (weak); a connection that
is in turn again and again is not unreachable every time (`RecListed(c)`,
strong).  The strong condition is a statement about Xero and the token, not
about the code: without it an org could stay active for ever, which is what the
code chooses when it cannot reach Xero.  Consents, changes and requests are left
open.

In `SyncTask` a task proceeds (weak, in whatever order of its entities), the
beat comes round every night (weak) and the key in Redis expires (weak, its
time to live).  Taps, faults and changes of the consent are left open.

In `CompanyRequests` a session that can go on does (weak): the event loop runs
every handler, and Postgres looks for lock cycles after a second.

## Theorems

All are proved for any values of the constants, under the assumptions named in
the modules (that `None` is none of the values, that bounds are numbers; the
others are listed at the end of the section).  They cover every property of the
runs but those that need fairness.

`TrappedRowsProofs` proves `TypeOK` (with `SessionsAgree`: a loaded row still
exists and is of the same document), `SecondRowNeedsOverlap` (with
`MissingIsNew`: the rows of a document whose SELECT found none were all written
by others since),
`OnlyStaleCopiesLoseDecisions` and `ClearsOnlyWhatItFetched` (with
`ClearsAreStale`: what an audit is about to clear, or has loaded to clear, is
among what it evaluated and does not flag).  `ScopedRunKeepsOtherIssues` needs
only that a scoped audit flags nothing but duplicates (`FindsDuplicates`).
`LatestRunWins` is a statement about the last step of an audit and rests on all
of them: `WinInv` says at each step what of the audit's findings is in the rows
already and what the rows it holds and those it has still to look up will put
there (`InWork`, `Selected`, `Gathered`, `Persisted`, `AccountsHidden`), of every
row no other session has touched since the audit began.

`XeroMirrorProofs` proves `TypeOK` and `HolesHaveACause`, with
`2 * MaxPull < Overlap`.  `HolesHaveACause` is not inductive: that the watermark
may advance at the end of a pull depends on what the pull will still be served.
`HoleInv` adds the clock (`Timely`), that the rows a pull holds are current or
were changed since it began (`HeldRowsAreRecent`), and that what a pull will not
repair was changed at most `MaxPull` before it began (`PullsRepair`): an
overlapping pull can write a row that old over a newer one.  That is where the
factor two comes from, and why the 60 seconds of the source are 30 seconds for
two overlapping pulls.  Pages are ranks in a list under any order (`Orders`, injective in the records);
the lemmas `RankInList` and `RankGrows` say that a record not yet served is not
skipped when others join the list, and `ReorderStep` and `ProxyAllStep` that the
two other ways to skip one leave their cause.

`QuietPullIsExact` follows from `QuietInv` together with `HoleInv`: the rows of
a pull nothing disturbed are current (`RowsAreCurrent`), what the mirror has
wrong it holds or will still be served (`Repairs`), and a full one has seen, or
will see, just the records there are (`SeesAll`), which is what makes its
pruning right.  `WatermarkOnlyAdvances` is proved from the two and `MarkInv`: no watermark is
ahead of the newest record in Xero (`Reached`, kept by whatever pulls overlap),
and an undisturbed pull holds or will be served all that is newer than the
newest it has seen (`CatchesUp`), so at its end it has seen a record at least as
new as the watermark, whoever wrote that one meanwhile.  The two need that a
list the page cap cuts off counts as a disturbance of its own pull, also when
another pull met the cap before.

`AuditRunProofs` proves `TypeOK`, `CompletedHasResults`, `SettledAgree` and the
refinement of `AuditOutcome` (`RefinementTheorem`).  `AuditInv` makes them
inductive: a message is taken while exactly one worker runs it (`OneRunner`), a
run's step tells what it has committed, told and recorded (`InOrder`), and the
row of a dispatched batch goes only with the company (`RowsRemain`).  All steps
but the removal of the company touch one batch: `LocalStep`, `TaskStep` and
`TaskEnds` reduce the proof of each action to what it does to that batch.

`OrgLifecycleProofs` proves `TypeOK` (with `Connects`: a session at work has a
connection), `QuietReconcileIsExact`, `QuietConnectIsComplete`,
`ReconcileDiesOnlyOfSharing` and `RemovedReturnsTwoWays`.  Each speaks of one
commit, but rests on everything the session did since it asked for its list:
`Knowing` says of a session that is not `busy` that its list is still the grant, its exclusions the
table, the rows it loaded the rows there are, and that every org of the list is
loaded, inserted, excluded or still to come (`HookKnows`, `RecKnows`).  A step
is one session's own or it leaves the others as they are, or marks them busy;
`FrameStep` splits them once for all.  `ReconcileDiesOnlyOfSharing` comes from
`Knowing` too: a reconcile that is not `busy` and whose orgs are not shared inserts
only what is not in the table, so no constraint can fail.  `Skipping` (what a
handler still looks up, wants or has inserted meets none of the exclusions it
read) is what `RemovedReturnsTwoWays` needs besides.

`XeroWritesProofs` proves `ResolvedIsInXero`, `OtherLinesSurvive` and
`SecondNoteHasACause` from one invariant, `WriteInv`: which steps each operation
has (`Stages`); unless its document was written by somebody else, a request at
its write holds the lines as they are and one at its commit got what it wants
(`Sound`); and a note on a row that is open and was never left open belongs to a
request still at work (`NotesOK`).  A write that took effect without its answer
is repeated through the proxy; `Sound` survives that because merging the
recoded lines into themselves changes nothing.  That a recode leaves no flagged
line as it was (`MergedIs`) is so for flagged accounts only, and because no tax
code is an account's (`CodeAssumption`).

`CompanyRequestsProofs` proves `TypeOK`, `SaveKeepsOtherSections`,
`DecisionsAccumulate` and `SecondRowNeedsOverlap`.  `RequestInv` relates what a
session remembers to what is committed: what it read of the configuration is the
configuration unless there is news (`ReadIsCurrent`), a document it found
without a row has none unless there is news (`MissingIsUnlogged`), and the rows
it has marked are locked by it, with its action applied to what is committed
(`MarkedIsLocked`).

Of `SyncTask`, `XeroMirrorProofs` proves `TaskTypeOK` and `InProgressIsTrue`, with
`OnlyPullingFetches`: a task that has left its pulls has none at its pages, so
that cutting it off leaves nothing in progress.

`TeamAccessProofs` proves the types, `OnlyParkedLackPassword` and
`RevokedStaysOut`.  `TeamInv` says what a request under way knows of its user:
ids are never used again, so the row it read is this user's if it still exists
(`Informed`); who has no password is invited or was disabled before he accepted
(`PasswordsOK`); the log names users who exist (`LogOK`).  `PeopleInv` adds that
addresses and invitation tokens are one person's, and what entitles a request
under way to what it will write (`Entitled`); with it come `TypeOK` and
`NoEmptyFirm`.  `AccessIsAsGranted` is `AccessInv`: an assignment has read every
row it must delete unless another one crossed it (`ReadsAll`), and no row is of
a user or company that is gone (`RowsAreReal`).  `RowsFollowTheirMails` is
`MailInv`: until a mail's row is committed no row has its code, and its mail has
heard no event that did not go astray (`RecordOK`, `OwnMails`).

`LedgerProofs` proves, of `WorkingPapers`, `TypeOK` and all four properties of
its run.  What a screen shows agrees with everything it read before, step by step
(`ScreenAgrees`), so `QuietMeansSettled` is a statement about one screen and the
figures it holds; that an account whose transactions are all settled has nothing
outstanding needs that a sum over transactions is the same in whatever order
they are taken, shown by a least set for which it would not be.  For
`ShowMoreMissesOnlyTies` the invariant is `WalkCovers`: an invoice nobody edited that
has not been on a page has all the pages shown so far ahead of it (`WalkGoesOn`).
An edited invoice gets today as its day, the last there is, and keeps its place
among those of today, so whatever it was ahead of it stays ahead of
(`AheadGrows`); another order of Xero's list changes nothing for an invoice that
has its day to itself (`AheadIsKept`).
`EveryGapIsReported` holds of any documents: every month without a posting lies in
one maximal run of such months, and two runs that share a month are the same.
`PrepaidRunsOut` is arithmetic: a rate rounded to the nearest misses the amount by
half a unit a month at most, and a term is no longer than the months its span
touches.  The theorems are about `Spec`, which begins with nothing entered; the
run begins in scenes to reach the same states sooner.

Of `RulesEngine` it proves `EngineTypeOK`, `NothingIsOrphaned`, `LastCopySurvives`
and `SweepMissesOnlyAcrossChunks`.  A check puts its flags on their own cards, and only the
checks of pairs advise to keep one of two documents (`OnItsCard`, `Plain`);
dropping and demoting flags leaves each one standing by itself or under one that
stands (`Stands`).  Grouping keeps the order of the list and sorting puts it in
order of a key, equal keys as they were (`Within`, `Comes`): a sorted sweep that
breaks off at the window has passed every pair inside it (`ListIsSwept`), and a
chunk compares the documents of the whole ledger that stand in it
(`LedgerMembers`).  For `LastCopySurvives`
the advice of one audit is always to keep the document that comes earlier in one
order of the whole listing (paid first, then day posted, date, place: `Earlier`,
`WellAdvised`); a document that an audit sees cannot have been voided before it.
So the documents voided before the last audit (`Older`) are settled among
themselves, and those voided since have a rank that falls from each to the one it
was voided for (`SettledBy`): no set of voided documents names only its own.  That
order needs every document to have a day of last update (`LedgersAssumption`):
documents without one are compared by other fields, and of three of which one has
none each could be the one to void for the next.

Of `AiNotes`, `TrappedRowsProofs` proves `NotesTypeOK`, `NotesAreOfTheirDocument` and
`NotesAreUpToDate`.  `NotesInv` says that a job writes about nothing it was not
started with (`InOrder`), that what a job has in hand is what the row says now,
unless a named cause excuses the row (`HandsAreCurrent`), and that every row, open
or closed, has a note about its present issues, a job past its listing that holds
them, a listing that holds them while the row has no note, or an excuse
(`RowsAreCovered`).  The third is what makes the property inductive: a sweep drops
what it listed if a note has appeared meanwhile, and that note is then current or
the row excused.  A step of one job is `JobMovesOn`: what it had in hand it still
has, has written, or has lost; a step of the rows is `RowsMoveOn`, and the rows that
get no prewarm are excused by it.

Sorting and grouping are written out in `DocumentSets` (`InOrder`, `Sublist`)
because of `SortSeq` and `SelectSeq` the prover knows the types only.

The assumptions that are more than the type of a bound: `FigureAssumption` (finitely
many transactions and invoices, amounts in integers, a missing figure is no
number), `PoolAssumption` (dates and amounts are numbers, a span does not end
before it begins: the code sorts the dates it finds), `LedgersAssumption` (above),
`DocumentsAssumption` (finitely many documents), `ApartAssumption` (contacts and
accounts are documents), `CodeAssumption` (no tax code is an
account's).  TLC evaluates each on the run of its module.

Only model-checked: what needs fairness (`EveryAuditSettles`, `EveryWatchEnds`,
`RevokedGoesInactive`, `EveryPullIsToldOver`, `HealthCatchesUp`,
`ChangesAreAudited`, `EveryRequestAnswers`), which is out of the prover's reach.
Every other property that a run shows to hold is a theorem.

## Disagreements with the documentation

One is kept as a run.

- `writes_false`: a failed call to Xero may be taken for done, and the row is
  resolved although nothing changed there (`create_credit_note`, and the
  header-only update after a failed read of the lines); or a recode for a tax
  rule looks for the flagged tax code among the accounts of the lines, posts
  them as they were and is done.

Others are stated as properties in their modules and are violated when they are
added to the run of the module:

| Property | Module | What happens |
| --- | --- | --- |
| `OneRowPerDocument` | `TrappedRows` | two overlapping audits insert a row each; a contact dismissed while an audit inserts its row has two |
| `AuditsKeepDecisions` | `TrappedRows` | an audit writes back a row it loaded before the user's decision |
| `ClearsOnlyWhatItChecked` | `TrappedRows` | documents of a failed chunk are taken as checked, and their rows cleared |
| `WatermarkCoversMirror` | `XeroMirror` | a failed page ends the loop as an empty one would, and the watermark passes it |
| `PruneOnlyWhatXeroLost` | `XeroMirror` | the same in a full pull prunes records Xero still has |
| `TerminalStatusIsFinal` | `AuditRun` | a failure after completed was declared turns it into failed |
| `RemovedStaysRemoved` | `OrgLifecycle` | the nightly task does not read the exclusions |
| `EntriesSurviveConfigScreen` | `CompanyRequests` | saving the configuration screen writes the whole column and with it erases what the other screens entered |
| `ReportedIsDone` | `CompanyRequests` | a bulk request that is the victim of a lock cycle loses its transaction and still reports the rows before as done |
| `SyncingMeansWork` | `SyncTask` | a pull cut off by a limit leaves its entity in progress until the next task |
| `SweepMissesNothing` | `RulesEngine` | copies on either side of a chunk's end are never compared |
| `DraftsAgeByInvoiceDate` | `RulesEngine` | the age of a draft is counted from the day Xero last updated it |
| `ActiveMeansPassword` | `TeamAccess` | disabling and enabling an invited user skips the invitation |
| `ShowMoreMissesNothing` | `WorkingPapers` | of two invoices last edited on one day one slips behind the other, onto a page already shown |
| `GridReleasesTheWhole` | `WorkingPapers` | a span that starts in mid-month has one cell more than its term has months |
| `NeverAFalseZero` | `WorkingPapers` | a transport error reads as an empty report, shown as connected with nothing to list |

Properties that hold and are not repeated in a run: the type invariant of each
module, `CompletedHasResults`, `DecisionsAccumulate` and `NoEmptyFirm` (all
proved), `AgeFlagsStay`.

## Plan

1. An abstract feed that `TrappedRows` implements while audits do not
   overlap, and a list of active orgs that `OrgLifecycle` implements between
   nightly tasks.
2. `SyncTask` and `XeroMirror` composed, so that a cut-off pull and the
   watermark are one state.
3. The flag behind the spinner of the Insights
   page, which every refresh deletes; the counters of a batch enriched through
   the API, which count a row opened on demand twice; the activity log.

## Not modelled

Prompts, the text of answers, the progress of a batch enriched through the API,
the checks that ask the language model and the categorisation of invoices;
reports and the panorama (read-only aggregation); the arithmetic of the
insights and the refreshing of their snapshot; demo data, migrations.  Of the
modelled parts: login, tokens and rate limits; templates and channels of mail; the reshaping of mirrored payloads on reading; names,
shortcodes and what is dispatched after a commit in the organisation lifecycle;
updates of contacts in Xero.  `PROJECT.json` gives the reason for each under
`components`.
