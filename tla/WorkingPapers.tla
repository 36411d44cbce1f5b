--------------------------- MODULE WorkingPapers ----------------------------
(***************************************************************************)
(* The year-end screens of one company and what they are read from.        *)
(*                                                                         *)
(* Bank balances: the trial balance and the bank transactions of Xero, the *)
(* synced copies of the transactions, and what the accountant entered      *)
(* (services/bank_balance_service.py, unreconciled_bank_service.py,        *)
(* bank_annotations_service.py).  Opening balances: what Companies House   *)
(* holds, what was entered by hand and Xero's balance sheets; and the list *)
(* of invoices of a closed period, read in pages that Xero's users edit    *)
(* between (services/opening_balance_service.py).  The schedules are those *)
(* of YearEndSchedules.                                                    *)
(*                                                                         *)
(* Saving an entry is one step here: sessions that save at the same time   *)
(* are CompanyRequests.                                                    *)
(***************************************************************************)
EXTENDS YearEndSchedules

CONSTANTS
  Accounts,      \* bank accounts, each known by its code
  Periods,       \* period ends, as numbers
  Txns,          \* bank transactions
  Txn,           \* [account, type, amount] of each
  Stated,        \* balances a paper statement may show
  Figures,       \* net assets that may be entered by hand
  Histories,     \* filing histories Companies House may hold
  Sheets,        \* balance sheets of Xero: sequences of rows
  Tolerance,     \* bank_balance_tolerance
  Least,         \* opening_balance_min_difference
  Invoices,      \* invoices, as numbers
  Limit,         \* invoices on a page
  Pool,          \* documents that may be posted
  Chart,         \* chart of accounts of the documents
  YearEnd,       \* the year-end of the schedules
  Columns,       \* months of the year
  LeastMonths,   \* min_months_present
  MaxFilings,    \* filings that are read of a company
  MaxEdits       \* bounds: MaxEdits[k] changes of kind k

ASSUME PaperAssumption ==
  /\ Limit \in Nat \ {0} /\ Columns \in Nat \ {0}
  /\ MaxEdits \in [{"txn", "link", "house", "sheet", "day", "order", "invoice", "doc", "entry", "note"} -> Nat]
  /\ Invoices \subseteq Nat /\ Periods \subseteq Nat

TaggedFact == [concept : STRING, date : Int, value : Int]
Filing == [period : Int, facts : Seq(TaggedFact)]
SheetRow == [label : STRING, value : Int \cup {None}]

\* There are so many of each, and what stands for money is a number.
ASSUME FigureAssumption ==
  /\ None \notin Int
  /\ IsFiniteSet(Txns) /\ IsFiniteSet(Invoices)
  /\ \A t \in Txns : Txn[t].amount \in Int
  /\ Stated \subseteq Int /\ Figures \subseteq Int
  /\ Histories \subseteq Seq(Filing) /\ Sheets \subseteq Seq(SheetRow)
  /\ Tolerance \in Int /\ Least \in Int

\* What the schedules read of a document.
ASSUME PoolAssumption ==
  /\ YearEnd \in Int
  /\ \A d \in Pool :
       /\ d.date \in Int
       /\ d.period # None => IsSpan(d.period)
       /\ \A i \in DOMAIN d.lines :
            /\ d.lines[i].amount \in Int \cup {None}
            /\ d.lines[i].period # None => IsSpan(d.lines[i].period)

TxnStates == {"absent", "open", "matched", "void"}
Links == {"up", "down", "dead"}
Entries ==
  [excluded : SUBSET Accounts,              \* bank_balance.excluded
   hidden : SUBSET Accounts,                \* unreconciled.excluded
   ok : SUBSET (Accounts \X Periods),       \* bank_balance.marked_ok
   statement : [Accounts \X Periods -> Stated \cup {None}],
   registered : BOOLEAN,                    \* registration_number
   filed : [Periods -> Figures \cup {None}],
   dismissed : SUBSET Periods]
Notes == [account : Accounts, period : Periods, kind : {"note", "document"}]

VARIABLES
  xero,      \* xero[t]: transaction t as it stands in Xero
  mirror,    \* mirror[t]: the synced copy
  link,      \* how Xero answers: well, with an error, or that the token is dead
  choices,   \* what the accountant entered (audit_config)
  notes,     \* notes and documents kept with a bank account
  house,     \* the filing history at Companies House
  sheets,    \* sheets[p]: Xero's balance sheet at period end p
  screen,    \* the bank or opening balances being read, or last read
  invoices,  \* invoices[i]: [posted, place, closed] of invoice i: the day it was
             \* last edited, its place in Xero's list, whether dated in the period
  walk,      \* the pages of late invoices that were read
  documents, \* documents posted
  edits      \* edits[k]: changes of kind k so far; edits.day is today

vars == <<xero, mirror, link, choices, notes, house, sheets, screen, invoices, walk, documents, edits>>

Entered == <<choices, notes>>
Outside == <<xero, mirror, link, house, sheets, invoices, documents>>

-----------------------------------------------------------------------------
(* Bank accounts.                                                          *)

Signed(t) == IF Txn[t].type = "RECEIVE" THEN Txn[t].amount ELSE -Txn[t].amount

\* The balance of the account in Xero's trial balance.
Balance(state, a) ==
  MapThenSumSet(Signed, {t \in Txns : Txn[t].account = a /\ state[t] \in {"open", "matched"}})

\* The transactions of an account that a list of them shows as outstanding.
OutstandingOn(a, rows) ==
  {t \in Txns : /\ Txn[t].account = a /\ Txn[t].type \in {"RECEIVE", "SPEND"}
                /\ rows[t] = "open"}

\* What the check says of one account.  gl is None if the report had no
\* answer: then there is no difference, and nothing to add the lines to.
BankLine(a, period, read, gl, rows) ==
  LET stated == read.statement[<<a, period>>]
      lines == OutstandingOn(a, rows)
      difference == IF stated = None \/ gl = None THEN None ELSE stated - gl[a]
      ok == <<a, period>> \in read.ok
  IN [difference |-> difference,
      calculated |-> (IF gl = None THEN 0 ELSE gl[a]) + MapThenSumSet(Signed, lines),
      flagged |-> /\ \/ difference # None /\ Absolute(difference) > Tolerance
                     \/ lines # {}
                  /\ ~ok]

\* The accounts on the screen of unreconciled items.  Transactions that were
\* voided are counted here.
UnreconciledAccounts(rows, hidden) ==
  {a \in Accounts \ hidden :
     \E t \in Txns : /\ Txn[t].account = a /\ Txn[t].type \in {"RECEIVE", "SPEND"}
                     /\ rows[t] \in {"open", "void"}}

-----------------------------------------------------------------------------
(* Filed and reported net assets.                                          *)

\* A tagged document says the figure of a date: the canonical concept, or
\* the first of the others.  Facts are [concept, date, value].
TaggedFigure(facts, date) ==
  LET at == {i \in DOMAIN facts : facts[i].date = date}
      primary == {i \in at : facts[i].concept = "NetAssetsLiabilities"}
  IN IF at = {} THEN None
     ELSE facts[Lower(IF primary # {} THEN primary ELSE at)].value

\* The figure of one filing.  A document of one date is trusted whatever
\* the date; one that cannot be read has no facts.
FilingFigure(filing) ==
  LET dates == {filing.facts[i].date : i \in DOMAIN filing.facts}
  IN IF filing.period \in dates THEN TaggedFigure(filing.facts, filing.period)
     ELSE IF Cardinality(dates) = 1 THEN TaggedFigure(filing.facts, CHOOSE x \in dates : TRUE)
     ELSE None

\* What Companies House holds, by period: of the filings that are read,
\* newest first, the first that has a figure.
FiledFigures(history) ==
  [p \in Periods |->
     LET good == {i \in DOMAIN history : i <= MaxFilings /\ history[i].period = p
                                         /\ FilingFigure(history[i]) # None}
     IN IF good = {} THEN None ELSE FilingFigure(history[Lower(good)])]

\* Net assets on a balance sheet: the last row that is labelled so, or the
\* first total of the equity.  Rows are [label, value].
SheetFigure(sheet) ==
  LET Labelled(label) == {i \in DOMAIN sheet : sheet[i].label = label /\ sheet[i].value # None}
      net == Labelled("net assets")
      equity == Labelled("total equity")
  IN IF net # {} THEN sheet[CHOOSE i \in net : \A j \in net : j <= i].value
     ELSE IF equity # {} THEN sheet[Lower(equity)].value ELSE None

\* slip: what Companies House says replaces what was entered.
FetchedFirst(filed, fetched) ==
  [p \in Periods |-> IF fetched[p] # None THEN fetched[p] ELSE filed[p]]

\* The figures compared: those of Companies House, under those entered.
Collected(filed, fetched) ==
  [p \in Periods |-> IF filed[p] # None THEN filed[p] ELSE fetched[p]]

Differs(filed, reported) ==
  filed # None /\ reported # None /\ Absolute(filed - reported) >= Least

-----------------------------------------------------------------------------
(* Late invoices.                                                          *)

\* slip: the first posted come first.
Behind(list, i) ==
  {j \in Invoices : list[j].closed /\ (list[j].posted < list[i].posted
                                       \/ (list[j].posted = list[i].posted /\ list[j].place < list[i].place))}

\* Invoices before this one in the order of the list: posted on a later day,
\* or on the same day and listed before it by Xero.
Ahead(list, i) ==
  {j \in Invoices : list[j].closed /\ (list[j].posted > list[i].posted
                                       \/ (list[j].posted = list[i].posted /\ list[j].place < list[i].place))}

\* Invoices that share their day with another one.
Tied(list) == {i \in Invoices : \E j \in Invoices \ {i} : list[j].posted = list[i].posted}

\* A page of the invoices dated in the closed period.
LatePage(list, offset) ==
  {i \in Invoices : list[i].closed /\ Cardinality(Ahead(list, i)) \in offset .. offset + Limit - 1}

-----------------------------------------------------------------------------
Nothing == [t \in Txns |-> "absent"]
NoFigures == [p \in Periods |-> None]

Idle == [op |-> None, step |-> "idle", period |-> None, all |-> FALSE, read |-> None,
         known |-> {}, gl |-> None, rows |-> Nothing, figures |-> NoFigures,
         reported |-> NoFigures, todo |-> {}, shown |-> {}, connected |-> TRUE, whole |-> TRUE]

NoWalk == [offset |-> 0, total |-> 0, seen |-> {}, touched |-> {}, tied |-> {}, short |-> FALSE]

Init ==
  /\ xero = Nothing /\ mirror = Nothing
  /\ link = "up"
  /\ choices = [excluded |-> {}, hidden |-> {}, ok |-> {}, registered |-> FALSE,
                statement |-> [x \in Accounts \X Periods |-> None],
                filed |-> NoFigures, dismissed |-> {}]
  /\ notes = {}
  /\ house = <<>>
  /\ sheets = [p \in Periods |-> <<>>]
  /\ screen = Idle
  /\ invoices = [i \in Invoices |-> [posted |-> 0, place |-> i, closed |-> TRUE]]
  /\ walk = NoWalk
  /\ documents = {}
  /\ edits = [k \in DOMAIN MaxEdits |-> 0]

-----------------------------------------------------------------------------
(* What changes outside.                                                   *)

Counted(k) == edits[k] < MaxEdits[k] /\ edits' = [edits EXCEPT ![k] = @ + 1]

EditTxn(t) ==
  /\ Counted("txn")
  /\ \E state \in CASE xero[t] = "absent" -> {"open"}
                    [] xero[t] = "open" -> {"matched", "void"}
                    [] xero[t] = "matched" -> {"open"}
                    [] xero[t] = "void" -> {} :
       xero' = [xero EXCEPT ![t] = state]
  /\ UNCHANGED <<mirror, link, choices, notes, house, sheets, screen, invoices, walk, documents>>

\* The mirror is brought up to date (XeroMirror is how).
Sync ==
  /\ link = "up" /\ mirror # xero
  /\ mirror' = xero
  /\ UNCHANGED <<xero, link, choices, notes, house, sheets, screen, invoices, walk, documents, edits>>

Relink(l) ==
  /\ Counted("link") /\ l # link
  /\ link' = l
  /\ UNCHANGED <<xero, mirror, choices, notes, house, sheets, screen, invoices, walk, documents>>

Refile ==
  /\ Counted("house")
  /\ house' \in Histories \ {house}
  /\ UNCHANGED <<xero, mirror, link, choices, notes, sheets, screen, invoices, walk, documents>>

Restate(p) ==
  /\ Counted("sheet")
  /\ \E sheet \in Sheets : sheet # sheets[p] /\ sheets' = [sheets EXCEPT ![p] = sheet]
  /\ UNCHANGED <<xero, mirror, link, choices, notes, house, screen, invoices, walk, documents>>

DayPasses ==
  /\ Counted("day")
  /\ UNCHANGED <<xero, mirror, link, choices, notes, house, sheets, screen, invoices, walk, documents>>

\* Somebody edits an invoice in Xero, or moves its date across the end of
\* the closed period.  A walk under way remembers which (for the property).
EditInvoice(i, closed) ==
  /\ Counted("invoice")
  /\ invoices' = [invoices EXCEPT ![i] = [@ EXCEPT !.posted = edits.day, !.closed = closed]]
  /\ walk' = [walk EXCEPT !.touched = @ \cup {i},
                          !.short = @ \/ (invoices[i].closed /\ ~closed)]
  /\ UNCHANGED <<xero, mirror, link, choices, notes, house, sheets, screen, documents>>

\* Xero lists two of the invoices the other way round, as it may at any time:
\* no order is asked for.  A walk under way remembers the invoices that share
\* their day with another one.
Reorder(i, j) ==
  /\ Counted("order") /\ i < j
  /\ invoices' = [invoices EXCEPT ![i].place = invoices[j].place, ![j].place = invoices[i].place]
  /\ walk' = [walk EXCEPT !.tied = @ \cup Tied(invoices)]
  /\ UNCHANGED <<xero, mirror, link, choices, notes, house, sheets, screen, documents>>

Post(d) ==
  /\ Counted("doc")
  /\ documents' = documents \cup {d}
  /\ UNCHANGED <<xero, mirror, link, choices, notes, house, sheets, screen, invoices, walk>>

-----------------------------------------------------------------------------
(* What the accountant enters.                                             *)

Toggled(set, x, on) == IF on THEN set \cup {x} ELSE set \ {x}

\* Entries of the bank balance check: a balance, an exclusion, an OK.
SetStatement(a, p, balance) ==
  choices' = [choices EXCEPT !.statement[<<a, p>>] = balance]

ExcludeAccount(a, on) == choices' = [choices EXCEPT !.excluded = Toggled(@, a, on)]

MarkOk(a, p, on) == choices' = [choices EXCEPT !.ok = Toggled(@, <<a, p>>, on)]

\* The list of unreconciled items has exclusions of its own.
HideAccount(a, on) == choices' = [choices EXCEPT !.hidden = Toggled(@, a, on)]

\* Entries of the opening balances.
SetFiled(p, figure) == choices' = [choices EXCEPT !.filed[p] = figure]

SetRegistrationNumber(given) == choices' = [choices EXCEPT !.registered = given]

Dismiss(p, on) == choices' = [choices EXCEPT !.dismissed = Toggled(@, p, on)]

Enter ==
  /\ Counted("entry")
  /\ \/ \E a \in Accounts, p \in Periods :
          \/ \E balance \in Stated : SetStatement(a, p, balance)
          \/ \E on \in BOOLEAN : MarkOk(a, p, on)
     \/ \E a \in Accounts, on \in BOOLEAN : ExcludeAccount(a, on) \/ HideAccount(a, on)
     \/ \E p \in Periods, figure \in Figures : SetFiled(p, figure)
     \/ \E p \in Periods, on \in BOOLEAN : Dismiss(p, on)
     \/ \E given \in BOOLEAN : SetRegistrationNumber(given)
  /\ choices' # choices
  /\ UNCHANGED <<notes, screen, walk>> /\ UNCHANGED Outside

\* Notes and documents are kept with the account and the period.
Annotate(note) ==
  /\ Counted("note")
  /\ notes' = notes \cup {note}
  /\ UNCHANGED <<choices, screen, walk>> /\ UNCHANGED Outside

DeleteNote(note) ==
  /\ notes' = notes \ {note}
  /\ UNCHANGED <<choices, screen, walk, edits>> /\ UNCHANGED Outside

-----------------------------------------------------------------------------
(* Reading the bank balances: the entries, then the chart of accounts and  *)
(* the trial balance, then the transactions.                               *)

Reading(op, step) == screen.op = op /\ screen.step = step

\* One screen is open at a time: opening one leaves the last.
Open(op, step, period, all) ==
  /\ screen.step \in {"idle", "done"}
  /\ screen' = [Idle EXCEPT !.op = op, !.step = step, !.period = period,
                            !.all = all, !.read = choices]
  /\ walk' = NoWalk
  /\ UNCHANGED <<choices, notes, edits>> /\ UNCHANGED Outside

OpenBalances == \E p \in Periods, all \in BOOLEAN : Open("balances", "accounts", p, all)

\* A dead token ends the reading: the answer says it is not connected.
Disconnected == [screen EXCEPT !.step = "done", !.connected = FALSE, !.shown = {}]

\* Any other error reads as an empty chart of accounts.
ReadAccounts ==
  /\ Reading("balances", "accounts")
  /\ screen' = IF link = "dead" THEN Disconnected
               ELSE [screen EXCEPT !.step = "balances",
                                   !.known = IF link = "up" THEN Accounts ELSE {},
                                   !.whole = link = "up"]
  /\ UNCHANGED <<choices, notes, walk, edits>> /\ UNCHANGED Outside

\* ... and as no trial balance.
ReadTrialBalance ==
  /\ Reading("balances", "balances")
  /\ screen' = IF link = "dead" THEN Disconnected
               ELSE [screen EXCEPT !.step = "rows",
                                   !.gl = IF link = "up" THEN [a \in Accounts |-> Balance(xero, a)] ELSE None,
                                   !.whole = @ /\ link = "up"]
  /\ UNCHANGED <<choices, notes, walk, edits>> /\ UNCHANGED Outside

\* The synced transactions, or those of Xero if nothing is synced.
Rows(live) == IF mirror # Nothing THEN mirror ELSE live

ShownAccounts(read, period, all, known, gl, rows) ==
  {a \in known \ read.excluded : all \/ BankLine(a, period, read, gl, rows).flagged}

AnswerBalances ==
  LET rows == Rows(IF link = "up" THEN xero ELSE Nothing)
  IN /\ Reading("balances", "rows")
     /\ mirror = Nothing => link # "dead"
     /\ screen' = [screen EXCEPT !.step = "done", !.rows = rows,
                     !.whole = @ /\ (mirror = Nothing => link = "up"),
                     !.shown = ShownAccounts(screen.read, screen.period, screen.all,
                                             screen.known, screen.gl, rows)]
     /\ UNCHANGED <<choices, notes, walk, edits>> /\ UNCHANGED Outside

\* The list of unreconciled items has no chart and no report to read.
OpenItems == Open("items", "rows", None, FALSE)

AnswerItems ==
  LET rows == Rows(IF link = "up" THEN xero ELSE Nothing)
  IN /\ Reading("items", "rows")
     /\ mirror = Nothing => link # "dead"
     /\ screen' = [screen EXCEPT !.step = "done", !.rows = rows,
                     !.whole = mirror = Nothing => link = "up",
                     !.shown = UnreconciledAccounts(rows, screen.read.hidden)]
     /\ UNCHANGED <<choices, notes, walk, edits>> /\ UNCHANGED Outside

\* With nothing synced and a dead token the reading raises: no answer.
FailRead ==
  /\ screen.step = "rows" /\ mirror = Nothing /\ link = "dead"
  /\ screen' = Idle
  /\ UNCHANGED <<choices, notes, walk, edits>> /\ UNCHANGED Outside

-----------------------------------------------------------------------------
(* Reading the opening balances: the entries, what Companies House has,    *)
(* then the balance sheet of every period that has a figure.               *)

OpenOpening == \E all \in BOOLEAN : Open("opening", "filed", None, all)

\* Documents that cannot be fetched are passed over.
CollectFiled ==
  /\ Reading("opening", "filed")
  /\ \E lost \in SUBSET DOMAIN house :
       LET history == [i \in DOMAIN house |-> IF i \in lost THEN [house[i] EXCEPT !.facts = <<>>] ELSE house[i]]
           fetched == IF screen.read.registered THEN FiledFigures(history) ELSE NoFigures
           figures == Collected(screen.read.filed, fetched)
           periods == {p \in Periods : figures[p] # None}
       IN screen' = [screen EXCEPT !.figures = figures, !.todo = periods,
                       !.step = IF periods = {} THEN "done" ELSE "sheets",
                       !.whole = lost = {}]
  /\ UNCHANGED <<choices, notes, walk, edits>> /\ UNCHANGED Outside

\* The periods are read one at a time, newest first.
ReadSheet ==
  LET p == CHOOSE x \in screen.todo : \A y \in screen.todo : y <= x
  IN /\ Reading("opening", "sheets") /\ screen.todo # {}
     /\ screen' = IF link = "dead" THEN Disconnected
                  ELSE [screen EXCEPT !.todo = @ \ {p}, !.whole = @ /\ link = "up",
                          !.reported[p] = IF link = "up" THEN SheetFigure(sheets[p]) ELSE None]
     /\ UNCHANGED <<choices, notes, walk, edits>> /\ UNCHANGED Outside

AnswerOpening ==
  /\ Reading("opening", "sheets") /\ screen.todo = {}
  /\ screen' = [screen EXCEPT !.step = "done",
       !.shown = {p \in Periods : /\ Differs(screen.figures[p], screen.reported[p])
                                  /\ screen.all \/ p \notin screen.read.dismissed}]
  /\ UNCHANGED <<choices, notes, walk, edits>> /\ UNCHANGED Outside

-----------------------------------------------------------------------------
(* Late invoices: the first page, then one more at a time.  An error while *)
(* the invoices are fetched leaves the last pages of Xero's list out.      *)

CutShort == {{j \in Invoices : invoices[j].place < invoices[i].place} : i \in Invoices}

ReadLate(offset, before) ==
  /\ link # "dead"
  /\ \E got \in IF link = "up" THEN {Invoices} ELSE CutShort :
       LET list == [i \in Invoices |-> [invoices[i] EXCEPT !.closed = @ /\ i \in got]]
       IN walk' = [before EXCEPT !.offset = offset,
                     !.total = Cardinality({i \in Invoices : list[i].closed}),
                     !.seen = @ \cup LatePage(list, offset),
                     !.short = @ \/ got # Invoices]
  /\ UNCHANGED <<choices, notes, edits>> /\ UNCHANGED Outside

ShowLate ==
  /\ screen.step \in {"idle", "done"}
  /\ ReadLate(0, NoWalk)
  /\ screen' = Idle

ShowMore ==
  /\ walk.offset + Limit < walk.total
  /\ ReadLate(walk.offset + Limit, walk)
  /\ UNCHANGED screen

-----------------------------------------------------------------------------
Next ==
  \/ \E t \in Txns : EditTxn(t)
  \/ Sync
  \/ \E l \in Links : Relink(l)
  \/ Refile
  \/ \E p \in Periods : Restate(p)
  \/ DayPasses
  \/ \E i \in Invoices, closed \in BOOLEAN : EditInvoice(i, closed)
  \/ \E i, j \in Invoices : Reorder(i, j)
  \/ \E d \in Pool \ documents : Post(d)
  \/ Enter
  \/ \E note \in Notes \ notes : Annotate(note)
  \/ \E note \in notes : DeleteNote(note)
  \/ OpenBalances \/ ReadAccounts \/ ReadTrialBalance \/ AnswerBalances
  \/ OpenItems \/ AnswerItems \/ FailRead
  \/ OpenOpening \/ CollectFiled \/ ReadSheet \/ AnswerOpening
  \/ ShowLate \/ ShowMore

Spec == Init /\ [][Next]_vars

-----------------------------------------------------------------------------
(* Properties.                                                             *)

TypeOK ==
  /\ xero \in [Txns -> TxnStates] /\ mirror \in [Txns -> TxnStates]
  /\ link \in Links
  /\ choices \in Entries
  /\ notes \subseteq Notes
  /\ house \in Histories \cup {<<>>}
  /\ \A p \in Periods : sheets[p] \in Sheets \cup {<<>>}
  /\ DOMAIN screen = DOMAIN Idle
  /\ screen.shown \subseteq Accounts \cup Periods /\ screen.todo \subseteq Periods
  /\ \A i \in Invoices : invoices[i].posted \in 0 .. edits.day
  /\ walk.seen \subseteq Invoices /\ walk.touched \subseteq Invoices /\ walk.tied \subseteq Invoices
  /\ documents \subseteq Pool
  /\ \A k \in DOMAIN MaxEdits : edits[k] \in 0 .. MaxEdits[k]

Answered == screen.step = "done" /\ screen.connected

\* What an accountant reads as "nothing to do here": the account or the
\* period is not on the screen and it was not put aside.
Quiet(x) ==
  /\ Answered /\ x \notin screen.shown
  /\ CASE screen.op = "balances" -> x \in Accounts \ screen.read.excluded /\ <<x, screen.period>> \notin screen.read.ok
       [] screen.op = "items"    -> x \in Accounts \ screen.read.hidden
       [] screen.op = "opening"  -> x \in Periods \ screen.read.dismissed

\* An account has nothing open on it in the transactions that were synced,
\* and any balance entered for it is the one of the trial balance; the
\* figure of a period is the one of Xero's balance sheet, and the one the
\* accountant entered is the one compared.
Settled(x) ==
  CASE screen.op = "balances" ->
         /\ \A t \in Txns : ~(Txn[t].account = x /\ Txn[t].type \in {"RECEIVE", "SPEND"} /\ screen.rows[t] = "open")
         /\ screen.read.statement[<<x, screen.period>>] # None /\ screen.gl # None
              => Absolute(screen.read.statement[<<x, screen.period>>] - screen.gl[x]) <= Tolerance
    [] screen.op = "items" ->
         \A t \in Txns : ~(Txn[t].account = x /\ Txn[t].type \in {"RECEIVE", "SPEND"} /\ screen.rows[t] = "open")
    [] screen.op = "opening" ->
         LET figure == IF screen.read.filed[x] # None THEN screen.read.filed[x] ELSE screen.figures[x]
         IN figure # None /\ screen.reported[x] # None => Absolute(figure - screen.reported[x]) < Least

\* Where every report could be read, an account or a period that none of
\* the three screens shows, and that nobody put aside, is settled: whatever
\* was entered, synced, refiled or booked while it was read.
QuietMeansSettled == \A x \in Accounts \cup Periods : screen.whole /\ Quiet(x) => Settled(x)

\* The comment in list_differences: "A dead token surfaces as
\* NangoAuthError; report not-connected, never false "0"".  So too where
\* a report could not be read for another reason.
NeverAFalseZero == \A x \in Accounts \cup Periods : Quiet(x) => Settled(x)

\* "Show More" walks the whole list.  At its end every invoice of the closed
\* period that nobody edited meanwhile has been on a page, though edits move
\* others up the list between the pages; unless one was taken out of the
\* period, the list itself came short, or the invoice shares its day with
\* another one and Xero's order changed: the list is sorted by the day of the
\* last edit, and invoices of one day stay as Xero happens to list them.
ShowMoreMissesOnlyTies ==
  walk.total > 0 /\ walk.offset + Limit >= walk.total /\ ~walk.short =>
    \A i \in Invoices \ (walk.touched \cup walk.tied) : invoices[i].closed => i \in walk.seen

\* The same without the last exception; violated: one of two invoices of a day
\* slips behind the other, onto a page that was shown before, and is not seen.
ShowMoreMissesNothing ==
  walk.total > 0 /\ walk.offset + Limit >= walk.total /\ ~walk.short =>
    \A i \in Invoices \ walk.touched : invoices[i].closed => i \in walk.seen

\* Every month without a posting is reported exactly once for an account
\* that posts in most months, however the months lie, and no month that has
\* one ever is; of a regular account at least the last month is.
EveryGapIsReported ==
  LET year == YearMonths(YearEnd, Columns)
      found == MissingAccruals(documents, Chart, YearEnd, Columns, LeastMonths)
  IN \A c \in ExpenseCodes(Chart) :
       LET posted == {m \in year : \E d \in documents : MonthOf(d.date) = m /\ \E line \in LineSet(d) :
                        line.account = c /\ line.amount # None /\ line.amount > 0}
           of == {f \in found : f.code = c}
           reported == UNION {f.months : f \in of}
       IN /\ reported \cap posted = {} /\ reported \subseteq year
          /\ \A f, g \in of : f # g => f.months \cap g.months = {}
          /\ Cardinality(posted) >= LeastMonths => reported = year \ posted
          /\ "regular" \in NameTags(Chart, c) /\ MonthOf(YearEnd) \notin posted => MonthOf(YearEnd) \in reported

\* What is carried of a prepayment only ever runs down from one month to the
\* next, starts at no more than the whole, and by the end of the month its
\* term ends in is gone but for the rounding of its months.
PrepaidRunsOut ==
  \A x \in PrepaymentItems(documents, Chart) :
    LET line == x.doc.lines[x.line]
        period == ItemPeriod(x.doc, line)
        Left(m) == Carried(line.amount, period, (m + 1) * MonthDays - 1)
        months == MonthOf(period[1]) - 1 .. MonthOf(period[2])
    IN period # None /\ line.amount # None /\ line.amount > 0 =>
         /\ Left(MonthOf(period[1]) - 1) = line.amount
         /\ \A m \in months \ {MonthOf(period[2])} : Left(m + 1) <= Left(m)
         /\ 2 * Absolute(Left(MonthOf(period[2]))) <= TotalMonths(period)

\* "never release more than the whole prepayment": the figures of its months
\* in the grid add up to no more than the amount, but for their rounding.
GridReleasesTheWhole ==
  \A x \in PrepaymentItems(documents, Chart) :
    LET line == x.doc.lines[x.line]
        period == ItemPeriod(x.doc, line)
        cells == Cells(period, YearEnd, Columns)
    IN period # None /\ line.amount > 0 =>
         2 * (Cardinality(cells) * Monthly(line.amount, period) - line.amount) <= TotalMonths(period)
=============================================================================
