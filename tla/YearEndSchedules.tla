-------------------------- MODULE YearEndSchedules --------------------------
(***************************************************************************)
(* The two year-end working papers that are computed from the documents:   *)
(* the months a regular expense is missing (checks/missing_accrual.py) and *)
(* the prepayments that remain (checks/prepayment_schedule.py).            *)
(*                                                                         *)
(* Documents, lines and the calendar are those of Ledger.  A month is a    *)
(* number; the year that ends on a day is its last columns months.  Money  *)
(* is in thousandths, the unit the schedule rounds to.                     *)
(***************************************************************************)
EXTENDS DocumentChecks, FiniteSetsExt

\* The months of the year that ends on the day, given its number of columns.
YearMonths(yearEnd, columns) == MonthOf(yearEnd) - (columns - 1) .. MonthOf(yearEnd)

\* The last year-end that is over: the year being closed.
ClosedYearEnd(today, yearEnd) ==
    LET year == 12 * MonthDays
        same == (today \div year) * year + yearEnd
    IN IF same <= today THEN same ELSE same - year

-----------------------------------------------------------------------------
(* Missing accruals.                                                       *)

ExpenseCodes(org) == {c \in DOMAIN org.accounts : org.accounts[c].type \in PureExpenseTypes}

\* slip: any line that touches the account counts as activity.
TouchedMonths(docs, code) ==
    {MonthOf(d.date) : d \in {x \in docs : \E line \in LineSet(x) : line.account = code}}

\* The months in which something was posted to the account.  A line that
\* takes an amount back is no activity.
PostedMonths(docs, code) ==
    {MonthOf(d.date) : d \in {x \in docs : \E line \in LineSet(x) :
        line.account = code /\ line.amount # None /\ line.amount > 0}}

\* The runs of consecutive months of a set, each as a set.
Runs(months) ==
    {p[1] .. p[2] : p \in {q \in months \X months :
        q[1] <= q[2] /\ q[1] .. q[2] \subseteq months
                     /\ q[1] - 1 \notin months /\ q[2] + 1 \notin months}}

\* What is said of one account: every gap before the last month if it posts
\* in most months, and the last month if it is regular at all.
AccrualFindings(docs, org, code, yearEnd, columns, least) ==
    LET year == YearMonths(yearEnd, columns)
        last == MonthOf(yearEnd)
        posted == PostedMonths(docs, code)
        often == Cardinality(posted \cap year) >= least
        gaps == IF often THEN Runs((year \ {last}) \ posted) ELSE {}
        regular == often \/ "regular" \in NameTags(org, code)
    IN {[code |-> code, months |-> g,
         reason |-> IF Cardinality(g) >= 2 THEN "large_gap" ELSE "missing_month"] : g \in gaps}
       \cup {[code |-> code, months |-> {last},
              reason |-> IF last + 1 \in posted THEN "post_year_cutoff" ELSE "final_month_missing"]
                : m \in IF regular THEN {last} \ posted ELSE {}}

MissingAccruals(docs, org, yearEnd, columns, least) ==
    UNION {AccrualFindings(docs, org, c, yearEnd, columns, least) : c \in ExpenseCodes(org)}

-----------------------------------------------------------------------------
(* The prepayment schedule.                                                *)

IsPrepaymentAccount(org, code) ==
    TypeOfAccount(org, code) = "PREPAYMENT" \/ "prepay" \in NameTags(org, code)

\* The lines of bills and of money spent that are posted to a prepayment
\* account.  The status of the document is not read.
PrepaymentItems(docs, org) ==
    {[doc |-> x[1], line |-> x[2]] : x \in
        {p \in UNION {{d} \X DOMAIN d.lines : d \in docs} :
            /\ p[1].type \in {"ACCPAY"} \cup MoneyOut
            /\ p[1].lines[p[2]].account # ""
            /\ IsPrepaymentAccount(org, p[1].lines[p[2]].account)}}

\* The dates a text names are sorted: a span never ends before it begins.
IsSpan(period) == period \in Int \X Int /\ period[1] <= period[2]

\* The span an item covers: that of its own description, or of the reference
\* of the document if the line has none.
ItemPeriod(d, line) ==
    IF line.says = {} /\ line.period = None THEN PeriodOf(d, line)
    ELSE PeriodOf([date |-> d.date, says |-> {}, period |-> None], line)

\* A quotient rounded to the nearest, halves away from zero.
Rounded(a, b) ==
    LET size == (2 * Absolute(a) + b) \div (2 * b) IN IF a < 0 THEN -size ELSE size

Monthly(amount, period) == Rounded(amount, TotalMonths(period))

\* slip: the month the day is in is not counted.
ReleasedBefore(period, day) ==
    LET months == MonthOf(day) - MonthOf(period[1])
    IN IF months < 0 THEN 0
       ELSE IF months > TotalMonths(period) THEN TotalMonths(period) ELSE months

\* Whole months released up to the day, never more than the term.
ReleasedMonths(period, day) ==
    LET months == MonthOf(day) - MonthOf(period[1]) + 1
    IN IF months < 0 THEN 0
       ELSE IF months > TotalMonths(period) THEN TotalMonths(period) ELSE months

\* The columns an item has a figure in: every month its span touches.
Cells(period, yearEnd, columns) ==
    YearMonths(yearEnd, columns) \cap (MonthOf(period[1]) .. MonthOf(period[2]))

\* What an item leaves on the account; one that covers no span leaves it all.
Carried(amount, period, yearEnd) ==
    IF period = None THEN amount
    ELSE amount - Monthly(amount, period) * ReleasedMonths(period, yearEnd)

\* The sum of what the items leave.  ledger is the balance read from the
\* trial balance, or None: then what was posted stands in for it.
PrepaymentSchedule(docs, org, yearEnd, ledger) ==
    LET items == PrepaymentItems(docs, org)
        Line(x) == x.doc.lines[x.line]
        Amount(x) == Given(Line(x).amount, 0)
        Left(x) == Carried(Amount(x), ItemPeriod(x.doc, Line(x)), yearEnd)
        balance == MapThenSumSet(Left, items)
        against == IF ledger # None THEN ledger ELSE MapThenSumSet(Amount, items)
    IN [balance |-> balance, ledger |-> against, reconciled |-> Absolute(against - balance) <= 1000]
=============================================================================
