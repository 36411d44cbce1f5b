--------------------------- MODULE DocumentChecks ---------------------------
(***************************************************************************)
(* The checks that judge one document by itself: required fields, ages,    *)
(* tax codes against the chart of accounts and the direction of the        *)
(* document, vague and wrong-way accounts, capital items, prepayments,     *)
(* missing attachments and payees outside the payroll.                     *)
(*                                                                         *)
(* Every operator returns the set of flags its function appends.  set is   *)
(* the company's audit settings (a record), org its chart of accounts and  *)
(* the rest of what the audit fetched about it, today the day of the run.  *)
(***************************************************************************)
EXTENDS Ledger

-----------------------------------------------------------------------------
(* Required fields and ages: deterministic.py.                             *)

MissingTax(d) == \E line \in LineSet(d) : line.tax = ""

\* A code the organisation does not have; a missing one is reported alone.
TaxCodeFlags(d, org) ==
    LET unknown == /\ org.rates # None
                   /\ \E line \in LineSet(d) : line.tax \notin DOMAIN org.rates
    IN FlagIf(MissingTax(d), d, "missing_tax")
         \cup FlagIf(~MissingTax(d) /\ unknown, d, "invalid_tax_code")

\* A document without a number is a possible direct booking once authorised.
NumberFlags(d) ==
    LET booked == d.status \in {"AUTHORISED", "PAID"}
        issue == IF booked /\ d.type \in SalesTypes THEN "invoice_or_direct_booking"
                 ELSE IF booked /\ d.type \in PurchaseTypes THEN "bill_or_direct_booking"
                 ELSE "missing_invoice_number"
    IN FlagIf(d.number = "", d, issue)

FutureDated(d, today) == d.date > today

\* Age runs from the due date or from the document's own, as configured.
OldUnpaid(d, today, set) ==
    LET from == IF set.ageBasis = "due_date" THEN Given(d.dueDate, d.date) ELSE d.date
        grace == IF d.type \in SalesTypes THEN set.invoiceDays ELSE set.billDays
    IN /\ d.type \notin CreditTypes
       /\ IsOpen(d)
       /\ Outstanding(d) > 0
       /\ today - from >= grace

OldCredit(d, today, set) ==
    /\ d.type \in CreditTypes
    /\ Outstanding(d) > 0
    /\ today - d.date >= set.creditDays

\* The age of a draft runs from posted, the day Xero last updated it.
Unapproved(d, today, set) ==
    /\ d.status \in UnapprovedStatuses
    /\ d.type \in SalesTypes \cup PurchaseTypes
    /\ today - Given(d.posted, d.date) >= set.graceDays

InvalidStatus(d) ==
    \/ d.status = "PAID" /\ d.due # None /\ d.due > 0
    \/ d.status = "AUTHORISED" /\ Given(d.paid, 0) + Given(d.alloc, 0) > d.amount

SidedIssue(d, sale, purchase) == IF d.type \in SalesTypes THEN sale ELSE purchase

AgeFlags(d, today, set) ==
    FlagIf(OldUnpaid(d, today, set), d, SidedIssue(d, "old_unpaid_invoice", "old_unpaid_bill"))
      \cup FlagIf(Unapproved(d, today, set), d, SidedIssue(d, "unapproved_invoice", "unapproved_bill"))
      \cup FlagIf(OldCredit(d, today, set), d,
                  IF d.type = "ACCRECCREDIT" THEN "old_unsettled_sales_credit"
                                             ELSE "old_unsettled_purchase_credit")

\* _inspect_transaction: everything asked of an invoice, bill or credit note.
InspectTransaction(d, org, today, set) ==
    TaxCodeFlags(d, org)
      \cup FlagIf(d.name = "", d, "missing_vendor")
      \cup NumberFlags(d)
      \cup FlagIf(FutureDated(d, today), d, "future_dated")
      \cup AgeFlags(d, today, set)
      \cup FlagIf(InvalidStatus(d), d, "invalid_status_combo")

-----------------------------------------------------------------------------
(* Tax: checks/tax.py.                                                     *)

IsNoVatCode(tax) == tax \in {"NONE", "NOTAX", "NOVAT", "OUTSIDE"}

Ignored(d, contacts) ==
    \/ d.contact # "" /\ d.contact \in contacts
    \/ d.name # "" /\ d.name \in contacts

\* A line on an account of these types that carries a no-VAT code.
TaxMissing(d, types, byNature, org, set) ==
    /\ ~Ignored(d, set.taxIgnoreContacts)
    /\ \E line \in LineSet(d) :
          /\ line.account # ""
          /\ line.account \notin set.taxIgnoreAccounts
          /\ TypeOfAccount(org, line.account) \in types
          /\ NameTags(org, line.account) \cap byNature = {}
          /\ IsNoVatCode(line.tax)

\* Xero's own direction flag decides; a code it does not flag is read by name.
IsWrongForBill(tax, org) ==
    IF org.rates # None /\ tax \in DOMAIN org.rates /\ org.rates[tax].expenses # None
    THEN org.rates[tax].expenses = FALSE
    ELSE tax \in {"OUTPUT", "SALES", "ZERORATEDSUPPLIES", "EXEMPTOUTPUT", "GSTONIMPORTS"}

IsWrongForInvoice(tax, org) ==
    IF org.rates # None /\ tax \in DOMAIN org.rates /\ org.rates[tax].revenue # None
    THEN org.rates[tax].revenue = FALSE
    ELSE tax \in {"INPUT", "PURCHASE", "BASEXCLUSIVE", "EXEMPTINPUT"}

\* The account a line is judged by: its own, else the document's first.
AccountOfLine(d, line) == IF line.account # "" THEN line.account ELSE d.account

\* Output tax on a purchase, unless the line is a refund to a customer.
SalesTaxOnBill(d, org) ==
    /\ d.type \in PurchaseTypes \cup MoneyOut
    /\ \E line \in LineSet(d) :
          /\ line.tax # ""
          /\ IsWrongForBill(line.tax, org)
          /\ TypeOfAccount(org, AccountOfLine(d, line)) \notin RevenueTypes

\* Input tax on a sale, unless the line sits on an account that is not income.
PurchaseTaxOnInvoice(d, org) ==
    /\ d.type \in SalesTypes \cup MoneyIn
    /\ \E line \in LineSet(d) :
          /\ line.tax # ""
          /\ IsWrongForInvoice(line.tax, org)
          /\ TypeOfAccount(org, AccountOfLine(d, line)) \in RevenueTypes \cup {""}

\* The tax-missing pair is skipped for an organisation known not to charge VAT.
TaxFlags(d, org, set) ==
    (IF org.vatRegistered = FALSE THEN {}
     ELSE FlagIf(TaxMissing(d, ExpenseTypes, {"no_vat_by_nature"}, org, set), d, "purchase_tax_missing")
            \cup FlagIf(TaxMissing(d, RevenueTypes, {}, org, set), d, "sales_tax_missing"))
      \cup FlagIf(SalesTaxOnBill(d, org), d, "sales_tax_on_bills")
      \cup FlagIf(PurchaseTaxOnInvoice(d, org), d, "purchase_tax_on_invoices")

-----------------------------------------------------------------------------
(* Accounts: checks/coding.py, and the opening balances of checks/bank.py. *)

WrongDirection(d, org) ==
    LET allowed == AllowedAccountTypes(d.type)
        type == TypeOfAccount(org, d.account)
    IN d.account # "" /\ allowed # {} /\ type # "" /\ type \notin allowed

IsVague(code, org, set) ==
    code # "" /\ (code \in set.vagueCodes \/ "vague" \in NameTags(org, code))

Misallocated(d, org, set) ==
    \E line \in LineSet(d) :
       /\ line.amount # None
       /\ Absolute(line.amount) >= set.materiality
       /\ IsVague(line.account, org, set)

OpeningBalanceCodes(org) ==
    {"840"} \cup {code \in DOMAIN org.accounts : "opening" \in org.accounts[code].name}

\* Differs from the default the contact has for this side of the ledger.
DiffersFromDefault(d, used, sales, purchase) ==
    LET default == IF d.type \in SalesTypes \cup MoneyIn THEN sales ELSE purchase
    IN default # "" /\ used # "" /\ used # default

UnexpectedFlags(d, org) ==
    IF d.contact \notin DOMAIN org.defaults THEN {}
    ELSE LET def == org.defaults[d.contact]
         IN FlagIf(DiffersFromDefault(d, d.account, def.sales, def.purchase), d, "unexpected_account")
              \cup FlagIf(DiffersFromDefault(d, d.tax, def.salesTax, def.purchaseTax), d, "unexpected_tax_code")

\* The two that bank items go through as well.
CodingFlags(d, org, set) ==
    UnexpectedFlags(d, org) \cup FlagIf(Misallocated(d, org, set), d, "misallocated_item")

\* The two that look at invoices, bills and credit notes only.
PostingFlags(d, org) ==
    FlagIf(WrongDirection(d, org), d, "wrong_direction_account")
      \cup FlagIf(d.account \in OpeningBalanceCodes(org), d, "opening_balance_difference")

-----------------------------------------------------------------------------
(* Capital and revenue: checks/fixed_assets.py.                            *)

\* A line on a fixed-asset account that is too small to capitalise.
LowCostLines(d, org, set) ==
    {line \in LineSet(d) :
        /\ d.type \notin CreditTypes
        /\ line.account # "" /\ line.amount # None
        /\ TypeOfAccount(org, line.account) \in FixedTypes
        /\ Absolute(line.amount) > 0
        /\ Absolute(line.amount) < set.lowCostMax}

\* The accounts watched for capital items: those configured, or by name.
Monitored(code, org, set) ==
    IF set.capitalAccounts # {} THEN code \in set.capitalAccounts
    ELSE "capital" \in NameTags(org, code)

\* An expense line over the threshold that reads like the buying of an asset.
CapitalLines(d, org, set) ==
    {line \in LineSet(d) :
        /\ d.type \in {"ACCPAY", "SPEND", "MANJOURNAL"}
        /\ line.account # "" /\ line.amount # None
        /\ TypeOfAccount(org, line.account) \in PureExpenseTypes
        /\ Absolute(line.amount) > set.capitalMin
        /\ "revenue" \notin d.says \cup line.says
        /\ \/ Monitored(line.account, org, set)
           \/ "asset" \in d.says \cup line.says
           \/ d.name \in org.assetSuppliers}

LineFlags(d, issue, lines) ==
    {[Flag(d, issue) EXCEPT !.line = Absolute(line.amount)] : line \in lines}

CapitalFlags(d, org, set) ==
    LineFlags(d, "low_cost_fixed_asset", LowCostLines(d, org, set))
      \cup LineFlags(d, "capital_item_review", CapitalLines(d, org, set))

-----------------------------------------------------------------------------
(* Prepayments: checks/prepayments.py.                                     *)

MonthOf(day) == day \div MonthDays

DayOfMonth(day) == day % MonthDays

IsMonthEnd(day) == DayOfMonth(day) = MonthDays - 1

\* The first year-end on or after the day; yearEnd is its day in the year.
YearEndFor(day, yearEnd) ==
    LET year == 12 * MonthDays
        same == (day \div year) * year + yearEnd
    IN IF same >= day THEN same ELSE same + year

\* The span the text covers: dates it names, or twelve months for a keyword.
PeriodOf(d, line) ==
    IF line.period # None /\ d.period # None
    THEN <<Lower({line.period[1], d.period[1]}), -Lower({-line.period[2], -d.period[2]})>>
    ELSE IF line.period # None THEN line.period
    ELSE IF d.period # None THEN d.period
    ELSE IF "annual" \in d.says \cup line.says THEN <<d.date, d.date + 12 * MonthDays>>
    ELSE None

\* Whole months of the span after the year-end; two month-ends count whole.
MonthsAfter(yearEnd, last) ==
    LET months == MonthOf(last) - MonthOf(yearEnd)
        short == /\ DayOfMonth(last) < DayOfMonth(yearEnd)
                 /\ ~(IsMonthEnd(yearEnd) /\ IsMonthEnd(last))
        whole == IF short THEN months - 1 ELSE months
    IN IF whole < 0 THEN 0 ELSE whole

\* The months of the whole span, rounded to the nearest and at least one.
TotalMonths(period) ==
    LET months == (2 * (period[2] - period[1]) + MonthDays) \div (2 * MonthDays)
    IN IF months < 1 THEN 1 ELSE months

PrepaidLines(d, org, set) ==
    {line \in LineSet(d) :
        LET period == PeriodOf(d, line)
            yearEnd == YearEndFor(d.date, set.yearEnd)
        IN /\ d.type \notin CreditTypes
           /\ line.account # "" /\ line.amount # None
           /\ TypeOfAccount(org, line.account) \in PureExpenseTypes
           /\ Absolute(line.amount) > set.prepaymentMin
           /\ period # None
           /\ period[2] > yearEnd
           /\ MonthsAfter(yearEnd, period[2]) >= 1}

\* The part of a line estimated as prepaid, straight-line over the months.
PrepaidEstimate(d, line, set) ==
    LET period == PeriodOf(d, line)
    IN (MonthsAfter(YearEndFor(d.date, set.yearEnd), period[2]) * Absolute(line.amount))
         \div TotalMonths(period)

PrepaymentFlags(d, org, set) ==
    LineFlags(d, "prepayment_review", PrepaidLines(d, org, set))

-----------------------------------------------------------------------------
(* Attachments and payees: checks/documents.py and checks/payroll.py.      *)

\* A bill or a payment known to have nothing attached.
Undocumented(d, set) ==
    /\ d.type \in {"ACCPAY"} \cup MoneyOut
    /\ d.attached = FALSE
    /\ ~Ignored(d, set.undocumentedIgnore)
    /\ Absolute(d.amount) >= set.undocumentedMin
    /\ set.undocumentedTaxOnly => d.taxTotal # None /\ Absolute(d.taxTotal) > 0

\* A payment to somebody outside the payroll; silent when no payroll is known.
NonPayroll(d, org, set) ==
    LET payroll == org.employees \cup set.employeeNames
    IN payroll # {} /\ d.type \in MoneyOut /\ d.name # "" /\ d.name \notin payroll
=============================================================================
