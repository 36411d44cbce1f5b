------------------------------- MODULE Ledger -------------------------------
(***************************************************************************)
(* The documents the rules engine reads, and the small questions every     *)
(* check asks of one of them.                                              *)
(*                                                                         *)
(* A document is the record that tasks.py reshapes from Xero (invoice,     *)
(* bill, credit note, money in, money out, manual journal):                *)
(*   id, type, contact, name, number, ref, amount, status                  *)
(*   due, paid, alloc   what is left, paid and allocated (due may be None) *)
(*   date, dueDate, posted   days; posted is the day Xero last updated it  *)
(*   account, tax       the account and tax code of its first line         *)
(*   lines              sequence of [account, tax, amount, says, period]   *)
(*   says               what its free text says: a set of tags             *)
(*   period             the span of dates its free text names, or None     *)
(*   attached           TRUE, FALSE or None (not fetched)                  *)
(*   taxTotal           total tax                                          *)
(* A missing text is "", a missing number or date is None.  Free text is   *)
(* kept as the tags the keyword lists of the code can find in it.  A date  *)
(* is a day number in a calendar of twelve months of MonthDays days.       *)
(***************************************************************************)
EXTENDS Integers, Sequences, FiniteSets

CONSTANTS
    None,         \* a value that was not given
    MonthDays     \* days in a month of the calendar

ASSUME MonthDaysAssumption == MonthDays \in Nat \ {0}

CreditTypes == {"ACCRECCREDIT", "ACCPAYCREDIT"}
SalesTypes == {"ACCREC", "ACCRECCREDIT"}
PurchaseTypes == {"ACCPAY", "ACCPAYCREDIT"}
MoneyIn == {"RECEIVE"}
MoneyOut == {"SPEND"}
BankTypes == MoneyIn \cup MoneyOut
Journals == {"MANJOURNAL"}

OpenStatuses == {"AUTHORISED", "SUBMITTED"}
UnapprovedStatuses == {"DRAFT", "SUBMITTED"}

FixedTypes == {"FIXED", "FIXEDASSET"}
PureExpenseTypes == {"EXPENSE", "OVERHEADS", "DIRECTCOSTS"}
RevenueTypes == {"REVENUE", "OTHERINCOME", "SALES"}
ExpenseTypes ==
    {"EXPENSE", "DIRECTCOSTS", "OVERHEADS", "DEPRECIATN", "CURRENTASSET",
     "FIXEDASSET", "INVENTORY", "PREPAYMENT", "ASSET", "LIABILITY"}

Absolute(n) == IF n < 0 THEN -n ELSE n

Given(value, default) == IF value = None THEN default ELSE value

Lower(S) == CHOOSE x \in S : \A y \in S : x <= y

-----------------------------------------------------------------------------
(* One document.                                                           *)

\* Contacts are told apart by Xero's id, and by name where there is none.
ContactKey(d) == <<d.contact, IF d.contact = "" THEN d.name ELSE "">>

\* The lines of a document, or the flat fields of one that has none.
LinesOf(d) ==
    IF d.lines # <<>> THEN d.lines
    ELSE << [account |-> d.account, tax |-> d.tax, amount |-> d.amount,
             says |-> {}, period |-> None] >>

LineSet(d) == {LinesOf(d)[i] : i \in DOMAIN LinesOf(d)}

Outstanding(d) ==
    IF d.due # None THEN d.due
    ELSE d.amount - (Given(d.paid, 0) + Given(d.alloc, 0))

IsPaid(d) ==
    \/ d.status = "PAID"
    \/ d.due # None /\ d.due = 0 /\ d.amount > 0

\* Open for settlement: no status at all, or one of the open ones.
IsOpen(d) == d.status = "" \/ d.status \in OpenStatuses

-----------------------------------------------------------------------------
(* The organisation's chart of accounts and tax rates.  Org is a record:   *)
(*   accounts   [code -> [type, name]], name being a set of keyword tags   *)
(*   rates      None, or [code -> [expenses, revenue]] with each flag      *)
(*              TRUE, FALSE or None                                        *)

TypeOfAccount(org, code) ==
    IF code \in DOMAIN org.accounts THEN org.accounts[code].type ELSE ""

NameTags(org, code) ==
    IF code \in DOMAIN org.accounts THEN org.accounts[code].name ELSE {}

\* The account types a document of this direction may post to.
AllowedAccountTypes(type) ==
    IF type \in SalesTypes THEN RevenueTypes
    ELSE IF type \in PurchaseTypes THEN ExpenseTypes
    ELSE {}

\* The first of the values that occurs most often: Counter.most_common.
Dominant(values) ==
    LET given == SelectSeq(values, LAMBDA v : v # "")
        Count(v) == Cardinality({i \in DOMAIN given : given[i] = v})
        Leads(i) == \A j \in DOMAIN given :
                       \/ Count(given[j]) < Count(given[i])
                       \/ Count(given[j]) = Count(given[i]) /\ (i <= j \/ given[j] = given[i])
    IN IF given = <<>> THEN None ELSE given[CHOOSE i \in DOMAIN given : Leads(i)]

-----------------------------------------------------------------------------
(* A flag: what one check says of one document.  partner is the other      *)
(* document of a pair; original says which one the pair advises to keep;   *)
(* sure is the confidence in percent; line is the amount of the line;      *)
(* usual is the code the check suggests; by is the rule that took the flag *)
(* off its own card.                                                       *)

Flag(d, issue) ==
    [doc |-> d.id, issue |-> issue, partner |-> None, original |-> None,
     sure |-> None, line |-> None, usual |-> None, by |-> None]

FlagIf(condition, d, issue) == IF condition THEN {Flag(d, issue)} ELSE {}
=============================================================================
