----------------------------- MODULE RulesEngine -----------------------------
(***************************************************************************)
(* The rules engine as an audit runs it, beside the ledger that goes on    *)
(* changing: the listing is cut into chunks, every chunk goes through all  *)
(* the checks, flags of items already on the asset register are dropped    *)
(* and the rest are put into their hierarchy.  Between two audits days     *)
(* pass and the client pays, approves, edits and voids documents.          *)
(***************************************************************************)
EXTENDS ContactChecks

CONSTANTS
    Ledgers,       \* [books, company]: what a behaviour may start from
    ChunkSize,     \* documents in one chunk (200 in the code)
    LastDay        \* the last day of a behaviour

ASSUME RulesAssumption ==
    ChunkSize \in Nat \ {0} /\ LastDay \in Nat /\ None \notin BOOLEAN \cup Int

VARIABLES
    books,     \* Xero's documents, in the order it lists them
    company,   \* [org, set, contacts]: fixed reference data and settings
    today,     \* the current day
    seen,      \* the last audit: its day, whether it lost no chunk, and
               \* whether the documents are still the ones it saw
    flags,     \* the flags the last audit left
    keeper     \* [voided document -> the document it was voided in favour of]

engineVars == <<books, company, today, seen, flags, keeper>>

Org == company.org
Set == company.set

-----------------------------------------------------------------------------
(* From Xero to the batch.  A document in Xero is a record                 *)
(*   id, kind ("document", "credit note", "bank" or "journal"), type,      *)
(*   contact, name, number, ref, total, status, amountDue, remaining,      *)
(*   paid, alloc, date, dueDate, updated, lines, says, period, attached,   *)
(*   taxTotal                                                              *)

RawFields ==
    {"id", "kind", "type", "contact", "name", "number", "ref", "total", "status", "amountDue",
     "remaining", "paid", "alloc", "date", "dueDate", "updated", "lines", "says", "period",
     "attached", "taxTotal"}

\* Xero stamps every document with the day it was last updated.
IsRaw(raw) ==
    /\ DOMAIN raw = RawFields
    /\ raw.kind \in {"document", "credit note", "bank", "journal"}
    /\ raw.date \in Int \cup {None} /\ raw.updated \in Int

\* Xero's lists: no two documents have one id.
IsLedger(list) ==
    /\ list \in Seq(DocsOf(list))
    /\ \A i, j \in DOMAIN list : list[i].id = list[j].id => i = j
    /\ \A i \in DOMAIN list : IsRaw(list[i])

ASSUME LedgersAssumption ==
    \A start \in Ledgers : IsLedger(start.books) /\ start.company.set.dupWindow \in Int

Skipped == {"DELETED", "VOIDED"}

\* What the reshaping lets through: never a voided document; of the bank only
\* money in or out with a contact; of the journals only manual ones.
Audited(raw) ==
    /\ raw.id # ""
    /\ raw.status \notin Skipped
    /\ raw.kind = "bank" => raw.type \in BankTypes /\ raw.contact # ""
    /\ raw.kind = "journal" => raw.type \in Journals /\ raw.lines # <<>>

\* Credit notes may come without a type, and are taken for sales credits.
BatchType(raw) ==
    IF raw.kind = "credit note" /\ raw.type = "" THEN "ACCRECCREDIT" ELSE raw.type

\* A bill without a reference is identified by its number.
BatchReference(raw) ==
    IF raw.ref = "" /\ BatchType(raw) \in PurchaseTypes THEN raw.number ELSE raw.ref

LargestLine(raw) ==
    -Lower({-Absolute(raw.lines[i].amount) : i \in DOMAIN raw.lines})

\* The day a document was updated is handed on as the day it was posted.
Reshape(raw, day) ==
    LET first(field) == IF raw.lines = <<>> THEN "" ELSE raw.lines[1][field]
        isDocument == raw.kind \in {"document", "credit note"}
        unless(missing, value, default) == IF value = missing THEN default ELSE value
    IN [id |-> raw.id, type |-> BatchType(raw),
        contact |-> IF raw.kind = "journal" THEN "" ELSE raw.contact,
        name |-> IF raw.kind = "journal" THEN "Manual journal" ELSE unless("", raw.name, "Unknown"),
        number |-> IF isDocument THEN raw.number ELSE "",
        ref |-> IF raw.kind = "journal" THEN "" ELSE BatchReference(raw),
        amount |-> IF raw.kind = "journal" THEN LargestLine(raw) ELSE unless(None, raw.total, 0),
        status |-> IF raw.kind = "journal" THEN "" ELSE raw.status,
        due |-> IF isDocument THEN unless(None, raw.amountDue, raw.remaining) ELSE None,
        paid |-> IF isDocument THEN raw.paid ELSE None,
        alloc |-> None,
        date |-> unless(None, raw.date, day),
        dueDate |-> IF isDocument THEN raw.dueDate ELSE None,
        posted |-> IF raw.kind = "journal" THEN None ELSE raw.updated,
        account |-> first("account"),
        tax |-> IF raw.kind = "journal" THEN "" ELSE first("tax"),
        lines |-> raw.lines, says |-> raw.says, period |-> raw.period,
        attached |-> raw.attached, taxTotal |-> raw.taxTotal]

Listing(raws, day) ==
    LET audited == Sublist(raws, {i \in DOMAIN raws : Audited(raws[i])})
    IN [i \in DOMAIN audited |-> Reshape(audited[i], day)]

docs == Listing(books, today)

-----------------------------------------------------------------------------
(* One chunk: run_batch_health_check.                                      *)

Only(list, types) == Sublist(list, {i \in DOMAIN list : list[i].type \in types})

Without(list, types) == Sublist(list, {i \in DOMAIN list : list[i].type \notin types})

\* The documents dated before the day the company set are left out.
Floor(list) ==
    Sublist(list, {i \in DOMAIN list : Set.ignoreBefore = None \/ list[i].date >= Set.ignoreBefore})

\* The documents that are compared with each other.
LedgerOf(chunk) == Without(Floor(chunk), BankTypes \cup Journals)

Each(list, Check(_)) == UNION {Check(d) : d \in DocsOf(list)}

\* The amounts out of line: the language model picks some of the candidates
\* as anomalies; when it is off or its call fails they stand as they are.
AnomalyFlags(ledger, picked) ==
    LET candidates == OutlierFlags(ledger, Set)
    IN IF picked = None THEN candidates
       ELSE {[f EXCEPT !.issue = "anomaly"] : f \in {g \in candidates : g.doc \in picked}}

\* Everything the checks say of a chunk, the disabled rules taken out.
RunBatch(chunk, day, picked) ==
    LET floor == Floor(chunk)
        bank == Only(floor, BankTypes)
        ledger == LedgerOf(chunk)
        both == ledger \o bank
        all == both \o Only(floor, Journals)
        found == Each(ledger, LAMBDA d : InspectTransaction(d, Org, day, Set))
                   \cup AnomalyFlags(ledger, picked)
                   \cup Each(all, LAMBDA d : CapitalFlags(d, Org, Set))
                   \cup Each(both, LAMBDA d : PrepaymentFlags(d, Org, Set))
                   \cup UnusualFlags(both, Org)
                   \cup Each(bank, LAMBDA d : FlagIf(NonPayroll(d, Org, Set), d, "non_payroll_payment"))
                   \cup FindDuplicates(ledger, Set)
                   \cup FindCrossDuplicates(ledger, Org, Set)
                   \cup Each(ledger, LAMBDA d : PostingFlags(d, Org))
                   \cup MultiAccountFlags(both, Set)
                   \cup MultiTaxFlags(both)
                   \cup Each(both, LAMBDA d : CodingFlags(d, Org, Set))
                   \cup BankFlags(ledger, bank, Set)
                   \cup Each(both, LAMBDA d : FlagIf(Undocumented(d, Set), d, "undocumented_bill"))
                   \cup Each(both, LAMBDA d : TaxFlags(d, Org, Set))
    IN {f \in found : f.issue \notin Set.disabled}

Chunks == 0..((Len(docs) - 1) \div ChunkSize)

ChunkOf(n) == SubSeq(docs, n * ChunkSize + 1, Lower({(n + 1) * ChunkSize, Len(docs)}))

-----------------------------------------------------------------------------
(* After the chunks: the asset register and the hierarchy.                 *)

DateOf(id) == (CHOOSE d \in DocsOf(docs) : d.id = id).date

\* A capital flag of an item the register already has: the price within one
\* and the purchase within thirty days.
AlreadyCapitalised(f) ==
    /\ f.issue = "capital_item_review"
    /\ \E asset \in Org.assets :
          /\ Absolute(asset.price - f.line) <= 1
          /\ asset.date # None
          /\ Absolute(DateOf(f.doc) - asset.date) <= 30

DropAlreadyCapitalised(found) == {f \in found : ~AlreadyCapitalised(f)}

PaymentTier == {"unusual_payment", "amount_outlier", "misallocated_item"}

\* The rule that explains a document best, and the rules it takes over from.
Explains(issues) ==
    IF "capital_item_review" \in issues THEN "capital_item_review"
    ELSE IF "low_cost_fixed_asset" \in issues THEN "low_cost_fixed_asset"
    ELSE IF "prepayment_review" \in issues THEN "prepayment_review"
    ELSE None

TakenOver(rule) ==
    IF rule = None THEN {}
    ELSE IF rule = "prepayment_review" THEN PaymentTier
    ELSE PaymentTier \cup {"prepayment_review"}

IssuesOf(found, doc) == {g.issue : g \in {h \in found : h.doc = doc}}

ApplyHierarchy(found) ==
    {LET rule == Explains(IssuesOf(found, f.doc))
     IN IF f.issue \in TakenOver(rule) THEN [f EXCEPT !.by = rule] ELSE f : f \in found}

\* slip: the register is consulted once the hierarchy is already applied
HierarchyFirst(found) == DropAlreadyCapitalised(ApplyHierarchy(found))

\* _call_rules_batch after its chunks.
Settle(found) == ApplyHierarchy(DropAlreadyCapitalised(found))

-----------------------------------------------------------------------------
(* The audit: a chunk whose rules raise is left out and the rest goes on.  *)

Evaluate(lost, picked) ==
    /\ flags' = Settle(UNION {RunBatch(ChunkOf(n), today, picked) : n \in Chunks \ lost})
                  \cup ContactFlags(company.contacts, docs, Org, today, Set)
    /\ seen' = [day |-> today, whole |-> lost = {}, current |-> TRUE]
    /\ UNCHANGED <<books, company, today, keeper>>

-----------------------------------------------------------------------------
(* The client at work in Xero.  Every edit moves the day the document was  *)
(* last updated, which is the day the engine takes for posted.             *)

Replace(i, d) ==
    /\ books' = [books EXCEPT ![i] = [d EXCEPT !.updated = today]]
    /\ seen' = [seen EXCEPT !.current = FALSE]
    /\ UNCHANGED <<company, today, flags, keeper>>

Pay(i) ==
    /\ books[i].status = "AUTHORISED" /\ books[i].amountDue # None
    /\ Replace(i, [books[i] EXCEPT !.status = "PAID", !.amountDue = 0])

Approve(i) ==
    /\ books[i].status \in UnapprovedStatuses
    /\ Replace(i, [books[i] EXCEPT !.status = "AUTHORISED"])

\* Anything that leaves the fields of the record alone, such as a new note.
Touch(i) ==
    /\ books[i].status \notin Skipped /\ books[i].updated # today
    /\ Replace(i, books[i])

\* The advice of a duplicate pair: this one is voided, the other one kept.
Advised(f, i) == f.doc = books[i].id /\ f.original = FALSE /\ f.by = None

VoidedFor(f) == [id \in DOMAIN keeper \cup {f.doc} |-> IF id = f.doc THEN f.partner ELSE keeper[id]]

\* The client follows the advice.
Void(i, f) ==
    /\ f \in flags /\ Advised(f, i)
    /\ books[i].status \notin Skipped
    /\ books' = [books EXCEPT ![i].status = "VOIDED", ![i].updated = today]
    /\ keeper' = VoidedFor(f)
    /\ flags' = flags \ {f}
    /\ seen' = [seen EXCEPT !.current = FALSE]
    /\ UNCHANGED <<company, today>>

NextDay ==
    /\ today < LastDay
    /\ today' = today + 1
    /\ UNCHANGED <<books, company, seen, flags, keeper>>

-----------------------------------------------------------------------------
EngineInit ==
    /\ \E start \in Ledgers : books = start.books /\ company = start.company
    /\ today = 0
    /\ seen = [day |-> 0, whole |-> FALSE, current |-> FALSE]
    /\ flags = {}
    /\ keeper = [id \in {} |-> None]

Audit ==
    \E lost \in SUBSET Chunks,
       picked \in {None} \cup SUBSET {f.doc : f \in OutlierFlags(Without(docs, BankTypes \cup Journals), Set)} :
       Evaluate(lost, picked)

Client ==
    \E i \in DOMAIN books :
       Pay(i) \/ Approve(i) \/ Touch(i) \/ \E f \in flags : Void(i, f)

EngineNext == Audit \/ Client \/ NextDay

EngineSpec == EngineInit /\ [][EngineNext]_engineVars

-----------------------------------------------------------------------------
\* The shape of the state: the last flags and the voided documents' keepers.
EngineTypeOK ==
    /\ today \in 0..LastDay
    /\ seen.day \in 0..today
    /\ \A f \in flags : f.original \in BOOLEAN \cup {None}
    /\ DOMAIN keeper \cap {d.id : d \in DocsOf(docs)} = {}

\* A flag taken off its card names a rule whose own flag is there for the same
\* document and is itself on its card: tasks.py applies the hierarchy after
\* the register so that "a dropped capital flag can't orphan a demoted one".
NothingIsOrphaned ==
    \A f \in flags : f.by # None =>
       \E g \in flags : g.doc = f.doc /\ g.issue = f.by /\ g.by = None

\* Whoever follows the advice of the duplicate pairs, in any order, over one
\* audit or several, with documents paid and edited in between, never voids
\* the last copy: no set of voided documents names only its own members as
\* the ones to keep (the order of duplicates.py, paid, posted, dated).
LastCopySurvives ==
    \A S \in SUBSET DOMAIN keeper : S # {} => \E id \in S : keeper[id] \notin S

\* Two documents of one contact and kind, dated within the window.
Near(a, b) ==
    /\ a # b /\ a.type # ""
    /\ a.type = b.type /\ ContactKey(a) = ContactKey(b)
    /\ Absolute(a.date - b.date) <= Set.dupWindow

NearPairs(list) ==
    {{q[1], q[2]} : q \in {p \in DocsOf(list) \X DocsOf(list) : Near(p[1], p[2])}}

ComparedPairs(list) == {{p[1], p[2]} : p \in ContactPairs(list, Set)}

\* The audit compares every two documents of one contact and kind within the
\* window, in whatever order Xero listed them, but for those that its chunks
\* keep apart: the sorted sweep that breaks off at the window loses none of a
\* chunk (duplicates.py: "near-linear; identical results to all-pairs"), and
\* two copies on either side of a chunk's end are never compared.
SweepMissesOnlyAcrossChunks ==
    LET chunks == {ChunkOf(n) : n \in Chunks}
    IN UNION {ComparedPairs(LedgerOf(chunk)) : chunk \in chunks} =
        {pair \in NearPairs(LedgerOf(docs)) : \E chunk \in chunks : pair \subseteq DocsOf(chunk)}

\* The audit compares every two such documents; violated: the pairs across the
\* end of a chunk are lost.
SweepMissesNothing ==
    UNION {ComparedPairs(LedgerOf(ChunkOf(n))) : n \in Chunks} = NearPairs(LedgerOf(docs))

AgeIssues ==
    {"old_unpaid_invoice", "old_unpaid_bill", "unapproved_invoice", "unapproved_bill",
     "old_unsettled_sales_credit", "old_unsettled_purchase_credit", "inactive_contact"}

\* While nothing but days pass, what was old stays old: a later audit of the
\* same documents that loses no chunk reports at least the same ages.
AgeFlagsStay ==
    [][ (seen.whole /\ seen.current /\ seen'.whole /\ seen'.current) =>
          \A f \in flags : f.issue \in AgeIssues => \E g \in flags' : g.doc = f.doc /\ g.issue = f.issue
      ]_engineVars

\* A draft is reported once it is the configured number of days old by its
\* invoice date (audit_settings.py: "minimum age in days (by invoice date)").
DraftsAgeByInvoiceDate ==
    seen.whole /\ seen.current =>
       \A d \in DocsOf(docs) :
          /\ d.status \in UnapprovedStatuses
          /\ d.type \in {"ACCREC", "ACCPAY"}
          /\ seen.day - d.date >= Set.graceDays
          /\ SidedIssue(d, "unapproved_invoice", "unapproved_bill") \notin Set.disabled
          => \E f \in flags : f.doc = d.id /\ f.issue = SidedIssue(d, "unapproved_invoice", "unapproved_bill")
=============================================================================
