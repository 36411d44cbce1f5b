----------------------------- MODULE DocumentSets -----------------------------
(***************************************************************************)
(* The checks that compare a document with others: duplicates within one   *)
(* contact and across contacts, open documents settled directly from the   *)
(* bank, and what a contact or an account usually does.                    *)
(*                                                                         *)
(* docs is the list the audit passes on, in the order Xero listed it: the  *)
(* code groups, sorts and counts over that list, so its order is kept.     *)
(* Grouping and sorting are written out (Sublist, InOrder) where the       *)
(* theorems reason about them.                                             *)
(***************************************************************************)
EXTENDS DocumentChecks, SequencesExt

DocsOf(docs) == {docs[i] : i \in DOMAIN docs}

\* A stable sort of places in a list: by key, those of one key as they are.
UpTo(places, key, i) == {j \in places : key[j] < key[i] \/ (key[j] = key[i] /\ j <= i)}

InOrder(places, key) ==
    [k \in 1..Cardinality(places) |->
        CHOOSE i \in places : Cardinality(UpTo(places, key, i)) = k]

\* What stands at some places of a list, in the order of the list.
Sublist(list, places) ==
    LET order == InOrder(places, [i \in places |-> i])
    IN [k \in DOMAIN order |-> list[order[k]]]

\* The documents sorted by date; equal dates stay in the order listed.
ByDate(docs) ==
    LET order == InOrder(DOMAIN docs, [i \in DOMAIN docs |-> docs[i].date])
    IN [k \in DOMAIN order |-> docs[order[k]]]

\* The pairs a sorted sweep compares: it stops at the first document that is
\* further away than the window.
SweptPairs(docs, window) ==
    LET sorted == ByDate(docs)
    IN {<<sorted[x[1]], sorted[x[2]]>> : x \in
          {p \in (DOMAIN docs) \X (DOMAIN docs) :
              /\ p[1] < p[2]
              /\ \A k \in (p[1] + 1)..p[2] : sorted[k].date - sorted[p[1]].date <= window}}

-----------------------------------------------------------------------------
(* Duplicates within a contact: _find_duplicate_documents.                 *)

DuplicateIssue(type) ==
    IF type \in CreditTypes THEN "duplicate_credit_note"
    ELSE IF type \in SalesTypes THEN "duplicate_invoice"
    ELSE "duplicate_bill"

Same(x, y) == x # "" /\ x = y

Conflict(x, y) == x # "" /\ y # "" /\ x # y

\* The identifying number: a bill's is the supplier's reference.
DifferentIds(a, b) ==
    IF a.type \in PurchaseTypes THEN Conflict(a.ref, b.ref) ELSE Conflict(a.number, b.number)

\* Twice the median of the positive gaps of a series of three documents or
\* more of one amount, which is the cadence of that charge; None without one.
TwiceCadence(docs, amount) ==
    LET series == ByDate(SelectSeq(docs, LAMBDA d : d.amount = amount))
        gaps == SelectSeq([i \in 1..(Len(series) - 1) |-> series[i + 1].date - series[i].date],
                          LAMBDA g : g > 0)
        sorted == InOrder(DOMAIN gaps, gaps)
        n == Len(gaps)
    IN IF Len(series) < 3 \/ n = 0 THEN None
       ELSE gaps[sorted[(n + 1) \div 2]] + gaps[sorted[(n + 2) \div 2]]

\* A subscription: the same amount on its cadence, or a lone pair far apart.
Recurring(a, b, cadence) ==
    /\ a.amount = b.amount
    /\ ~Same(a.number, b.number)
    /\ IF cadence # None THEN 8 * (b.date - a.date) >= 3 * cadence
       ELSE b.date - a.date >= 14

\* The gates a pair passes before it is scored.
Comparable(a, b, set) ==
    /\ set.dupSameAmount => a.amount = b.amount
    /\ ~ (/\ set.dupExactRef
          /\ a.type \notin PurchaseTypes
          /\ Conflict(a.ref, b.ref)
          /\ ~Same(a.number, b.number))
    /\ set.dupCheckPaid \/ ~IsPaid(a) \/ ~IsPaid(b) \/ a.type \in CreditTypes

\* The waterfall of confidence, in percent.
Confidence(a, b, cadence) ==
    IF Same(a.number, b.number) THEN 100
    ELSE IF Recurring(a, b, cadence) THEN 45
    ELSE IF a.amount # b.amount THEN 65
    ELSE IF a.type \in PurchaseTypes /\ Same(a.ref, b.ref) THEN 100
    ELSE IF DifferentIds(a, b) THEN (IF a.date = b.date THEN 95 ELSE 70)
    ELSE IF Same(a.ref, b.ref) THEN 90
    ELSE 75

\* The high tier: the pairs shown as confirmed.
Confirmed(confidence) == confidence >= 90

\* slip: the day one was entered is compared with the date of the other
FirstIsPostedOrDated(a, b) ==
    IF IsPaid(a) # IsPaid(b) THEN IsPaid(a)
    ELSE IF a.posted # b.posted /\ a.amount > 0 THEN a.posted <= b.date
    ELSE a.date <= b.date

\* Which of a pair is the original: paid, then posted first, then dated first.
FirstIsOriginal(a, b) ==
    IF IsPaid(a) # IsPaid(b) THEN IsPaid(a)
    ELSE IF a.posted # None /\ b.posted # None /\ a.posted # b.posted THEN a.posted <= b.posted
    ELSE a.date <= b.date

\* Both documents of a pair are flagged, each naming the other.
PairFlags(a, b, confidence, marked) ==
    {[Flag(d, DuplicateIssue(a.type)) EXCEPT
        !.partner = (IF d = a THEN b ELSE a).id,
        !.original = IF marked THEN (d = a) = FirstIsOriginal(a, b) ELSE None,
        !.sure = confidence] : d \in {a, b}}

SameContact(docs) ==
    {Sublist(docs, {i \in DOMAIN docs : ContactKey(docs[i]) = ContactKey(e) /\ docs[i].type = e.type}) :
        e \in {x \in DocsOf(docs) : x.type # ""}}

\* slip: the sweep starts from the list as Xero gave it
UnsortedSweep(docs, set) ==
    UNION {{<<group[x[1]], group[x[2]]>> : x \in
              {p \in (DOMAIN group) \X (DOMAIN group) :
                  /\ p[1] < p[2]
                  /\ \A k \in (p[1] + 1)..p[2] : 
                        group[k].date - group[p[1]].date <= set.dupWindow}} :
            group \in SameContact(docs)}

\* The pairs of one contact and kind that the sweep brings together.
ContactPairs(docs, set) ==
    UNION {SweptPairs(group, set.dupWindow) : group \in SameContact(docs)}

FindDuplicates(docs, set) ==
    UNION {LET a == p[1]
               b == p[2]
               group == SelectSeq(docs, LAMBDA d : ContactKey(d) = ContactKey(a) /\ d.type = a.type)
               cadence == TwiceCadence(group, a.amount)
               confidence == Confidence(a, b, cadence)
           IN IF Comparable(a, b, set) /\ confidence >= set.dupMinConfidence
              THEN PairFlags(a, b, confidence, Confirmed(confidence)) ELSE {} :
           p \in ContactPairs(docs, set)}

-----------------------------------------------------------------------------
(* Duplicates across contacts: _find_cross_contact_duplicates.  names is   *)
(* the similarity of two contact names in percent, from the rapidfuzz      *)
(* library: org.similar[{n, m}].                                           *)

NameSimilarity(a, b, org) ==
    IF a.name = b.name THEN 100
    ELSE IF {a.name, b.name} \in DOMAIN org.similar THEN org.similar[{a.name, b.name}]
    ELSE 0

VatOf(d, org) == IF d.contact \in DOMAIN org.vat THEN org.vat[d.contact] ELSE ""

\* The same supplier under two records: by VAT where both have one, else by name.
PartyStrength(a, b, org) ==
    LET vatA == VatOf(a, org)
        vatB == VatOf(b, org)
    IN IF vatA # "" /\ vatB # "" THEN (IF vatA = vatB THEN 100 ELSE None)
       ELSE IF NameSimilarity(a, b, org) < 60 THEN None
       ELSE NameSimilarity(a, b, org)

Points(condition, n) == IF condition THEN n ELSE 0

\* The additive score: amount, party, date, identifier, other number, text.
CrossScore(a, b, strength) ==
    LET bill == a.type \in PurchaseTypes
    IN 20 + (30 * strength) \div 100
         + (IF a.date = b.date THEN 15 ELSE 8)
         + Points(Same(IF bill THEN a.ref ELSE a.number, IF bill THEN b.ref ELSE b.number), 20)
         + Points(Same(IF bill THEN a.number ELSE a.ref, IF bill THEN b.number ELSE b.ref), 5)
         + Points(a.says # {} /\ a.says = b.says, 10)

\* Documents of one kind and amount, whoever they are from.
SameAmount(docs) ==
    {Sublist(docs, {i \in DOMAIN docs : docs[i].type = e.type /\ docs[i].amount = e.amount}) :
        e \in {x \in DocsOf(docs) : x.type # ""}}

FindCrossDuplicates(docs, org, set) ==
    UNION {LET a == p[1]
               b == p[2]
               strength == PartyStrength(a, b, org)
           IN IF /\ ContactKey(a) # ContactKey(b)
                 /\ set.dupCheckPaid \/ ~IsPaid(a) \/ ~IsPaid(b) \/ a.type \in CreditTypes
                 /\ strength # None
                 /\ CrossScore(a, b, strength) >= 60
              THEN PairFlags(a, b, CrossScore(a, b, strength), TRUE) ELSE {} :
           p \in UNION {SweptPairs(group, set.dupWindow) : group \in SameAmount(docs)}}

-----------------------------------------------------------------------------
(* Settled directly from the bank: checks/bank.py.                         *)

DirectSettlement(docs, bank, docType, bankType, issue, window) ==
    UNION {FlagIf(/\ d.type = docType
                  /\ IsOpen(d)
                  /\ Outstanding(d) > 0
                  /\ d.contact # ""
                  /\ \E payment \in DocsOf(bank) :
                        /\ payment.type = bankType
                        /\ payment.contact = d.contact
                        /\ payment.date - d.date \in 0..window
                        /\ Outstanding(d) = payment.amount,
                  d, issue) : d \in DocsOf(docs)}

BankFlags(docs, bank, set) ==
    DirectSettlement(docs, bank, "ACCPAY", "SPEND", "bill_direct_payment", set.billWindow)
      \cup DirectSettlement(docs, bank, "ACCREC", "RECEIVE", "invoice_direct_deposit", set.invoiceWindow)

-----------------------------------------------------------------------------
(* What a contact usually does: checks/coding.py and checks/tax.py.        *)

\* The codes ("account" or "tax") of a contact's lines in the order they are
\* listed.
CodesOf(docs, code) ==
    FlattenSeq([i \in DOMAIN docs |->
        [k \in DOMAIN LinesOf(docs[i]) |-> LinesOf(docs[i])[k][code]]])

\* Every document of a contact that strays from the contact's usual code,
\* when the contact uses more than one.
DriftFlags(docs, code, issue, whitelist) ==
    UNION {LET mine == SelectSeq(docs, LAMBDA e : ContactKey(e) = ContactKey(d))
               codes == CodesOf(mine, code)
               used == {codes[i] : i \in DOMAIN codes} \ {""}
               usual == Dominant(codes)
           IN IF /\ Cardinality(used) >= 2
                 /\ {d.contact, d.name} \cap whitelist = {}
                 /\ \E line \in LineSet(d) : line[code] \notin {"", usual}
              THEN {[Flag(d, issue) EXCEPT !.usual = usual]} ELSE {} :
           d \in DocsOf(docs)}

MultiAccountFlags(docs, set) ==
    DriftFlags(docs, "account", "multi_account_supplier", set.multiWhitelist)

MultiTaxFlags(docs) ==
    DriftFlags(docs, "tax", "multi_tax_code_supplier", {})

\* Twice the median of a sequence of amounts.
TwiceMedian(amounts) ==
    LET n == Len(amounts)
        sorted == InOrder(DOMAIN amounts, amounts)
    IN amounts[sorted[(n + 1) \div 2]] + amounts[sorted[(n + 2) \div 2]]

\* An amount several times what the contact's documents usually come to.
OutlierFlags(docs, set) ==
    UNION {LET mine == SelectSeq(docs, LAMBDA e : ContactKey(e) = ContactKey(d) /\ e.amount > 0)
               twice == TwiceMedian([i \in DOMAIN mine |-> mine[i].amount])
           IN FlagIf(/\ Len(mine) >= set.outlierMinDocs
                     /\ 2 * d.amount >= twice * set.outlierMultiple
                     /\ d.amount >= set.outlierMin,
                     d, "amount_outlier") :
           d \in {x \in DocsOf(docs) : x.amount > 0}}

-----------------------------------------------------------------------------
(* Unusual payments: checks/unusual_payments.py.                           *)

\* Nothing says what the payment is for, or only a word like "transfer" does.
Unclear(d) ==
    \/ "generic" \in d.says
    \/ d.says = {} /\ d.ref = "" /\ \A line \in LineSet(d) : line.says = {}

PaymentsTo(payments, d) ==
    Cardinality({i \in DOMAIN payments : ContactKey(payments[i]) = ContactKey(d)})

\* The amounts posted to an expense account, over the payments' lines.
PostedTo(payments, code, org) ==
    FlattenSeq([i \in DOMAIN payments |->
        LET lines == SelectSeq(LinesOf(payments[i]), LAMBDA l : 
                        /\ l.account = code /\ l.amount # None
                        /\ TypeOfAccount(org, code) \in PureExpenseTypes)
        IN [k \in DOMAIN lines |-> Absolute(lines[k].amount)]])

Total(amounts) == FoldSeq(+, 0, amounts)

\* Three times the average of an account that has three postings or more.
FarAboveAccount(payments, d, org) ==
    \E line \in LineSet(d) :
       LET posted == PostedTo(payments, line.account, org)
       IN /\ line.account # "" /\ line.amount # None
          /\ Len(posted) >= 3 /\ Total(posted) > 0
          /\ Absolute(line.amount) * Len(posted) >= 3 * Total(posted)

UnusualFlags(docs, org) ==
    LET payments == SelectSeq(docs, LAMBDA d : d.type \in {"ACCPAY", "SPEND"})
    IN UNION {FlagIf(\/ Unclear(d)
                     \/ Absolute(d.amount) >= org.largePayment /\ PaymentsTo(payments, d) <= 2
                     \/ FarAboveAccount(payments, d, org),
                     d, "unusual_payment") : d \in DocsOf(payments)}
=============================================================================
