--------------------------- MODULE MCRulesEngine ---------------------------
(* Small ledgers for the rules engine: each list exercises one family of   *)
(* checks and varies only what those checks tell apart.                    *)
EXTENDS RulesEngine

Line(account, tax, amount) ==
    [account |-> account, tax |-> tax, amount |-> amount, says |-> {}, period |-> None]

\* A bill as it mostly is; the lists below change what they are about.
Bill ==
    [id |-> "d1", kind |-> "document", type |-> "ACCPAY", contact |-> "c1", name |-> "Acme", number |-> "",
     ref |-> "r1", total |-> 600, status |-> "AUTHORISED", amountDue |-> 600, remaining |-> None,
     paid |-> 0, alloc |-> None, date |-> -3, dueDate |-> 0, updated |-> -3,
     lines |-> <<Line("400", "INPUT", 600)>>, says |-> {"goods"}, period |-> None, attached |-> TRUE,
     taxTotal |-> 100]

Ids == <<"d1", "d2", "d3", "d4">>

Numbered(list) == [i \in DOMAIN list |-> [list[i] EXCEPT !.id = Ids[i]]]

On(d, date, updated) == [d EXCEPT !.date = date, !.updated = updated]

Paid(d) == [d EXCEPT !.status = "PAID", !.amountDue = 0]

Of(d, amount) == [d EXCEPT !.total = amount, !.amountDue = amount, !.lines = <<Line("400", "INPUT", amount)>>]

\* Three copies of a bill, entered and updated on various days, one paid.
Copies ==
    {Numbered(<<a, b, On(Bill, date, -1)>>) :
        a \in {On(Bill, -3, -1), On(Bill, -1, -2), Paid(On(Bill, -2, -1))},
        b \in {On(Bill, -3, -3), On(Bill, -2, -3), On(Bill, -2, -1)},
        date \in {-3, -2}}

\* The same document of two contacts whose names are alike.
Lookalikes ==
    {Numbered(<<[Bill EXCEPT !.type = type],
                [Bill EXCEPT !.type = type, !.contact = "c2", !.name = "Acme Trading", !.date = date,
                             !.says = says]>>) :
        type \in {"ACCPAY", "ACCREC"}, date \in {-3, -2}, says \in {{"goods"}, {"asset"}}}

\* Documents with fields missing or out of place.
Odd ==
    {Numbered(<<[Bill EXCEPT !.type = type, !.status = "DRAFT", !.lines = <<Line(account, tax, 600)>>]>>) :
        type \in {"ACCPAY", "ACCREC"}, tax \in {"", "OLD", "OUTPUT", "NONE"}, account \in {"840", "200"}}

\* Items that are capital, prepaid and vague at once, some on the register.
Capitals ==
    {Numbered(<<[Of(Bill, amount) EXCEPT
                    !.kind = kind[1], !.type = kind[2], !.says = says, !.attached = FALSE,
                    !.lines = <<[Line(account, "NONE", amount) EXCEPT !.period = period]>>]>>) :
        kind \in {<<"document", "ACCPAY">>, <<"bank", "SPEND">>, <<"journal", "MANJOURNAL">>},
        amount \in {600, 1500}, says \in {{"asset"}, {"revenue"}, {"generic"}}, account \in {"400", "710"},
        period \in {None, <<-3, 12>>}}

\* Drafts, invoices and credit notes near the ages that matter.
Ageing ==
    {Numbered(<<[Bill EXCEPT !.kind = kind[1], !.type = kind[2], !.status = status, !.date = date,
                             !.updated = date, !.dueDate = None, !.number = "n1", !.ref = "",
                             !.amountDue = IF kind[1] = "document" THEN 600 ELSE None,
                             !.remaining = IF kind[1] = "document" THEN None ELSE 600]>>) :
        kind \in {<<"document", "ACCPAY">>, <<"document", "ACCREC">>, <<"credit note", "">>,
                  <<"credit note", "ACCPAYCREDIT">>},
        status \in {"DRAFT", "AUTHORISED", "PAID", "VOIDED"}, date \in {-1, 0, 1}}

\* A document and money that moves on the bank beside it.
Settled ==
    {Numbered(<<[Bill EXCEPT !.type = pair[1]],
                [Bill EXCEPT !.kind = "bank", !.type = pair[2], !.date = date, !.total = amount,
                             !.lines = <<Line("200", tax, amount)>>, !.name = payee]>>) :
        pair \in {<<"ACCPAY", "SPEND">>, <<"ACCREC", "RECEIVE">>}, date \in {-4, -3, 0},
        amount \in {600, 599}, tax \in {"INPUT", "OUTPUT"}, payee \in {"Acme", "Jo"}}

\* Four bills of one supplier: a regular charge, or one out of line.
Series ==
    {Numbered(<<Paid(On(Bill, -14, -14)), Paid(Of(On(Bill, -10, -10), out[1])),
                Paid([On(Bill, out[2], out[2]) EXCEPT !.lines = <<Line("401", "NONE", 600)>>]),
                Paid([On(Bill, -5, -5) EXCEPT !.ref = "r2"])>>) :
        out \in {<<600, -6>>, <<6000, -11>>}}

-----------------------------------------------------------------------------
Reference ==
    [accounts |-> [code \in {"200", "400", "401", "710", "840"} |->
                     CASE code = "200" -> [type |-> "REVENUE", name |-> {}]
                       [] code = "400" -> [type |-> "EXPENSE", name |-> {"vague"}]
                       [] code = "401" -> [type |-> "OVERHEADS", name |-> {"capital"}]
                       [] code = "710" -> [type |-> "FIXED", name |-> {}]
                       [] code = "840" -> [type |-> "", name |-> {"opening"}]],
     rates |-> [code \in {"INPUT", "OUTPUT", "NONE"} |->
                  CASE code = "INPUT" -> [expenses |-> TRUE, revenue |-> FALSE]
                    [] code = "OUTPUT" -> [expenses |-> FALSE, revenue |-> TRUE]
                    [] code = "NONE" -> [expenses |-> None, revenue |-> None]],
     vatRegistered |-> None,
     defaults |-> [c \in {"c1"} |-> [sales |-> "200", purchase |-> "400", salesTax |-> "OUTPUT", purchaseTax |-> "INPUT"]],
     vat |-> [c \in {"c2"} |-> "v2"],
     employees |-> {"Jo"},
     assetSuppliers |-> {},
     similar |-> [p \in {{"Acme", "Acme Trading"}} |-> 90],
     pieces |-> [n \in {"Acme", "Acme Trading", "Jo"} |-> {"acm"}],
     assets |-> {[price |-> 601, date |-> -20]},
     largePayment |-> 1000]

Settings ==
    [ageBasis |-> "due_date", invoiceDays |-> 1, billDays |-> 1, creditDays |-> 1, graceDays |-> 1,
     inactiveDays |-> 3, taxIgnoreAccounts |-> {}, taxIgnoreContacts |-> {}, vagueCodes |-> {},
     materiality |-> 100, lowCostMax |-> 1000, capitalMin |-> 500, capitalAccounts |-> {},
     prepaymentMin |-> 250, yearEnd |-> 23, undocumentedMin |-> 0, undocumentedTaxOnly |-> FALSE,
     undocumentedIgnore |-> {}, employeeNames |-> {}, dupWindow |-> 1, dupSameAmount |-> TRUE,
     dupExactRef |-> TRUE, dupCheckPaid |-> TRUE, dupMinConfidence |-> 90, billWindow |-> 3,
     invoiceWindow |-> 3, multiWhitelist |-> {}, outlierMinDocs |-> 3, outlierMultiple |-> 4,
     outlierMin |-> 100, contactSimilarity |-> 70, ignoreBefore |-> None, disabled |-> {}]

Contact(id, name) ==
    [id |-> id, name |-> name, archived |-> FALSE, customer |-> TRUE, supplier |-> TRUE, vat |-> "",
     salesAccount |-> "200", salesTax |-> "OUTPUT", purchaseAccount |-> "", purchaseTax |-> "INPUT"]

Company(set) ==
    [org |-> Reference, contacts |-> {Contact("c1", "Acme"), Contact("c2", "Acme Trading")}, set |-> set]

Wide == [Settings EXCEPT !.disabled = {"capital_item_review"}, !.dupMinConfidence = 45]

MCLedgers ==
    [books : Copies \cup Lookalikes \cup Odd \cup Ageing \cup Settled, company : {Company(Settings)}]
      \cup [books : Capitals \cup Series, company : {Company(Settings), Company(Wide)}]
=============================================================================
