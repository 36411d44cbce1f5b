-------------------------- MODULE MCWorkingPapers ---------------------------
(* Scenes, one for each group of screens: a scene starts with the         *)
(* counters of the others at their bounds.                                 *)
EXTENDS WorkingPapers, TLC

CONSTANTS a1, a2, t1, t2, t3

MCTxn == t1 :> [account |-> a1, type |-> "RECEIVE", amount |-> 5]
      @@ t2 :> [account |-> a1, type |-> "SPEND", amount |-> 5]
      @@ t3 :> [account |-> a2, type |-> "SPEND-TRANSFER", amount |-> 2]

\* Filings: one figure, another of the same period that was filed later but
\* has two dates, and one whose only date is a day out.
Fact(concept, date, value) == [concept |-> concept, date |-> date, value |-> value]

MCHistories ==
    {<<[period |-> 2, facts |-> <<Fact("Equity", 2, 7), Fact("NetAssetsLiabilities", 2, 9),
                                  Fact("NetAssetsLiabilities", 1, 4)>>],
       [period |-> 2, facts |-> <<Fact("NetAssetsLiabilities", 2, 4)>>],
       [period |-> 1, facts |-> <<Fact("Equity", 3, 4)>>]>>}

Row(label, value) == [label |-> label, value |-> value]

MCSheets == {<<Row("net assets", 4)>>, <<Row("total equity", 4), Row("net assets", 9)>>,
             <<Row("net assets", None)>>}

\* One bill a month of a regular cost and of another, one taken back, one
\* after the year; and prepaid bills of many spans.
Bill(month, code, amount, says, period) ==
    [id |-> <<month, code, amount, period>>, type |-> "ACCPAY", date |-> month * MonthDays,
     says |-> {}, period |-> None,
     lines |-> <<[account |-> code, tax |-> "", amount |-> amount, says |-> says, period |-> period]>>]

MCChart == [accounts |-> "rent" :> [type |-> "OVERHEADS", name |-> {"regular"}]
                      @@ "odd" :> [type |-> "EXPENSE", name |-> {}]
                      @@ "pre" :> [type |-> "CURRENT", name |-> {"prepay"}]]

MCYearEnd == 11 * MonthDays - 1

Expenses == {Bill(m, "rent", 100, {"x"}, None) : m \in 6 .. 11}
            \cup {Bill(10, "rent", -100, {"x"}, None)}
            \cup {Bill(m, "odd", 100, {"x"}, None) : m \in {6, 7, 9, 10}}

Prepaid == {Bill(6, "pre", amount, {"x"}, <<6 * MonthDays + first, last>>) :
              amount \in {1000, 1001}, first \in 0 .. MonthDays - 1, last \in 7 * MonthDays .. 10 * MonthDays - 1}
           \cup {Bill(6, "pre", 1201, {"annual"}, None)}

MCPool == Expenses \cup Prepaid

MCMaxEdits == [txn |-> 2, link |-> 1, house |-> 1, sheet |-> 1, day |-> 3, order |-> 1, invoice |-> 2,
               doc |-> 1, entry |-> 1, note |-> 1]

Kinds == DOMAIN MCMaxEdits

\* The changes that are open in a scene, and what it begins with.
Scenes ==
    {[open |-> {"txn", "entry"}, docs |-> {}, closed |-> {}],
     [open |-> {"txn", "link"}, docs |-> {}, closed |-> {}],
     [open |-> {"house", "sheet", "entry"}, docs |-> {}, closed |-> {}],
     [open |-> {"house", "sheet", "link"}, docs |-> {}, closed |-> {}],
     [open |-> {"day", "order", "invoice"}, docs |-> {}, closed |-> Invoices],
     [open |-> {"invoice", "link"}, docs |-> {}, closed |-> Invoices],
     [open |-> {"note"}, docs |-> {}, closed |-> {}],
     [open |-> {"doc"}, docs |-> {}, closed |-> {}]}
    \cup {[open |-> {}, docs |-> bills, closed |-> {}] : bills \in SUBSET Expenses}

MCInit ==
    \E scene \in Scenes :
       /\ xero = Nothing /\ mirror = Nothing /\ link = "up" /\ notes = {} /\ house = <<>>
       /\ sheets = [p \in Periods |-> <<Row("net assets", 4)>>]
       /\ choices = [excluded |-> {}, hidden |-> {}, ok |-> {}, registered |-> "house" \in scene.open,
                     statement |-> [x \in Accounts \X Periods |-> None],
                     filed |-> NoFigures, dismissed |-> {}]
       /\ screen = Idle /\ walk = NoWalk
       /\ invoices = [i \in Invoices |-> [posted |-> Lower({i \div 2, 2}), place |-> i, closed |-> i \in scene.closed]]
       /\ documents = scene.docs
       /\ edits = [k \in Kinds |-> IF k \notin scene.open THEN MCMaxEdits[k] ELSE IF k = "day" THEN 2 ELSE 0]

MCSpec == MCInit /\ [][Next]_vars
=============================================================================
