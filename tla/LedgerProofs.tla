---------------------------- MODULE LedgerProofs ----------------------------
(***************************************************************************)
(* Proofs about the components that read the documents of a ledger: the    *)
(* year-end screens (WorkingPapers), for any accounts, periods,            *)
(* transactions, invoices and entries, and the rules engine (RulesEngine), *)
(* for any ledgers, reference data, chunk size and last day.               *)
(***************************************************************************)
EXTENDS WorkingPapers, RulesEngine, FiniteSetTheorems, SequenceTheorems, WellFoundedInduction, TLAPS

-----------------------------------------------------------------------------
(* Types.                                                                  *)

Figure == Int \cup {None}

Ops == {None, "balances", "items", "opening"}
Steps == {"idle", "accounts", "balances", "rows", "filed", "sheets", "done"}

Screen ==
  [op : Ops, step : Steps, period : Periods \cup {None}, all : BOOLEAN,
   read : Entries \cup {None}, known : SUBSET Accounts,
   gl : [Accounts -> Int] \cup {None}, rows : [Txns -> TxnStates],
   figures : [Periods -> Figure], reported : [Periods -> Figure],
   todo : SUBSET Periods, shown : SUBSET (Accounts \cup Periods),
   connected : BOOLEAN, whole : BOOLEAN]

Invoice == [posted : Nat, place : Nat, closed : BOOLEAN]

Walk ==
  [offset : Nat, total : Nat, seen : SUBSET Invoices, touched : SUBSET Invoices,
   tied : SUBSET Invoices, short : BOOLEAN]

OutsideTypes ==
  /\ xero \in [Txns -> TxnStates] /\ mirror \in [Txns -> TxnStates]
  /\ link \in Links
  /\ house \in Histories \cup {<<>>}
  /\ sheets \in [Periods -> Sheets \cup {<<>>}]
  /\ invoices \in [Invoices -> Invoice]
  /\ documents \subseteq Pool

PaperTypes ==
  /\ OutsideTypes
  /\ choices \in Entries
  /\ notes \subseteq Notes
  /\ screen \in Screen
  /\ walk \in Walk
  /\ edits \in [DOMAIN MaxEdits -> Nat]
  /\ \A k \in DOMAIN MaxEdits : edits[k] <= MaxEdits[k]

-----------------------------------------------------------------------------
(* What a screen holds at each step of a reading agrees with what was read *)
(* before.                                                                 *)

BalancesAgree ==
  /\ (screen.step \in {"balances", "rows"} \/ Answered) /\ screen.whole => screen.known = Accounts
  /\ Answered => screen.shown = ShownAccounts(screen.read, screen.period, screen.all,
                                              screen.known, screen.gl, screen.rows)

ItemsAgree == Answered => screen.shown = UnreconciledAccounts(screen.rows, screen.read.hidden)

OpeningAgrees ==
  /\ screen.step = "filed" => screen.shown = {}
  /\ screen.step \in {"sheets", "done"} =>
       \A p \in Periods : screen.read.filed[p] # None => screen.figures[p] = screen.read.filed[p]
  /\ Answered => screen.shown = {p \in Periods : /\ Differs(screen.figures[p], screen.reported[p])
                                                 /\ screen.all \/ p \notin screen.read.dismissed}

ScreenAgrees ==
  screen.step # "idle" =>
    /\ screen.op \in {"balances", "items", "opening"}
    /\ screen.read \in Entries
    /\ screen.op = "balances" => screen.period \in Periods /\ BalancesAgree
    /\ screen.op = "items" => ItemsAgree
    /\ screen.op = "opening" => OpeningAgrees

-----------------------------------------------------------------------------
(* Numbers: the least of a set, and what a set of transactions adds up to. *)
(* The library's induction theorems are about operators; these two are     *)
(* shown by a least counterexample instead.                                *)

LEMMA LowerIsLeast ==
  ASSUME NEW S \in SUBSET Nat, S # {}
  PROVE  Lower(S) \in S /\ \A y \in S : Lower(S) <= y
  <1>1. PICK x \in S : \A y \in S : <<y, x>> \notin OpToRel(<, Nat)
    BY NatLessThanWellFounded, WFMin
  <1>2. \A y \in S : x <= y
    <2>1. SUFFICES ASSUME NEW y \in S PROVE x <= y
      OBVIOUS
    <2>2. <<y, x>> \notin OpToRel(<, Nat)
      BY <1>1
    <2>3. ~(y < x)
      BY <2>2 DEF OpToRel
    <2>4. QED BY <2>3
  <1>3. QED BY <1>2 DEF Lower

First(s) == CHOOSE x \in s : TRUE

\* A function from sets of transactions to what their signed amounts add up to.
Sums(g, T) ==
  g = [s \in SUBSET T |-> IF s = {} THEN 0 ELSE Signed(First(s)) + g[s \ {First(s)}]]

LEMMA LeastSet ==
  ASSUME NEW B \in SUBSET SUBSET Txns, B # {}
  PROVE  \E s \in B : \A u \in B : ~(u \subseteq s /\ u # s)
  <1>1. B \subseteq FiniteSubsetsOf(Txns)
    BY FigureAssumption, FS_FiniteSubsetsOfFinite
  <1>2. PICK s \in B : \A u \in B : <<u, s>> \notin StrictSubsetOrdering(Txns)
    BY <1>1, FS_StrictSubsetOrderingWellFounded, WFMin
  <1>3. QED BY <1>2 DEF StrictSubsetOrdering

LEMMA SumsAgree ==
  ASSUME NEW T \in SUBSET Txns, NEW U \in SUBSET Txns, NEW g, NEW h, Sums(g, T), Sums(h, U)
  PROVE  \A s \in SUBSET (T \cap U) : g[s] = h[s]
  <1> DEFINE B == {s \in SUBSET (T \cap U) : g[s] # h[s]}
  <1>1. SUFFICES ASSUME B # {} PROVE FALSE
    OBVIOUS
  <1>2. B \in SUBSET SUBSET Txns
    OBVIOUS
  <1>3. PICK s \in B : \A u \in B : ~(u \subseteq s /\ u # s)
    <2> HIDE DEF B
    <2>1. QED BY <1>1, <1>2, LeastSet
  <1>4. s # {}
    BY <1>3 DEF Sums
  <1>5. First(s) \in s
    BY <1>4 DEF First
  <1>6. s \ {First(s)} \notin B
    BY <1>3, <1>5
  <1>7. g[s \ {First(s)}] = h[s \ {First(s)}]
    BY <1>6
  <1>8. g[s] = Signed(First(s)) + g[s \ {First(s)}] /\ h[s] = Signed(First(s)) + h[s \ {First(s)}]
    BY <1>4 DEF Sums
  <1>9. QED BY <1>7, <1>8

LEMMA SumsExist ==
  ASSUME NEW T \in SUBSET Txns
  PROVE  \E g \in [SUBSET T -> Int] : Sums(g, T)
  <1> DEFINE B == {S \in SUBSET Txns : ~\E g \in [SUBSET S -> Int] : Sums(g, S)}
  <1>1. SUFFICES ASSUME B # {} PROVE FALSE
    OBVIOUS
  <1>2. B \in SUBSET SUBSET Txns
    OBVIOUS
  <1>3. PICK S \in B : \A u \in B : ~(u \subseteq S /\ u # S)
    <2> HIDE DEF B
    <2>1. QED BY <1>1, <1>2, LeastSet
  <1> DEFINE of(U) == CHOOSE g \in [SUBSET U -> Int] : Sums(g, U)
             f == [s \in SUBSET S |->
                     IF s = {} THEN 0
                     ELSE Signed(First(s)) + of(s \ {First(s)})[s \ {First(s)}]]
  <1>4. \A U \in SUBSET S : U # S => of(U) \in [SUBSET U -> Int] /\ Sums(of(U), U)
    BY <1>3
  <1>5. \A s \in SUBSET S : s # {} => First(s) \in s /\ Signed(First(s)) \in Int
    BY FigureAssumption DEF First, Signed
  <1> HIDE DEF of
  <1>6. f \in [SUBSET S -> Int]
    <2>1. SUFFICES ASSUME NEW s \in SUBSET S, s # {}
                   PROVE  Signed(First(s)) + of(s \ {First(s)})[s \ {First(s)}] \in Int
      OBVIOUS
    <2>2. s \ {First(s)} # S /\ s \ {First(s)} \in SUBSET S
      BY <1>5, <2>1
    <2> DEFINE v == s \ {First(s)}
    <2>3. of(v) \in [SUBSET v -> Int]
      BY <2>2, <1>4
    <2>4. of(v)[v] \in Int
      <3> HIDE DEF v
      <3>1. QED BY <2>3
    <2>5. QED BY <2>4, <1>5, <2>1
  <1>7. \A u \in SUBSET S : u # S => f[u] = of(u)[u]
    <2>1. SUFFICES ASSUME NEW u \in SUBSET S, u # S PROVE f[u] = of(u)[u]
      OBVIOUS
    <2>2. Sums(of(u), u)
      BY <1>4, <2>1
    <2>3. CASE u = {}
      <3>1. of(u)[u] = 0
        BY <2>2, <2>3 DEF Sums
      <3>2. QED BY <3>1, <2>3
    <2>4. CASE u # {}
      <3> DEFINE v == u \ {First(u)}
      <3>1. v \in SUBSET u /\ v \in SUBSET S /\ v # S
        BY <1>5, <2>1, <2>4
      <3>2. of(u)[v] = of(v)[v]
        <4>1. Sums(of(v), v)
          BY <3>1, <1>4
        <4>2. u \in SUBSET Txns /\ v \in SUBSET Txns /\ v \in SUBSET (v \cap u)
          BY <2>1, <3>1
        <4>3. QED BY <4>1, <4>2, <2>2, SumsAgree
      <3>3. of(u)[u] = Signed(First(u)) + of(u)[v]
        BY <2>2, <2>4 DEF Sums
      <3>4. f[u] = Signed(First(u)) + of(v)[v]
        BY <2>1, <2>4
      <3>5. QED BY <3>2, <3>3, <3>4
    <2>5. QED BY <2>3, <2>4
  <1>8. Sums(f, S)
    <2>1. \A s \in SUBSET S : s # {} => f[s] = Signed(First(s)) + f[s \ {First(s)}]
      <3>1. SUFFICES ASSUME NEW s \in SUBSET S, s # {} PROVE f[s] = Signed(First(s)) + f[s \ {First(s)}]
        OBVIOUS
      <3>2. s \ {First(s)} \in SUBSET S /\ s \ {First(s)} # S
        BY <1>5, <3>1
      <3>3. f[s \ {First(s)}] = of(s \ {First(s)})[s \ {First(s)}]
        BY <3>2, <1>7
      <3>4. f[s] = Signed(First(s)) + of(s \ {First(s)})[s \ {First(s)}]
        BY <3>1
      <3>5. QED BY <3>3, <3>4
    <2>2. f[{}] = 0
      OBVIOUS
    <2>3. f = [s \in SUBSET S |-> f[s]]
      OBVIOUS
    <2> HIDE DEF f
    <2>4. \A s \in SUBSET S : f[s] = IF s = {} THEN 0 ELSE Signed(First(s)) + f[s \ {First(s)}]
      BY <2>1, <2>2
    <2>5. f = [s \in SUBSET S |-> IF s = {} THEN 0 ELSE Signed(First(s)) + f[s \ {First(s)}]]
      BY <2>3, <2>4
    <2>6. QED BY <2>5 DEF Sums
  <1>9. QED BY <1>3, <1>6, <1>8

LEMMA SumIsANumber ==
  ASSUME NEW S \in SUBSET Txns
  PROVE  MapThenSumSet(Signed, S) \in Int
  <1> DEFINE sum == CHOOSE iter : Sums(iter, S)
  <1>1. MapThenSumSet(Signed, S) = sum[S]
    BY DEF MapThenSumSet, MapThenFoldSet, Sums, First
  <1>2. PICK g \in [SUBSET S -> Int] : Sums(g, S)
    BY SumsExist
  <1>3. Sums(sum, S)
    BY <1>2
  <1> HIDE DEF sum
  <1>4. sum[S] = g[S]
    BY <1>2, <1>3, SumsAgree
  <1>5. QED BY <1>1, <1>2, <1>4

LEMMA BalancesAreNumbers ==
  ASSUME NEW state
  PROVE  [a \in Accounts |-> Balance(state, a)] \in [Accounts -> Int]
  <1>1. \A a \in Accounts : Balance(state, a) \in Int
    <2>1. SUFFICES ASSUME NEW a \in Accounts PROVE Balance(state, a) \in Int
      OBVIOUS
    <2> DEFINE mine == {t \in Txns : Txn[t].account = a /\ state[t] \in {"open", "matched"}}
    <2>2. MapThenSumSet(Signed, mine) \in Int
      <3>1. mine \in SUBSET Txns
        OBVIOUS
      <3> HIDE DEF mine
      <3>2. QED BY <3>1, SumIsANumber
    <2>3. QED BY <2>2 DEF Balance
  <1>2. QED BY <1>1

-----------------------------------------------------------------------------
(* Figures: what a filing or a balance sheet says is a number or nothing.  *)

LEMMA FilingSaysAFigure ==
  ASSUME NEW filing \in Filing
  PROVE  FilingFigure(filing) \in Figure
  <1> DEFINE facts == filing.facts
  <1>1. facts \in Seq(TaggedFact)
    BY DEF Filing
  <1> HIDE DEF facts
  <1>2. \A i \in DOMAIN facts : facts[i].value \in Int
    <2>1. \A i \in DOMAIN facts : facts[i] \in TaggedFact
      BY <1>1
    <2>2. QED BY <2>1 DEF TaggedFact
  <1>3. DOMAIN facts \in SUBSET Nat
    BY <1>1
  <1>4. \A date : TaggedFigure(facts, date) \in Figure
    <2>1. SUFFICES ASSUME NEW date PROVE TaggedFigure(facts, date) \in Figure
      OBVIOUS
    <2> DEFINE at == {i \in DOMAIN facts : facts[i].date = date}
               primary == {i \in at : facts[i].concept = "NetAssetsLiabilities"}
               these == IF primary # {} THEN primary ELSE at
    <2>2. CASE at = {}
      BY <2>2 DEF TaggedFigure, Figure
    <2>3. CASE at # {}
      <3>1. these \in SUBSET Nat /\ these # {} /\ these \subseteq DOMAIN facts
        BY <1>3, <2>3
      <3>2. TaggedFigure(facts, date) = facts[Lower(these)].value
        BY <2>3 DEF TaggedFigure
      <3> HIDE DEF these
      <3>3. Lower(these) \in these
        BY <3>1, LowerIsLeast
      <3>4. QED BY <1>2, <3>1, <3>2, <3>3 DEF Figure
    <2>4. QED BY <2>2, <2>3
  <1> DEFINE dates == {facts[i].date : i \in DOMAIN facts}
             only == CHOOSE x \in dates : TRUE
  <1>5. FilingFigure(filing) = IF filing.period \in dates THEN TaggedFigure(facts, filing.period)
                               ELSE IF Cardinality(dates) = 1 THEN TaggedFigure(facts, only)
                               ELSE None
    BY DEF FilingFigure, facts
  <1> HIDE DEF dates, only
  <1>6. QED BY <1>4, <1>5 DEF Figure

LEMMA FiledFiguresAreFigures ==
  ASSUME NEW history \in Seq(Filing)
  PROVE  FiledFigures(history) \in [Periods -> Figure]
  <1>1. SUFFICES ASSUME NEW p \in Periods PROVE FiledFigures(history)[p] \in Figure
    BY DEF FiledFigures
  <1> DEFINE good == {i \in DOMAIN history : i <= MaxFilings /\ history[i].period = p
                                             /\ FilingFigure(history[i]) # None}
  <1>2. FiledFigures(history)[p] = IF good = {} THEN None ELSE FilingFigure(history[Lower(good)])
    BY DEF FiledFigures
  <1>3. good \in SUBSET Nat /\ good \subseteq DOMAIN history
    OBVIOUS
  <1> HIDE DEF good
  <1>4. CASE good # {}
    <2>1. Lower(good) \in DOMAIN history
      BY <1>3, <1>4, LowerIsLeast
    <2>2. QED BY <1>2, <1>4, <2>1, FilingSaysAFigure
  <1>5. CASE good = {}
    BY <1>2, <1>5 DEF Figure
  <1>6. QED BY <1>4, <1>5

\* The last of a set of places in a sequence.
LEMMA SomeIsLast ==
  ASSUME NEW n \in Nat, NEW S \in SUBSET (1 .. n), S # {}
  PROVE  \E i \in S : \A j \in S : j <= i
  <1> DEFINE R == {n - i : i \in S}
  <1>1. R \in SUBSET Nat /\ R # {}
    <2>1. \A i \in S : i \in Nat /\ n - i \in Nat
      OBVIOUS
    <2>2. QED BY <2>1
  <1>2. PICK r \in R : \A q \in R : r <= q
    <2> HIDE DEF R
    <2>1. QED BY <1>1, LowerIsLeast
  <1>3. PICK i \in S : r = n - i
    BY <1>2
  <1>4. \A j \in S : n - i <= n - j
    BY <1>2, <1>3
  <1>5. \A j \in S : j <= i
    BY <1>3, <1>4
  <1>6. QED BY <1>3, <1>5

LEMMA SheetSaysAFigure ==
  ASSUME NEW sheet \in Seq(SheetRow)
  PROVE  SheetFigure(sheet) \in Figure
  <1>1. DOMAIN sheet = 1 .. Len(sheet) /\ Len(sheet) \in Nat
    OBVIOUS
  <1>2. \A i \in DOMAIN sheet : sheet[i].value \in Figure
    <2>1. \A i \in DOMAIN sheet : sheet[i] \in SheetRow
      OBVIOUS
    <2>2. QED BY <2>1 DEF SheetRow, Figure
  <1> DEFINE net == {i \in DOMAIN sheet : sheet[i].label = "net assets" /\ sheet[i].value # None}
             equity == {i \in DOMAIN sheet : sheet[i].label = "total equity" /\ sheet[i].value # None}
  <1>3. net \subseteq DOMAIN sheet /\ net \in SUBSET (1 .. Len(sheet))
    BY <1>1
  <1>4. equity \subseteq DOMAIN sheet /\ equity \in SUBSET Nat
    <2>1. DOMAIN sheet \subseteq Nat
      BY <1>1
    <2>2. equity \subseteq DOMAIN sheet
      OBVIOUS
    <2>3. QED BY <2>1, <2>2
  <1> DEFINE last == CHOOSE i \in net : \A j \in net : j <= i
  <1>5. SheetFigure(sheet) = IF net # {} THEN sheet[last].value
                             ELSE IF equity # {} THEN sheet[Lower(equity)].value ELSE None
    BY DEF SheetFigure
  <1> HIDE DEF net, equity
  <1>6. CASE net # {}
    <2>1. \E i \in net : \A j \in net : j <= i
      BY <1>1, <1>3, <1>6, SomeIsLast
    <2>2. last \in net
      BY <2>1
    <2>3. QED BY <1>5, <1>2, <1>3, <1>6, <2>2
  <1>7. CASE net = {} /\ equity # {}
    <2>1. Lower(equity) \in DOMAIN sheet
      BY <1>4, <1>7, LowerIsLeast
    <2>2. QED BY <1>5, <1>2, <1>7, <2>1
  <1>8. CASE net = {} /\ equity = {}
    BY <1>5, <1>8 DEF Figure
  <1>9. QED BY <1>6, <1>7, <1>8

LEMMA CollectedAreFigures ==
  ASSUME NEW filed \in [Periods -> Figures \cup {None}], NEW fetched \in [Periods -> Figure]
  PROVE  /\ Collected(filed, fetched) \in [Periods -> Figure]
         /\ \A p \in Periods : filed[p] # None => Collected(filed, fetched)[p] = filed[p]
  BY FigureAssumption DEF Collected, Figure
-----------------------------------------------------------------------------
(* Steps outside the screens, and what the accountant enters.              *)

LEMMA CountedEffect ==
  ASSUME edits \in [DOMAIN MaxEdits -> Nat], \A k \in DOMAIN MaxEdits : edits[k] <= MaxEdits[k],
         NEW x \in DOMAIN MaxEdits, Counted(x)
  PROVE  /\ edits' \in [DOMAIN MaxEdits -> Nat]
         /\ \A k \in DOMAIN MaxEdits : edits'[k] <= MaxEdits[k]
         /\ edits'[x] = edits[x] + 1 /\ edits[x] < MaxEdits[x]
         /\ \A k \in DOMAIN MaxEdits \ {x} : edits'[k] = edits[k]
  <1>1. MaxEdits \in [DOMAIN MaxEdits -> Nat]
    BY PaperAssumption
  <1>2. edits' = [edits EXCEPT ![x] = edits[x] + 1] /\ edits[x] < MaxEdits[x]
    BY DEF Counted
  <1>3. edits[x] + 1 \in Nat /\ edits[x] + 1 <= MaxEdits[x]
    BY <1>1, <1>2
  <1>4. QED BY <1>2, <1>3

LEMMA KindsOfEdits ==
  /\ DOMAIN MaxEdits = {"txn", "link", "house", "sheet", "day", "order", "invoice", "doc", "entry", "note"}
  /\ \A k \in DOMAIN MaxEdits : MaxEdits[k] \in Nat
  BY PaperAssumption

OutsideStep ==
  \/ \E t \in Txns : EditTxn(t)
  \/ Sync
  \/ \E l \in Links : Relink(l)
  \/ Refile
  \/ \E p \in Periods : Restate(p)
  \/ DayPasses
  \/ \E i \in Invoices, closed \in BOOLEAN : EditInvoice(i, closed)
  \/ \E i, j \in Invoices : Reorder(i, j)
  \/ \E d \in Pool \ documents : Post(d)

LEMMA OutsideStepTypes ==
  ASSUME PaperTypes, OutsideStep
  PROVE  PaperTypes' /\ UNCHANGED screen
  <1> USE KindsOfEdits DEF PaperTypes, OutsideTypes
  <1>1. ASSUME NEW t \in Txns, EditTxn(t) PROVE PaperTypes' /\ UNCHANGED screen
    <2>1. PICK state \in {"open", "matched", "void"} : xero' = [xero EXCEPT ![t] = state]
      BY <1>1 DEF EditTxn, TxnStates
    <2>2. xero' \in [Txns -> TxnStates]
      BY <2>1 DEF TxnStates
    <2>3. Counted("txn")
      BY <1>1 DEF EditTxn
    <2>4. QED BY <1>1, <2>2, <2>3, CountedEffect DEF EditTxn
  <1>2. ASSUME Sync PROVE PaperTypes' /\ UNCHANGED screen
    BY <1>2 DEF Sync
  <1>3. ASSUME NEW l \in Links, Relink(l) PROVE PaperTypes' /\ UNCHANGED screen
    BY <1>3, CountedEffect DEF Relink
  <1>4. ASSUME Refile PROVE PaperTypes' /\ UNCHANGED screen
    BY <1>4, CountedEffect DEF Refile
  <1>5. ASSUME NEW p \in Periods, Restate(p) PROVE PaperTypes' /\ UNCHANGED screen
    <2>1. PICK sheet \in Sheets : sheets' = [sheets EXCEPT ![p] = sheet]
      BY <1>5 DEF Restate
    <2>2. sheets' \in [Periods -> Sheets \cup {<<>>}]
      BY <2>1
    <2>3. QED BY <1>5, <2>2, CountedEffect DEF Restate
  <1>6. ASSUME NEW i \in Invoices, NEW closed \in BOOLEAN, EditInvoice(i, closed)
        PROVE  PaperTypes' /\ UNCHANGED screen
    <2>1. Counted("invoice")
      BY <1>6 DEF EditInvoice
    <2>2. edits.day \in Nat
      OBVIOUS
    <2>3. invoices' \in [Invoices -> Invoice]
      BY <1>6, <2>2 DEF EditInvoice, Invoice
    <2>4. walk' \in Walk
      BY <1>6 DEF EditInvoice, Walk
    <2>5. QED BY <1>6, <2>1, <2>3, <2>4, CountedEffect DEF EditInvoice
  <1>7. ASSUME NEW d \in Pool \ documents, Post(d) PROVE PaperTypes' /\ UNCHANGED screen
    BY <1>7, CountedEffect DEF Post
  <1>8. ASSUME DayPasses PROVE PaperTypes' /\ UNCHANGED screen
    BY <1>8, CountedEffect DEF DayPasses
  <1>9. ASSUME NEW i \in Invoices, NEW j \in Invoices, Reorder(i, j)
        PROVE  PaperTypes' /\ UNCHANGED screen
    <2>1. Counted("order")
      BY <1>9 DEF Reorder
    <2>2. invoices' \in [Invoices -> Invoice]
      <3>1. \A k \in Invoices : invoices[k] \in Invoice
        OBVIOUS
      <3>2. PICK x \in Nat, y \in Nat :
              invoices' = [invoices EXCEPT ![i].place = x, ![j].place = y]
        <4>1. invoices[i].place \in Nat /\ invoices[j].place \in Nat
          BY <3>1 DEF Invoice
        <4>2. QED BY <1>9, <4>1 DEF Reorder
      <3>3. \A r \in Invoice, z \in Nat : [r EXCEPT !.place = z] \in Invoice
        BY DEF Invoice
      <3>4. [invoices EXCEPT ![i].place = x] \in [Invoices -> Invoice]
        BY <3>1, <3>3
      <3>5. QED BY <3>2, <3>3, <3>4
    <2>3. walk' \in Walk
      BY <1>9 DEF Reorder, Walk, Tied
    <2>4. QED BY <1>9, <2>1, <2>2, <2>3, CountedEffect DEF Reorder
  <1>10. QED BY <1>1, <1>2, <1>3, <1>4, <1>5, <1>6, <1>7, <1>8, <1>9 DEF OutsideStep

EntryStep ==
  \/ Enter
  \/ \E note \in Notes \ notes : Annotate(note)
  \/ \E note \in notes : DeleteNote(note)

LEMMA EnteredIsAnEntry ==
  ASSUME choices \in Entries, Enter
  PROVE  choices' \in Entries
  <1> USE DEF Entries
  <1>1. ASSUME NEW a \in Accounts, NEW p \in Periods, NEW balance \in Stated, SetStatement(a, p, balance)
        PROVE  choices' \in Entries
    <2>1. [choices.statement EXCEPT ![<<a, p>>] = balance] \in [Accounts \X Periods -> Stated \cup {None}]
      OBVIOUS
    <2>2. choices' = [choices EXCEPT !.statement = [choices.statement EXCEPT ![<<a, p>>] = balance]]
      BY <1>1 DEF SetStatement
    <2>3. QED BY <2>1, <2>2
  <1>2. ASSUME NEW a \in Accounts, NEW p \in Periods, NEW on \in BOOLEAN, MarkOk(a, p, on)
        PROVE  choices' \in Entries
    <2>1. Toggled(choices.ok, <<a, p>>, on) \subseteq Accounts \X Periods
      BY DEF Toggled
    <2>2. QED BY <1>2, <2>1 DEF MarkOk
  <1>3. ASSUME NEW a \in Accounts, NEW on \in BOOLEAN, ExcludeAccount(a, on) \/ HideAccount(a, on)
        PROVE  choices' \in Entries
    <2>1. /\ Toggled(choices.excluded, a, on) \subseteq Accounts
          /\ Toggled(choices.hidden, a, on) \subseteq Accounts
      BY DEF Toggled
    <2>2. QED BY <1>3, <2>1 DEF ExcludeAccount, HideAccount
  <1>4. ASSUME NEW p \in Periods, NEW figure \in Figures, SetFiled(p, figure)
        PROVE  choices' \in Entries
    <2>1. [choices.filed EXCEPT ![p] = figure] \in [Periods -> Figures \cup {None}]
      OBVIOUS
    <2>2. choices' = [choices EXCEPT !.filed = [choices.filed EXCEPT ![p] = figure]]
      BY <1>4 DEF SetFiled
    <2>3. QED BY <2>1, <2>2
  <1>5. ASSUME NEW p \in Periods, NEW on \in BOOLEAN, Dismiss(p, on)
        PROVE  choices' \in Entries
    <2>1. Toggled(choices.dismissed, p, on) \subseteq Periods
      BY DEF Toggled
    <2>2. QED BY <1>5, <2>1 DEF Dismiss
  <1>6. ASSUME NEW given \in BOOLEAN, SetRegistrationNumber(given)
        PROVE  choices' \in Entries
    BY <1>6 DEF SetRegistrationNumber
  <1> HIDE DEF Entries
  <1>7. QED BY <1>1, <1>2, <1>3, <1>4, <1>5, <1>6 DEF Enter

LEMMA EntryStepTypes ==
  ASSUME PaperTypes, EntryStep
  PROVE  PaperTypes' /\ UNCHANGED <<screen, walk, invoices>> /\ edits'.day = edits.day
  <1> USE KindsOfEdits DEF PaperTypes, OutsideTypes, Outside
  <1>1. ASSUME Enter
        PROVE  PaperTypes' /\ UNCHANGED <<screen, walk, invoices>> /\ edits'.day = edits.day
    <2>1. Counted("entry") /\ UNCHANGED <<notes, screen, walk>> /\ UNCHANGED Outside
      BY <1>1 DEF Enter
    <2>2. choices' \in Entries
      BY <1>1, EnteredIsAnEntry
    <2>3. QED BY <2>1, <2>2, CountedEffect
  <1>2. ASSUME NEW note \in Notes \ notes, Annotate(note)
        PROVE  PaperTypes' /\ UNCHANGED <<screen, walk, invoices>> /\ edits'.day = edits.day
    <2>1. /\ Counted("note") /\ notes' = notes \cup {note}
          /\ UNCHANGED <<choices, screen, walk>> /\ UNCHANGED Outside
      BY <1>2 DEF Annotate
    <2>2. /\ edits' \in [DOMAIN MaxEdits -> Nat]
          /\ \A k \in DOMAIN MaxEdits : edits'[k] <= MaxEdits[k]
          /\ \A k \in DOMAIN MaxEdits \ {"note"} : edits'[k] = edits[k]
      BY <2>1, CountedEffect
    <2>3. QED BY <2>1, <2>2
  <1>3. ASSUME NEW note \in notes, DeleteNote(note)
        PROVE  PaperTypes' /\ UNCHANGED <<screen, walk, invoices>> /\ edits'.day = edits.day
    BY <1>3 DEF DeleteNote
  <1>4. QED BY <1>1, <1>2, <1>3 DEF EntryStep
-----------------------------------------------------------------------------
(* Readings.                                                               *)

LEMMA IdleIsAScreen == Idle \in Screen
  BY DEF Idle, Screen, Nothing, NoFigures, Figure, Ops, Steps, TxnStates

LEMMA DisconnectedAgrees ==
  ASSUME screen \in Screen, ScreenAgrees, screen.step # "idle",
         screen.op = "balances" \/ Reading("opening", "sheets"),
         screen' = Disconnected
  PROVE  screen' \in Screen /\ ScreenAgrees'
  <1>1. screen' \in Screen
    BY DEF Disconnected, Screen, Steps
  <1>2. /\ screen'.step = "done" /\ ~screen'.connected
        /\ screen'.op = screen.op /\ screen'.read = screen.read /\ screen'.period = screen.period
        /\ screen'.figures = screen.figures
    BY DEF Disconnected, Screen
  <1>3. QED
    BY <1>1, <1>2 DEF ScreenAgrees, BalancesAgree, ItemsAgree, OpeningAgrees, Answered, Reading

LEMMA OpenAgrees ==
  ASSUME PaperTypes,
         NEW op \in {"balances", "items", "opening"}, NEW step \in {"accounts", "rows", "filed"},
         NEW period \in Periods \cup {None}, NEW all \in BOOLEAN,
         op = "balances" => step = "accounts" /\ period \in Periods,
         op = "opening" => step = "filed",
         Open(op, step, period, all)
  PROVE  screen' \in Screen /\ ScreenAgrees'
  <1>1. screen' = [Idle EXCEPT !.op = op, !.step = step, !.period = period, !.all = all, !.read = choices]
    BY DEF Open
  <1>2. screen' \in Screen
    <2>1. op \in Ops /\ step \in Steps /\ choices \in Entries
      BY DEF Ops, Steps, PaperTypes
    <2>2. QED BY <1>1, <2>1, IdleIsAScreen DEF Screen
  <1>3. /\ screen'.op = op /\ screen'.step = step /\ screen'.period = period /\ screen'.read = choices
        /\ screen'.shown = {}
    BY <1>1 DEF Idle
  <1>4. ~Answered' /\ choices \in Entries
    BY <1>3 DEF Answered, PaperTypes
  <1>5. op = "balances" => BalancesAgree' /\ screen'.period \in Periods
    BY <1>3, <1>4 DEF BalancesAgree
  <1>6. op = "opening" => OpeningAgrees'
    BY <1>3, <1>4 DEF OpeningAgrees
  <1>7. QED
    BY <1>2, <1>3, <1>4, <1>5, <1>6 DEF ScreenAgrees, ItemsAgree

LEMMA ReadAccountsAgrees ==
  ASSUME PaperTypes, ScreenAgrees, ReadAccounts
  PROVE  screen' \in Screen /\ ScreenAgrees'
  <1>1. screen \in Screen /\ Reading("balances", "accounts")
    BY DEF PaperTypes, ReadAccounts
  <1>2. CASE link = "dead"
    BY <1>1, <1>2, DisconnectedAgrees DEF ReadAccounts, Reading
  <1>3. CASE link # "dead"
    <2>1. screen' = [screen EXCEPT !.step = "balances",
                                   !.known = IF link = "up" THEN Accounts ELSE {},
                                   !.whole = (link = "up")]
      BY <1>3 DEF ReadAccounts
    <2>2. screen' \in Screen
      BY <1>1, <2>1 DEF Screen, Steps
    <2>3. /\ screen'.op = "balances" /\ screen'.step = "balances"
          /\ screen'.read = screen.read /\ screen'.period = screen.period
          /\ screen'.whole => screen'.known = Accounts
      BY <1>1, <2>1 DEF Screen, Reading
    <2>4. QED
      BY <1>1, <2>2, <2>3 DEF ScreenAgrees, BalancesAgree, Answered, Reading
  <1>4. QED BY <1>2, <1>3

LEMMA ReadTrialBalanceAgrees ==
  ASSUME PaperTypes, ScreenAgrees, ReadTrialBalance
  PROVE  screen' \in Screen /\ ScreenAgrees'
  <1>1. screen \in Screen /\ Reading("balances", "balances")
    BY DEF PaperTypes, ReadTrialBalance
  <1>2. CASE link = "dead"
    BY <1>1, <1>2, DisconnectedAgrees DEF ReadTrialBalance, Reading
  <1>3. CASE link # "dead"
    <2> DEFINE gl == IF link = "up" THEN [a \in Accounts |-> Balance(xero, a)] ELSE None
    <2>1. screen' = [screen EXCEPT !.step = "rows", !.gl = gl, !.whole = screen.whole /\ link = "up"]
      BY <1>3 DEF ReadTrialBalance
    <2>2. gl \in [Accounts -> Int] \cup {None}
      BY BalancesAreNumbers
    <2> HIDE DEF gl
    <2>3. screen' \in Screen
      BY <1>1, <2>1, <2>2, ZenonT(40) DEF Screen, Steps
    <2>4. /\ screen'.op = "balances" /\ screen'.step = "rows"
          /\ screen'.read = screen.read /\ screen'.period = screen.period
          /\ screen'.whole => screen.whole
          /\ screen'.known = screen.known
      BY <1>1, <2>1 DEF Screen, Reading
    <2>5. QED
      BY <1>1, <2>3, <2>4 DEF ScreenAgrees, BalancesAgree, Answered, Reading
  <1>4. QED BY <1>2, <1>3

LEMMA AnswerBalancesAgrees ==
  ASSUME PaperTypes, ScreenAgrees, AnswerBalances
  PROVE  screen' \in Screen /\ ScreenAgrees'
  <1> DEFINE rows == Rows(IF link = "up" THEN xero ELSE Nothing)
             shown == ShownAccounts(screen.read, screen.period, screen.all, screen.known, screen.gl, rows)
             whole == screen.whole /\ (mirror = Nothing => link = "up")
  <1>1. screen \in Screen /\ Reading("balances", "rows")
    BY DEF PaperTypes, AnswerBalances
  <1>2. rows \in [Txns -> TxnStates]
    BY DEF PaperTypes, OutsideTypes, Rows, Nothing, TxnStates
  <1>3. shown \subseteq Accounts
    BY <1>1 DEF ShownAccounts, Screen
  <1>4. screen' = [screen EXCEPT !.step = "done", !.rows = rows, !.whole = whole, !.shown = shown]
    BY DEF AnswerBalances
  <1> HIDE DEF rows, whole
  <1>5. /\ screen'.op = "balances" /\ screen'.step = "done"
        /\ screen'.read = screen.read /\ screen'.period = screen.period /\ screen'.all = screen.all
        /\ screen'.known = screen.known /\ screen'.gl = screen.gl /\ screen'.rows = rows
        /\ screen'.shown = shown /\ screen'.whole = whole
    BY <1>1, <1>4 DEF Screen, Reading
  <1>6. whole => screen.whole
    BY DEF whole
  <1>7. screen' \in Screen
    <2> HIDE DEF shown
    <2>1. whole \in BOOLEAN
      BY <1>1 DEF whole, Screen
    <2>2. QED BY <1>1, <1>2, <1>3, <1>4, <2>1 DEF Screen, Steps
  <1>8. QED
    BY <1>1, <1>5, <1>6, <1>7 DEF ScreenAgrees, BalancesAgree, Answered, Reading

LEMMA AnswerItemsAgrees ==
  ASSUME PaperTypes, ScreenAgrees, AnswerItems
  PROVE  screen' \in Screen /\ ScreenAgrees'
  <1> DEFINE rows == Rows(IF link = "up" THEN xero ELSE Nothing)
             shown == UnreconciledAccounts(rows, screen.read.hidden)
             whole == mirror = Nothing => link = "up"
  <1>1. screen \in Screen /\ Reading("items", "rows")
    BY DEF PaperTypes, AnswerItems
  <1>2. rows \in [Txns -> TxnStates]
    BY DEF PaperTypes, OutsideTypes, Rows, Nothing, TxnStates
  <1>3. shown \subseteq Accounts
    BY DEF UnreconciledAccounts
  <1>4. screen' = [screen EXCEPT !.step = "done", !.rows = rows, !.whole = whole, !.shown = shown]
    BY DEF AnswerItems
  <1> HIDE DEF rows, whole
  <1>5. /\ screen'.op = "items" /\ screen'.step = "done"
        /\ screen'.read = screen.read /\ screen'.rows = rows /\ screen'.shown = shown
    BY <1>1, <1>4 DEF Screen, Reading
  <1>6. screen' \in Screen
    <2> HIDE DEF shown
    <2>1. whole \in BOOLEAN
      BY DEF whole
    <2>2. QED BY <1>1, <1>2, <1>3, <1>4, <2>1 DEF Screen, Steps
  <1>7. QED
    BY <1>1, <1>5, <1>6 DEF ScreenAgrees, ItemsAgree, Answered, Reading

LEMMA CollectFiledAgrees ==
  ASSUME PaperTypes, ScreenAgrees, CollectFiled
  PROVE  screen' \in Screen /\ ScreenAgrees'
  <1>1. screen \in Screen /\ Reading("opening", "filed") /\ screen.read \in Entries
    BY DEF PaperTypes, CollectFiled, ScreenAgrees, Reading
  <1> DEFINE history(lost) ==
               [i \in DOMAIN house |-> IF i \in lost THEN [house[i] EXCEPT !.facts = <<>>] ELSE house[i]]
             fetched(lost) == IF screen.read.registered THEN FiledFigures(history(lost)) ELSE NoFigures
             figures(lost) == Collected(screen.read.filed, fetched(lost))
             periods(lost) == {p \in Periods : figures(lost)[p] # None}
  <1>2. PICK lost \in SUBSET DOMAIN house :
          screen' = [screen EXCEPT !.figures = figures(lost), !.todo = periods(lost),
                                   !.step = IF periods(lost) = {} THEN "done" ELSE "sheets",
                                   !.whole = (lost = {})]
    BY DEF CollectFiled
  <1>3. house \in Seq(Filing)
    <2>1. house \in Histories \cup {<<>>} /\ Histories \subseteq Seq(Filing)
      BY FigureAssumption DEF PaperTypes, OutsideTypes
    <2>2. <<>> \in Seq(Filing)
      OBVIOUS
    <2>3. QED BY <2>1, <2>2
  <1>4. history(lost) \in Seq(Filing)
    <2>1. \A i \in DOMAIN house : house[i] \in Filing
      BY <1>3
    <2>2. \A i \in DOMAIN house : [house[i] EXCEPT !.facts = <<>>] \in Filing
      <3>1. <<>> \in Seq(TaggedFact)
        OBVIOUS
      <3> DEFINE none == <<>>
      <3> HIDE DEF none
      <3>2. \A filing \in Filing : [filing EXCEPT !.facts = none] \in Filing
        BY <3>1 DEF Filing, none
      <3>3. QED BY <2>1, <3>2 DEF none
    <2>3. DOMAIN house = 1 .. Len(house) /\ Len(house) \in Nat
      BY <1>3
    <2>4. history(lost) \in [1 .. Len(house) -> Filing]
      BY <2>1, <2>2, <2>3
    <2> HIDE DEF history
    <2>5. QED BY <2>3, <2>4
  <1>5. fetched(lost) \in [Periods -> Figure]
    <2> HIDE DEF history
    <2>1. QED BY <1>4, FiledFiguresAreFigures DEF NoFigures, Figure
  <1>6. /\ figures(lost) \in [Periods -> Figure]
        /\ \A p \in Periods : screen.read.filed[p] # None => figures(lost)[p] = screen.read.filed[p]
    <2>1. screen.read.filed \in [Periods -> Figures \cup {None}]
      BY <1>1 DEF Entries
    <2> HIDE DEF fetched
    <2>2. QED BY <1>5, <2>1, CollectedAreFigures
  <1>7. screen.shown = {}
    BY <1>1 DEF ScreenAgrees, OpeningAgrees, Reading
  <1>8. periods(lost) \subseteq Periods /\ \A p \in Periods \ periods(lost) : figures(lost)[p] = None
    OBVIOUS
  <1> HIDE DEF figures, periods
  <1>9. screen' \in Screen
    BY <1>1, <1>2, <1>6, <1>8, ZenonT(40) DEF Screen, Steps
  <1>10. /\ screen'.op = "opening"
         /\ screen'.step = IF periods(lost) = {} THEN "done" ELSE "sheets"
         /\ screen'.read = screen.read /\ screen'.all = screen.all
         /\ screen'.figures = figures(lost) /\ screen'.shown = {}
    BY <1>1, <1>2, <1>7 DEF Screen, Reading
  <1>11. screen'.step = "done" => \A p \in Periods : ~Differs(screen'.figures[p], screen'.reported[p])
    <2>1. SUFFICES ASSUME periods(lost) = {}, NEW p \in Periods
                   PROVE  ~Differs(figures(lost)[p], screen'.reported[p])
      BY <1>10
    <2>2. QED BY <1>8, <2>1 DEF Differs
  <1>12. QED
    BY <1>1, <1>6, <1>9, <1>10, <1>11 DEF ScreenAgrees, OpeningAgrees, Answered, Reading

LEMMA ReadSheetAgrees ==
  ASSUME PaperTypes, ScreenAgrees, ReadSheet
  PROVE  screen' \in Screen /\ ScreenAgrees'
  <1>1. screen \in Screen /\ Reading("opening", "sheets")
    BY DEF PaperTypes, ReadSheet
  <1>2. CASE link = "dead"
    BY <1>1, <1>2, DisconnectedAgrees DEF ReadSheet, Reading
  <1>3. CASE link # "dead"
    <2> DEFINE p == CHOOSE x \in screen.todo : \A y \in screen.todo : y <= x
               says == IF link = "up" THEN SheetFigure(sheets[p]) ELSE None
    <2>1. screen' = [screen EXCEPT !.todo = screen.todo \ {p}, !.whole = screen.whole /\ link = "up",
                                   !.reported = [screen.reported EXCEPT ![p] = says]]
      BY <1>3 DEF ReadSheet
    <2> HIDE DEF p
    <2>2. [screen.reported EXCEPT ![p] = says] \in [Periods -> Figure]
      <3>1. p \in Periods => sheets[p] \in Seq(SheetRow)
        <4>1. p \in Periods => sheets[p] \in Sheets \cup {<<>>}
          BY DEF PaperTypes, OutsideTypes
        <4>2. Sheets \subseteq Seq(SheetRow)
          BY FigureAssumption
        <4>3. <<>> \in Seq(SheetRow)
          OBVIOUS
        <4>4. QED BY <4>1, <4>2, <4>3
      <3>2. p \in Periods => says \in Figure
        BY <3>1, SheetSaysAFigure DEF Figure
      <3> HIDE DEF says
      <3>3. QED BY <1>1, <3>2 DEF Screen
    <2> HIDE DEF says
    <2>3. screen' \in Screen
      BY <1>1, <2>1, <2>2 DEF Screen
    <2>4. /\ screen'.op = "opening" /\ screen'.step = "sheets"
          /\ screen'.read = screen.read /\ screen'.figures = screen.figures
      BY <1>1, <2>1 DEF Screen, Reading
    <2>5. QED
      BY <1>1, <2>3, <2>4 DEF ScreenAgrees, OpeningAgrees, Answered, Reading
  <1>4. QED BY <1>2, <1>3

LEMMA AnswerOpeningAgrees ==
  ASSUME PaperTypes, ScreenAgrees, AnswerOpening
  PROVE  screen' \in Screen /\ ScreenAgrees'
  <1> DEFINE shown == {p \in Periods : /\ Differs(screen.figures[p], screen.reported[p])
                                       /\ screen.all \/ p \notin screen.read.dismissed}
  <1>1. screen \in Screen /\ Reading("opening", "sheets")
    BY DEF PaperTypes, AnswerOpening
  <1>2. screen' = [screen EXCEPT !.step = "done", !.shown = shown]
    BY DEF AnswerOpening
  <1>3. shown \subseteq Periods
    OBVIOUS
  <1>4. /\ screen'.op = "opening" /\ screen'.step = "done" /\ screen'.all = screen.all
        /\ screen'.read = screen.read /\ screen'.figures = screen.figures
        /\ screen'.reported = screen.reported /\ screen'.shown = shown
    BY <1>1, <1>2 DEF Screen, Reading
  <1>5. screen' \in Screen
    <2> HIDE DEF shown
    <2>1. QED BY <1>1, <1>2, <1>3 DEF Screen, Steps
  <1>6. QED
    BY <1>1, <1>4, <1>5 DEF ScreenAgrees, OpeningAgrees, Answered, Reading

ReadingStep ==
  \/ OpenBalances \/ ReadAccounts \/ ReadTrialBalance \/ AnswerBalances
  \/ OpenItems \/ AnswerItems \/ FailRead
  \/ OpenOpening \/ CollectFiled \/ ReadSheet \/ AnswerOpening

LEMMA ReadingStepAgrees ==
  ASSUME PaperTypes, ScreenAgrees, ReadingStep
  PROVE  screen' \in Screen /\ ScreenAgrees'
  <1>1. CASE OpenBalances
    BY <1>1, OpenAgrees DEF OpenBalances
  <1>2. CASE OpenItems
    BY <1>2, OpenAgrees DEF OpenItems
  <1>3. CASE OpenOpening
    BY <1>3, OpenAgrees DEF OpenOpening
  <1>4. CASE FailRead
    BY <1>4, IdleIsAScreen DEF FailRead, ScreenAgrees, Idle
  <1>5. QED
    BY <1>1, <1>2, <1>3, <1>4, ReadAccountsAgrees, ReadTrialBalanceAgrees, AnswerBalancesAgrees,
       AnswerItemsAgrees, CollectFiledAgrees, ReadSheetAgrees, AnswerOpeningAgrees
    DEF ReadingStep

\* A reading changes nothing but the screen, and opening one leaves the walk.
LEMMA ReadingStepKeeps ==
  ASSUME ReadingStep
  PROVE  UNCHANGED <<choices, notes, edits>> /\ UNCHANGED Outside /\ walk' \in {walk, NoWalk}
  BY DEF ReadingStep, OpenBalances, OpenItems, OpenOpening, Open, ReadAccounts, ReadTrialBalance,
         AnswerBalances, AnswerItems, FailRead, CollectFiled, ReadSheet, AnswerOpening

-----------------------------------------------------------------------------
(* The late invoices.  An edited invoice moves up the list, or stays ahead *)
(* of those it was ahead of, as today is the last day; and a new order of  *)
(* Xero's list moves only those that share a day.  So for the others what  *)
(* is ahead of them only grows while they are not yet on a page: the next  *)
(* page still reaches them.                                                *)

Exempt == walk.touched \cup walk.tied

WalkCovers ==
  /\ \A i \in Invoices : invoices[i].posted <= edits.day
  /\ walk.total > 0 /\ ~walk.short =>
       \A i \in Invoices \ Exempt : invoices[i].closed =>
         i \in walk.seen \/ Cardinality(Ahead(invoices, i)) >= walk.offset + Limit

LEMMA AheadIsFinite ==
  ASSUME NEW list, NEW i
  PROVE  IsFiniteSet(Ahead(list, i)) /\ Cardinality(Ahead(list, i)) \in Nat
  <1>1. Ahead(list, i) \in SUBSET Invoices
    BY DEF Ahead
  <1>2. QED BY <1>1, FigureAssumption, FS_Subset, FS_CardinalityType

\* No more than the other invoices of the period are ahead of one of it.
LEMMA AheadIsFewer ==
  ASSUME NEW list \in [Invoices -> Invoice],
         NEW i \in Invoices, list[i].closed
  PROVE  /\ Cardinality({j \in Invoices : list[j].closed}) \in Nat
         /\ Cardinality(Ahead(list, i)) < Cardinality({j \in Invoices : list[j].closed})
  <1> DEFINE period == {j \in Invoices : list[j].closed}
  <1>1. i \notin Ahead(list, i)
    BY DEF Ahead, Invoice
  <1>2. Ahead(list, i) \subseteq period \ {i}
    BY <1>1 DEF Ahead
  <1>3. i \in period /\ period \in SUBSET Invoices
    OBVIOUS
  <1> HIDE DEF period
  <1>4. IsFiniteSet(period) /\ Cardinality(period) \in Nat
    BY <1>3, FigureAssumption, FS_Subset, FS_CardinalityType
  <1>5. IsFiniteSet(period \ {i}) /\ Cardinality(period \ {i}) = Cardinality(period) - 1
    BY <1>3, <1>4, FS_RemoveElement
  <1>6. Cardinality(Ahead(list, i)) <= Cardinality(period \ {i})
    BY <1>2, <1>5, FS_Subset
  <1>7. QED BY <1>4, <1>5, <1>6, AheadIsFinite DEF period

LEMMA BooksAreTyped ==
  ASSUME PaperTypes
  PROVE  /\ edits.day \in Nat
         /\ invoices \in [Invoices -> Invoice]
         /\ \A i \in Invoices : invoices[i].posted \in Int /\ invoices[i].place \in Int
  <1>1. edits.day \in Nat
    BY KindsOfEdits DEF PaperTypes
  <1>2. invoices \in [Invoices -> Invoice]
    BY DEF PaperTypes, OutsideTypes
  <1>3. \A i \in Invoices : invoices[i] \in Invoice
    BY <1>2
  <1>4. QED BY <1>1, <1>2, <1>3 DEF Invoice

\* What is ahead of an invoice nobody edits only grows, unless an invoice is
\* taken out of the period.
LEMMA AheadGrows ==
  ASSUME PaperTypes, WalkCovers, NEW i \in Invoices, NEW j \in Invoices, i # j,
         NEW closed \in BOOLEAN, EditInvoice(j, closed), ~walk'.short
  PROVE  Ahead(invoices, i) \subseteq Ahead(invoices', i)
  <1>1. invoices[j].closed => closed
    BY DEF EditInvoice, PaperTypes, Walk
  <1>2. /\ invoices'[j] = [invoices[j] EXCEPT !.posted = edits.day, !.closed = closed]
        /\ \A k \in Invoices \ {j} : invoices'[k] = invoices[k]
    BY BooksAreTyped DEF EditInvoice
  <1>3. /\ invoices'[j].posted = edits.day /\ invoices'[j].closed = closed
        /\ invoices'[j].place = invoices[j].place
        /\ invoices'[i] = invoices[i]
    BY <1>2, BooksAreTyped DEF Invoice
  <1>4. /\ invoices[i].posted <= edits.day /\ invoices[j].posted <= edits.day
        /\ edits.day \in Int /\ invoices[i].posted \in Int /\ invoices[j].posted \in Int
    BY BooksAreTyped DEF WalkCovers
  <1>5. SUFFICES ASSUME NEW k \in Ahead(invoices, i) PROVE k \in Ahead(invoices', i)
    OBVIOUS
  <1>6. CASE k = j
    BY <1>1, <1>3, <1>4, <1>6 DEF Ahead
  <1>7. CASE k # j
    <2>1. invoices'[k] = invoices[k]
      BY <1>2, <1>7 DEF Ahead
    <2>2. QED BY <1>3, <2>1 DEF Ahead
  <1>8. QED BY <1>6, <1>7

\* A new order leaves what is ahead of an invoice that has its day to itself.
LEMMA AheadIsKept ==
  ASSUME PaperTypes, NEW i \in Invoices \ Tied(invoices), NEW j \in Invoices, NEW k \in Invoices,
         Reorder(j, k)
  PROVE  Ahead(invoices, i) \subseteq Ahead(invoices', i)
  <1>1. \A x \in Invoices : invoices'[x].posted = invoices[x].posted /\ invoices'[x].closed = invoices[x].closed
    BY BooksAreTyped DEF Reorder, Invoice
  <1>2. SUFFICES ASSUME NEW x \in Ahead(invoices, i) PROVE x \in Ahead(invoices', i)
    OBVIOUS
  <1>3. x \in Invoices /\ x # i
    BY BooksAreTyped DEF Ahead
  <1>4. invoices[x].posted # invoices[i].posted
    BY <1>3 DEF Tied
  <1>5. QED BY <1>1, <1>3, <1>4 DEF Ahead

LateInvoices == WalkCovers /\ ShowMoreMissesOnlyTies

\* A step that reads no page, exempts no fewer invoices and moves none of the
\* others up the list.
LEMMA WalkGoesOn ==
  ASSUME PaperTypes, LateInvoices,
         \A i \in Invoices : invoices'[i].posted <= edits'.day,
         walk'.seen = walk.seen, walk'.offset = walk.offset, walk'.total = walk.total,
         ~walk'.short => ~walk.short,
         Exempt \subseteq Exempt',
         ~walk'.short => \A i \in Invoices \ Exempt' :
            /\ invoices'[i].closed = invoices[i].closed
            /\ Ahead(invoices, i) \subseteq Ahead(invoices', i)
  PROVE  LateInvoices'
  <1>1. WalkCovers /\ ShowMoreMissesOnlyTies
    BY DEF LateInvoices
  <1>2. ASSUME walk'.total > 0, ~walk'.short, NEW i \in Invoices \ Exempt', invoices'[i].closed
        PROVE  i \in walk'.seen \/ Cardinality(Ahead(invoices', i)) >= walk'.offset + Limit
    <2>1. i \in Invoices \ Exempt /\ invoices[i].closed /\ walk.total > 0 /\ ~walk.short
      BY <1>2
    <2>2. i \in walk.seen \/ Cardinality(Ahead(invoices, i)) >= walk.offset + Limit
      BY <1>1, <2>1 DEF WalkCovers
    <2>3. Cardinality(Ahead(invoices, i)) <= Cardinality(Ahead(invoices', i))
      BY <1>2, AheadIsFinite, FS_Subset
    <2>4. Cardinality(Ahead(invoices, i)) \in Nat /\ Cardinality(Ahead(invoices', i)) \in Nat
      BY AheadIsFinite
    <2>5. walk.offset \in Nat
      BY DEF PaperTypes, Walk
    <2>6. QED BY <2>2, <2>3, <2>4, <2>5, PaperAssumption
  <1>3. WalkCovers'
    BY <1>2 DEF WalkCovers
  <1>4. ShowMoreMissesOnlyTies'
    <2>1. SUFFICES ASSUME walk'.total > 0, walk'.offset + Limit >= walk'.total, ~walk'.short,
                          NEW i \in Invoices \ Exempt', invoices'[i].closed
                   PROVE  i \in walk'.seen
      BY DEF ShowMoreMissesOnlyTies, Exempt
    <2>2. walk.total > 0 /\ walk.offset + Limit >= walk.total /\ ~walk.short
      BY <2>1
    <2>3. i \in Invoices \ Exempt /\ invoices[i].closed
      BY <2>1
    <2>4. QED BY <1>1, <2>2, <2>3 DEF ShowMoreMissesOnlyTies, Exempt
  <1>5. QED BY <1>3, <1>4 DEF LateInvoices

LEMMA EditInvoiceCovers ==
  ASSUME PaperTypes, LateInvoices, NEW j \in Invoices, NEW closed \in BOOLEAN, EditInvoice(j, closed)
  PROVE  LateInvoices'
  <1>1. /\ invoices'[j] = [invoices[j] EXCEPT !.posted = edits.day, !.closed = closed]
        /\ \A k \in Invoices \ {j} : invoices'[k] = invoices[k]
    BY BooksAreTyped DEF EditInvoice
  <1>2. edits'.day = edits.day
    <2>1. Counted("invoice")
      BY DEF EditInvoice
    <2>2. QED BY <2>1, KindsOfEdits DEF Counted, PaperTypes
  <1>3. \A i \in Invoices : invoices'[i].posted <= edits'.day
    <2>1. SUFFICES ASSUME NEW i \in Invoices PROVE invoices'[i].posted <= edits'.day
      OBVIOUS
    <2>2. invoices'[j].posted = edits.day /\ edits.day \in Nat /\ invoices[i].posted <= edits.day
      BY <1>1, BooksAreTyped DEF Invoice, LateInvoices, WalkCovers
    <2>3. CASE i = j
      BY <1>2, <2>2, <2>3
    <2>4. CASE i # j
      BY <1>1, <1>2, <2>2, <2>4
    <2>5. QED BY <2>3, <2>4
  <1>4. /\ walk'.touched = walk.touched \cup {j} /\ walk'.tied = walk.tied
        /\ ~walk'.short => ~walk.short
        /\ walk'.seen = walk.seen /\ walk'.offset = walk.offset /\ walk'.total = walk.total
    BY DEF EditInvoice, PaperTypes, Walk
  <1>5. Exempt' = Exempt \cup {j}
    BY <1>4 DEF Exempt
  <1>6. ASSUME ~walk'.short, NEW i \in Invoices \ Exempt'
        PROVE  /\ invoices'[i].closed = invoices[i].closed
               /\ Ahead(invoices, i) \subseteq Ahead(invoices', i)
    <2>1. i # j
      BY <1>5
    <2>2. QED BY <1>1, <1>6, <2>1, AheadGrows DEF LateInvoices
  <1>7. QED BY <1>3, <1>4, <1>5, <1>6, WalkGoesOn

LEMMA ReorderCovers ==
  ASSUME PaperTypes, LateInvoices, NEW j \in Invoices, NEW k \in Invoices, Reorder(j, k)
  PROVE  LateInvoices'
  <1>1. \A i \in Invoices : invoices'[i].posted = invoices[i].posted /\ invoices'[i].closed = invoices[i].closed
    BY BooksAreTyped DEF Reorder, Invoice
  <1>2. edits'.day = edits.day
    <2>1. Counted("order")
      BY DEF Reorder
    <2>2. QED BY <2>1, KindsOfEdits DEF Counted, PaperTypes
  <1>3. /\ walk'.touched = walk.touched /\ walk'.tied = walk.tied \cup Tied(invoices)
        /\ walk'.short = walk.short
        /\ walk'.seen = walk.seen /\ walk'.offset = walk.offset /\ walk'.total = walk.total
    BY DEF Reorder, PaperTypes, Walk
  <1>4. Exempt' = Exempt \cup Tied(invoices)
    BY <1>3 DEF Exempt
  <1>5. \A i \in Invoices \ Exempt' : Ahead(invoices, i) \subseteq Ahead(invoices', i)
    BY <1>4, AheadIsKept
  <1>6. \A i \in Invoices : invoices'[i].posted <= edits'.day
    BY <1>1, <1>2 DEF LateInvoices, WalkCovers
  <1>7. QED BY <1>1, <1>3, <1>4, <1>5, <1>6, WalkGoesOn

LEMMA DayPassesCovers ==
  ASSUME PaperTypes, LateInvoices, DayPasses
  PROVE  LateInvoices'
  <1>1. invoices' = invoices /\ walk' = walk /\ edits'.day = edits.day + 1
    BY KindsOfEdits DEF DayPasses, Counted, PaperTypes
  <1>2. \A i \in Invoices : invoices'[i].posted <= edits'.day
    <2>1. SUFFICES ASSUME NEW i \in Invoices PROVE invoices'[i].posted <= edits'.day
      OBVIOUS
    <2>2. invoices[i].posted <= edits.day /\ invoices[i].posted \in Int /\ edits.day \in Int
      BY BooksAreTyped DEF LateInvoices, WalkCovers
    <2>3. QED BY <1>1, <2>2
  <1>3. Exempt' = Exempt
    BY <1>1 DEF Exempt
  <1>4. QED BY <1>1, <1>2, <1>3, WalkGoesOn

\* Whatever leaves the invoices alone, and goes on with the walk or leaves
\* it, keeps this.
LEMMA OthersCover ==
  ASSUME LateInvoices, UNCHANGED invoices, edits'.day = edits.day, walk' \in {walk, NoWalk}
  PROVE  LateInvoices'
  BY DEF LateInvoices, WalkCovers, Exempt, ShowMoreMissesOnlyTies, NoWalk, Ahead

\* A page read at an offset, where all that is not seen lies at the offset
\* or behind it: what is still not seen lies behind the page, and behind
\* the last page there is nothing.
LEMMA ReadLateCovers ==
  ASSUME PaperTypes, WalkCovers,
         NEW offset \in Nat, NEW before \in Walk, ReadLate(offset, before),
         ~before.short =>
           \A i \in Invoices \ (before.touched \cup before.tied) : invoices[i].closed =>
             i \in before.seen \/ Cardinality(Ahead(invoices, i)) >= offset
  PROVE  walk' \in Walk /\ LateInvoices'
  <1> DEFINE gots == IF link = "up" THEN {Invoices} ELSE CutShort
             Read(got) ==
               LET list == [i \in Invoices |-> [invoices[i] EXCEPT !.closed = @ /\ i \in got]]
               IN walk' = [before EXCEPT !.offset = offset,
                             !.total = Cardinality({i \in Invoices : list[i].closed}),
                             !.seen = @ \cup LatePage(list, offset),
                             !.short = @ \/ got # Invoices]
  <1>1. \E got \in gots : Read(got)
    BY DEF ReadLate
  <1>2. \A got \in gots : got \subseteq Invoices
    BY DEF CutShort
  <1>3. PICK got \in SUBSET Invoices : Read(got)
    <2> HIDE DEF gots, Read
    <2>1. QED BY <1>1, <1>2
  <1> DEFINE list == [i \in Invoices |-> [invoices[i] EXCEPT !.closed = invoices[i].closed /\ i \in got]]
             period == {i \in Invoices : list[i].closed}
             page == LatePage(list, offset)
  <1>4. walk' = [before EXCEPT !.offset = offset, !.total = Cardinality(period),
                               !.seen = before.seen \cup page,
                               !.short = before.short \/ got # Invoices]
    BY <1>3
  <1>5. page \subseteq Invoices
    BY DEF LatePage
  <1>6. Cardinality(period) \in Nat
    <2>1. period \in SUBSET Invoices
      OBVIOUS
    <2> HIDE DEF period
    <2>2. QED BY <2>1, FigureAssumption, FS_Subset, FS_CardinalityType
  <1>7. got = Invoices => list = invoices
    <2>1. SUFFICES ASSUME got = Invoices PROVE list = invoices
      OBVIOUS
    <2>2. \A i \in Invoices : invoices[i] \in Invoice
      BY BooksAreTyped
    <2>3. \A r \in Invoice : [r EXCEPT !.closed = r.closed /\ TRUE] = r
      BY DEF Invoice
    <2>4. \A i \in Invoices : list[i] = invoices[i]
      BY <2>1, <2>2, <2>3
    <2>5. QED BY <2>4, BooksAreTyped
  <1>8. UNCHANGED <<invoices, edits>> /\ \A i \in Invoices : invoices[i].posted <= edits.day
    BY DEF ReadLate, WalkCovers, Outside
  <1> HIDE DEF list, page, period
  <1>9. walk' \in Walk
    BY <1>4, <1>5, <1>6 DEF Walk
  <1>10. /\ walk'.offset = offset /\ walk'.total = Cardinality(period)
         /\ walk'.seen = before.seen \cup page
         /\ Exempt' = before.touched \cup before.tied
         /\ ~walk'.short => ~before.short /\ got = Invoices
    BY <1>4 DEF Walk, Exempt
  <1>11. ASSUME ~walk'.short, NEW i \in Invoices \ Exempt', invoices[i].closed
        PROVE  /\ i \in walk'.seen \/ Cardinality(Ahead(invoices, i)) >= walk'.offset + Limit
               /\ Cardinality(Ahead(invoices, i)) < walk'.total
    <2>1. list = invoices /\ ~before.short /\ i \in Invoices \ (before.touched \cup before.tied)
      BY <1>7, <1>10, <1>11
    <2>2. i \in before.seen \/ Cardinality(Ahead(invoices, i)) >= offset
      BY <1>11, <2>1
    <2>3. Cardinality(Ahead(invoices, i)) \in Nat
      BY AheadIsFinite
    <2>4. Cardinality(Ahead(invoices, i)) \in offset .. offset + Limit - 1 => i \in page
      BY <1>11, <2>1 DEF page, LatePage
    <2>5. i \in walk'.seen \/ Cardinality(Ahead(invoices, i)) >= walk'.offset + Limit
      BY <1>10, <2>2, <2>3, <2>4, PaperAssumption
    <2>6. Cardinality(Ahead(invoices, i)) < Cardinality(period)
      BY <1>11, <2>1, BooksAreTyped, AheadIsFewer DEF period
    <2>7. QED BY <1>10, <2>5, <2>6
  <1>12. WalkCovers'
    BY <1>8, <1>11 DEF WalkCovers
  <1>13. ShowMoreMissesOnlyTies'
    <2>1. SUFFICES ASSUME walk'.offset + Limit >= walk'.total, ~walk'.short,
                          NEW i \in Invoices \ Exempt', invoices'[i].closed
                   PROVE  i \in walk'.seen
      BY DEF ShowMoreMissesOnlyTies, Exempt
    <2>2. Cardinality(Ahead(invoices, i)) \in Nat /\ walk'.offset \in Nat /\ walk'.total \in Nat
      BY <1>6, <1>10, AheadIsFinite
    <2>3. /\ i \in walk'.seen \/ Cardinality(Ahead(invoices, i)) >= walk'.offset + Limit
          /\ Cardinality(Ahead(invoices, i)) < walk'.total
      BY <1>8, <1>11, <2>1
    <2>4. QED BY <2>1, <2>2, <2>3, PaperAssumption
  <1>14. QED BY <1>9, <1>12, <1>13 DEF LateInvoices

LEMMA ShowLateCovers ==
  ASSUME PaperTypes, LateInvoices, ShowLate
  PROVE  PaperTypes' /\ LateInvoices' /\ screen' = Idle
  <1>1. ReadLate(0, NoWalk) /\ screen' = Idle
    BY DEF ShowLate
  <1>2. NoWalk \in Walk
    BY DEF NoWalk, Walk
  <1>3. \A i \in Invoices : Cardinality(Ahead(invoices, i)) >= 0
    BY AheadIsFinite
  <1>4. walk' \in Walk /\ LateInvoices'
    BY <1>1, <1>2, <1>3, ReadLateCovers DEF LateInvoices
  <1>5. UNCHANGED <<choices, notes, edits>> /\ UNCHANGED Outside
    BY <1>1 DEF ReadLate
  <1>6. QED BY <1>1, <1>4, <1>5, IdleIsAScreen DEF PaperTypes, OutsideTypes, Outside

LEMMA ShowMoreCovers ==
  ASSUME PaperTypes, LateInvoices, ShowMore
  PROVE  PaperTypes' /\ LateInvoices' /\ screen' = screen
  <1>1. ReadLate(walk.offset + Limit, walk) /\ screen' = screen /\ walk.offset + Limit < walk.total
    BY DEF ShowMore
  <1>2. walk \in Walk /\ walk.offset \in Nat /\ walk.total \in Nat /\ walk.offset + Limit \in Nat
    BY PaperAssumption DEF PaperTypes, Walk
  <1>3. walk.total > 0
    BY <1>1, <1>2, PaperAssumption
  <1>4. walk' \in Walk /\ LateInvoices'
    <2> DEFINE next == walk.offset + Limit
    <2>1. next \in Nat /\ ReadLate(next, walk)
      BY <1>1, <1>2
    <2>2. ~walk.short =>
            \A i \in Invoices \ (walk.touched \cup walk.tied) : invoices[i].closed =>
              i \in walk.seen \/ Cardinality(Ahead(invoices, i)) >= next
      BY <1>3 DEF LateInvoices, WalkCovers, Exempt
    <2> HIDE DEF next
    <2>3. QED BY <1>2, <2>1, <2>2, ReadLateCovers DEF LateInvoices
  <1>5. UNCHANGED <<choices, notes, edits>> /\ UNCHANGED Outside
    BY <1>1 DEF ReadLate
  <1>6. QED BY <1>1, <1>4, <1>5 DEF PaperTypes, OutsideTypes, Outside

-----------------------------------------------------------------------------
(* The invariant.                                                          *)

PaperInv == PaperTypes /\ ScreenAgrees /\ LateInvoices

LEMMA InitPapers == Init => PaperInv
  <1>1. SUFFICES ASSUME Init PROVE PaperInv
    OBVIOUS
  <1>2. /\ choices = [excluded |-> {}, hidden |-> {}, ok |-> {}, registered |-> FALSE,
                      statement |-> [x \in Accounts \X Periods |-> None],
                      filed |-> NoFigures, dismissed |-> {}]
        /\ [x \in Accounts \X Periods |-> None] \in [Accounts \X Periods -> Stated \cup {None}]
        /\ NoFigures \in [Periods -> Figures \cup {None}]
    BY <1>1 DEF Init, NoFigures
  <1>3. choices \in Entries
    BY <1>2 DEF Entries
  <1>4. OutsideTypes
    <2>1. invoices \in [Invoices -> Invoice]
      BY <1>1, PaperAssumption DEF Init, Invoice
    <2>2. xero \in [Txns -> TxnStates] /\ mirror \in [Txns -> TxnStates]
      BY <1>1 DEF Init, Nothing, TxnStates
    <2>3. sheets \in [Periods -> Sheets \cup {<<>>}]
      BY <1>1 DEF Init
    <2>4. QED BY <1>1, <2>1, <2>2, <2>3 DEF OutsideTypes, Init, Links
  <1>5. NoWalk \in Walk
    BY DEF NoWalk, Walk
  <1>6. /\ edits \in [DOMAIN MaxEdits -> Nat]
        /\ \A k \in DOMAIN MaxEdits : edits[k] = 0 /\ edits[k] <= MaxEdits[k]
    BY <1>1, KindsOfEdits DEF Init
  <1>7. PaperTypes
    BY <1>1, <1>3, <1>4, <1>5, <1>6, IdleIsAScreen DEF PaperTypes, Init
  <1>8. ScreenAgrees
    BY <1>1 DEF ScreenAgrees, Init, Idle
  <1>9. LateInvoices
    <2>1. \A i \in Invoices : invoices[i].posted = 0
      BY <1>1 DEF Init
    <2>2. edits.day = 0
      BY <1>6, KindsOfEdits
    <2>3. walk.total = 0
      BY <1>1 DEF Init, NoWalk
    <2>4. QED BY <2>1, <2>2, <2>3 DEF LateInvoices, WalkCovers, ShowMoreMissesOnlyTies
  <1>10. QED BY <1>7, <1>8, <1>9 DEF PaperInv

\* Nothing else that happens outside touches the invoices.
LEMMA OtherStepsOutside ==
  ASSUME PaperTypes,
         \/ \E t \in Txns : EditTxn(t)
         \/ Sync
         \/ \E l \in Links : Relink(l)
         \/ Refile
         \/ \E p \in Periods : Restate(p)
         \/ \E d \in Pool \ documents : Post(d)
  PROVE  UNCHANGED <<invoices, walk>> /\ edits'.day = edits.day
  <1>1. ASSUME NEW k \in DOMAIN MaxEdits \ {"day"}, Counted(k)
        PROVE  edits'.day = edits.day
    BY <1>1, KindsOfEdits DEF Counted, PaperTypes
  <1>2. {"txn", "link", "house", "sheet", "doc"} \subseteq DOMAIN MaxEdits \ {"day"}
    BY KindsOfEdits
  <1>3. QED BY <1>1, <1>2 DEF EditTxn, Sync, Relink, Refile, Restate, Post

LEMMA NextPapers == PaperInv /\ [Next]_vars => PaperInv'
  <1> USE DEF PaperInv
  <1>1. ASSUME PaperInv, OutsideStep PROVE PaperInv'
    <2>1. PaperTypes' /\ screen' = screen
      BY <1>1, OutsideStepTypes
    <2>2. ScreenAgrees'
      BY <1>1, <2>1 DEF ScreenAgrees, BalancesAgree, ItemsAgree, OpeningAgrees, Answered
    <2>3. CASE \E j \in Invoices, closed \in BOOLEAN : EditInvoice(j, closed)
      BY <1>1, <2>1, <2>2, <2>3, EditInvoiceCovers
    <2>4. CASE DayPasses
      BY <1>1, <2>1, <2>2, <2>4, DayPassesCovers
    <2>5. CASE \E i, j \in Invoices : Reorder(i, j)
      BY <1>1, <2>1, <2>2, <2>5, ReorderCovers
    <2>6. CASE /\ ~\E j \in Invoices, closed \in BOOLEAN : EditInvoice(j, closed)
               /\ ~DayPasses /\ ~\E i, j \in Invoices : Reorder(i, j)
      <3>1. UNCHANGED <<invoices, walk>> /\ edits'.day = edits.day
        BY <1>1, <2>6, OtherStepsOutside DEF OutsideStep
      <3>2. QED BY <1>1, <2>1, <2>2, <3>1, OthersCover
    <2>7. QED BY <2>3, <2>4, <2>5, <2>6
  <1>2. ASSUME PaperInv, EntryStep PROVE PaperInv'
    <2>1. PaperTypes' /\ UNCHANGED <<screen, walk, invoices>> /\ edits'.day = edits.day
      BY <1>2, EntryStepTypes
    <2>2. ScreenAgrees'
      BY <1>2, <2>1 DEF ScreenAgrees, BalancesAgree, ItemsAgree, OpeningAgrees, Answered
    <2>3. LateInvoices'
      BY <1>2, <2>1, OthersCover
    <2>4. QED BY <2>1, <2>2, <2>3
  <1>3. ASSUME PaperInv, ReadingStep PROVE PaperInv'
    <2>1. screen' \in Screen /\ ScreenAgrees'
      BY <1>3, ReadingStepAgrees
    <2>2. UNCHANGED <<choices, notes, edits>> /\ UNCHANGED Outside /\ walk' \in {walk, NoWalk}
      BY <1>3, ReadingStepKeeps
    <2>3. walk' \in Walk
      <3>1. walk \in Walk /\ NoWalk \in Walk
        BY <1>3 DEF PaperTypes, Walk, NoWalk
      <3>2. QED BY <2>2, <3>1
    <2>4. PaperTypes'
      BY <1>3, <2>1, <2>2, <2>3 DEF PaperTypes, OutsideTypes, Outside
    <2>5. LateInvoices'
      BY <1>3, <2>2, OthersCover DEF Outside
    <2>6. QED BY <2>1, <2>4, <2>5
  <1>4. ASSUME PaperInv, ShowLate PROVE PaperInv'
    BY <1>4, ShowLateCovers DEF ScreenAgrees, Idle
  <1>5. ASSUME PaperInv, ShowMore PROVE PaperInv'
    <2>1. PaperTypes' /\ LateInvoices' /\ screen' = screen
      BY <1>5, ShowMoreCovers
    <2>2. ScreenAgrees'
      BY <1>5, <2>1 DEF ScreenAgrees, BalancesAgree, ItemsAgree, OpeningAgrees, Answered
    <2>3. QED BY <2>1, <2>2
  <1>6. ASSUME PaperInv, UNCHANGED vars PROVE PaperInv'
    <2>1. PaperTypes'
      BY <1>6 DEF vars, PaperTypes, OutsideTypes
    <2>2. ScreenAgrees'
      BY <1>6 DEF vars, ScreenAgrees, BalancesAgree, ItemsAgree, OpeningAgrees, Answered
    <2>3. LateInvoices'
      BY <1>6 DEF vars, LateInvoices, WalkCovers, Exempt, ShowMoreMissesOnlyTies, Ahead
    <2>4. QED BY <2>1, <2>2, <2>3
  <1>7. Next => OutsideStep \/ EntryStep \/ ReadingStep \/ ShowLate \/ ShowMore
    BY DEF Next, OutsideStep, EntryStep, ReadingStep
  <1> HIDE DEF PaperInv
  <1>8. QED BY <1>1, <1>2, <1>3, <1>4, <1>5, <1>6, <1>7

LEMMA PaperInvariant == Spec => []PaperInv
  BY InitPapers, NextPapers, PTL DEF Spec

-----------------------------------------------------------------------------
(* What an accountant may conclude.                                        *)

\* On the bank balances: a quiet account has no line and no difference.
LEMMA QuietBalance ==
  ASSUME PaperTypes, ScreenAgrees, NEW x, screen.whole, Quiet(x), screen.op = "balances"
  PROVE  Settled(x)
  <1> DEFINE stated == screen.read.statement[<<x, screen.period>>]
             lines == OutstandingOn(x, screen.rows)
             line == BankLine(x, screen.period, screen.read, screen.gl, screen.rows)
  <1>1. /\ Answered /\ x \notin screen.shown
        /\ x \in Accounts \ screen.read.excluded /\ <<x, screen.period>> \notin screen.read.ok
    BY DEF Quiet
  <1>2. /\ screen.read \in Entries /\ screen.period \in Periods /\ screen.known = Accounts
        /\ screen.shown = ShownAccounts(screen.read, screen.period, screen.all,
                                        screen.known, screen.gl, screen.rows)
    BY <1>1 DEF ScreenAgrees, BalancesAgree, Answered
  <1>3. ~line.flagged
    BY <1>1, <1>2 DEF ShownAccounts
  <1>4. /\ lines = {}
        /\ stated # None /\ screen.gl # None =>
             ~(stated - screen.gl[x] # None /\ Absolute(stated - screen.gl[x]) > Tolerance)
    BY <1>1, <1>3 DEF BankLine
  <1>5. stated \in Int \cup {None}
    BY <1>1, <1>2, FigureAssumption DEF Entries
  <1>6. screen.gl # None => screen.gl[x] \in Int
    BY <1>1 DEF PaperTypes, Screen
  <1>7. stated # None /\ screen.gl # None => Absolute(stated - screen.gl[x]) <= Tolerance
    BY <1>4, <1>5, <1>6, FigureAssumption DEF Absolute
  <1>8. \A t \in Txns : ~(/\ Txn[t].account = x /\ Txn[t].type \in {"RECEIVE", "SPEND"}
                          /\ screen.rows[t] = "open")
    BY <1>4 DEF OutstandingOn
  <1>9. QED BY <1>7, <1>8 DEF Settled

\* On the list of unreconciled items: a quiet account has no open line.
LEMMA QuietItems ==
  ASSUME ScreenAgrees, NEW x, Quiet(x), screen.op = "items"
  PROVE  Settled(x)
  <1>1. Answered /\ x \notin screen.shown /\ x \in Accounts \ screen.read.hidden
    BY DEF Quiet
  <1>2. screen.shown = UnreconciledAccounts(screen.rows, screen.read.hidden)
    BY <1>1 DEF ScreenAgrees, ItemsAgree, Answered
  <1>3. \A t \in Txns : ~(/\ Txn[t].account = x /\ Txn[t].type \in {"RECEIVE", "SPEND"}
                          /\ screen.rows[t] = "open")
    BY <1>1, <1>2 DEF UnreconciledAccounts
  <1>4. QED BY <1>3 DEF Settled

\* On the opening balances: a quiet period does not differ, and what was
\* entered is what was compared.
LEMMA QuietOpening ==
  ASSUME PaperTypes, ScreenAgrees, NEW x, Quiet(x), screen.op = "opening"
  PROVE  Settled(x)
  <1> DEFINE filed == screen.read.filed[x]
             figure == IF filed # None THEN filed ELSE screen.figures[x]
  <1>1. Answered /\ x \notin screen.shown /\ x \in Periods \ screen.read.dismissed
    BY DEF Quiet
  <1>2. /\ filed # None => screen.figures[x] = filed
        /\ screen.shown = {p \in Periods : /\ Differs(screen.figures[p], screen.reported[p])
                                           /\ screen.all \/ p \notin screen.read.dismissed}
    BY <1>1 DEF ScreenAgrees, OpeningAgrees, Answered
  <1>3. figure = screen.figures[x] /\ ~Differs(screen.figures[x], screen.reported[x])
    BY <1>1, <1>2
  <1>4. screen.figures[x] \in Int \cup {None} /\ screen.reported[x] \in Int \cup {None}
    BY <1>1 DEF PaperTypes, Screen, Figure
  <1>5. figure # None /\ screen.reported[x] # None => Absolute(figure - screen.reported[x]) < Least
    BY <1>3, <1>4, FigureAssumption DEF Differs, Absolute
  <1>6. QED BY <1>5 DEF Settled

-----------------------------------------------------------------------------
(* The theorems.                                                           *)

\* The variables keep their types whatever is entered, synced, refiled or
\* booked while a screen is read.
THEOREM TypeCorrect == Spec => []TypeOK
  <1>1. PaperInv => TypeOK
    <2>1. SUFFICES ASSUME PaperInv PROVE TypeOK
      OBVIOUS
    <2>2. PaperTypes /\ screen \in Screen /\ walk \in Walk
      BY <2>1 DEF PaperInv, PaperTypes
    <2>3. DOMAIN screen = DOMAIN Idle
      BY <2>2 DEF Screen, Idle
    <2>4. screen.shown \subseteq Accounts \cup Periods /\ screen.todo \subseteq Periods
      BY <2>2 DEF Screen
    <2>5. walk.seen \subseteq Invoices /\ walk.touched \subseteq Invoices /\ walk.tied \subseteq Invoices
      BY <2>2 DEF Walk
    <2>6. \A k \in DOMAIN MaxEdits : edits[k] \in 0 .. MaxEdits[k]
      BY <2>2, KindsOfEdits DEF PaperTypes
    <2>7. \A i \in Invoices : invoices[i].posted \in 0 .. edits.day
      <3>1. \A i \in Invoices : invoices[i].posted <= edits.day
        BY <2>1 DEF PaperInv, LateInvoices, WalkCovers
      <3>2. edits.day \in Nat
        BY <2>2, BooksAreTyped
      <3>3. \A i \in Invoices : invoices[i].posted \in Nat
        BY <2>2 DEF PaperTypes, OutsideTypes, Invoice
      <3>4. QED BY <3>1, <3>2, <3>3
    <2>8. QED BY <2>2, <2>3, <2>4, <2>5, <2>6, <2>7 DEF TypeOK, PaperTypes, OutsideTypes
  <1>2. QED BY <1>1, PaperInvariant, PTL

\* Where every report could be read, an account or a period that none of the
\* three screens shows, and that nobody put aside, is settled: the lists of
\* bank_balance_service, unreconciled_bank_service and
\* opening_balance_service leave out nothing that is open or differs.
THEOREM QuietIsSettled == Spec => []QuietMeansSettled
  <1>1. PaperInv => QuietMeansSettled
    <2>1. SUFFICES ASSUME PaperInv, NEW x, screen.whole, Quiet(x) PROVE Settled(x)
      BY DEF QuietMeansSettled
    <2>2. PaperTypes /\ ScreenAgrees /\ Answered
      BY <2>1 DEF PaperInv, Quiet
    <2>3. screen.op \in {"balances", "items", "opening"}
      BY <2>2 DEF ScreenAgrees, Answered
    <2>4. QED BY <2>1, <2>2, <2>3, QuietBalance, QuietItems, QuietOpening
  <1>2. QED BY <1>1, PaperInvariant, PTL

\* Who walks the late invoices with "Show More" to the end of the list has
\* seen every invoice of the closed period that nobody edited meanwhile and
\* that had its day to itself when Xero's order changed, for pages of any
\* length and any number of edits, days and changes of order between them.
THEOREM ShowMoreReachesAll == Spec => []ShowMoreMissesOnlyTies
  <1>1. PaperInv => ShowMoreMissesOnlyTies
    BY DEF PaperInv, LateInvoices
  <1>2. QED BY <1>1, PaperInvariant, PTL

-----------------------------------------------------------------------------
(* The schedules.                                                          *)

\* What a division rounds down to.
LEMMA Quotient ==
  ASSUME NEW n \in Int, NEW d \in Nat \ {0}
  PROVE  n \div d \in Int /\ d * (n \div d) <= n /\ n < d * (n \div d) + d
  OBVIOUS

LEMMA QuotientIs ==
  ASSUME NEW n \in Int, NEW d \in Nat \ {0}, NEW q \in Int, d * q <= n, n < d * q + d
  PROVE  n \div d = q
  OBVIOUS

\* On the way from a month to one that is not in a set there is a first such.
LEMMA FirstAbove ==
  ASSUME NEW m \in Int, NEW n \in Nat, NEW months, m + n \notin months
  PROVE  \E k \in Nat : m + k \notin months /\ \A i \in 0 .. k - 1 : m + i \in months
  <1> DEFINE out == {k \in Nat : m + k \notin months}
  <1>1. out \in SUBSET Nat /\ n \in out
    OBVIOUS
  <1>2. Lower(out) \in out /\ \A y \in out : Lower(out) <= y
    BY <1>1, LowerIsLeast
  <1>3. \A i \in 0 .. Lower(out) - 1 : i \in Nat /\ i \notin out
    BY <1>2
  <1>4. QED BY <1>2, <1>3

LEMMA FirstBelow ==
  ASSUME NEW m \in Int, NEW n \in Nat, NEW months, m - n \notin months
  PROVE  \E k \in Nat : m - k \notin months /\ \A i \in 0 .. k - 1 : m - i \in months
  <1> DEFINE out == {k \in Nat : m - k \notin months}
  <1>1. out \in SUBSET Nat /\ n \in out
    OBVIOUS
  <1>2. Lower(out) \in out /\ \A y \in out : Lower(out) <= y
    BY <1>1, LowerIsLeast
  <1>3. \A i \in 0 .. Lower(out) - 1 : i \in Nat /\ i \notin out
    BY <1>2
  <1>4. QED BY <1>2, <1>3

\* Every month of a bounded set lies in a run of it.
LEMMA RunsCover ==
  ASSUME NEW lo \in Int, NEW hi \in Int, NEW months \in SUBSET (lo .. hi)
  PROVE  UNION Runs(months) = months
  <1>1. ASSUME NEW m \in months PROVE m \in UNION Runs(months)
    <2>1. m \in Int /\ lo <= m /\ m <= hi
      OBVIOUS
    <2>2. /\ hi - m + 1 \in Nat /\ m + (hi - m + 1) \notin months
          /\ m - lo + 1 \in Nat /\ m - (m - lo + 1) \notin months
      BY <2>1
    <2>3. PICK up \in Nat : m + up \notin months /\ \A i \in 0 .. up - 1 : m + i \in months
      BY <2>1, <2>2, FirstAbove
    <2>4. PICK down \in Nat : m - down \notin months /\ \A i \in 0 .. down - 1 : m - i \in months
      BY <2>1, <2>2, FirstBelow
    <2> DEFINE p == m - down + 1
               q == m + up - 1
    <2>5. up > 0 /\ down > 0
      BY <2>1, <2>3, <2>4
    <2>6. ASSUME NEW x \in p .. q PROVE x \in months
      <3>1. CASE x >= m
        <4>1. x - m \in 0 .. up - 1 /\ m + (x - m) = x
          BY <2>1, <3>1
        <4>2. QED BY <2>3, <4>1
      <3>2. CASE x < m
        <4>1. m - x \in 0 .. down - 1 /\ m - (m - x) = x
          BY <2>1, <3>2
        <4>2. QED BY <2>4, <4>1
      <3>3. QED BY <2>1, <3>1, <3>2
    <2>7. p - 1 \notin months /\ q + 1 \notin months
      BY <2>1, <2>3, <2>4
    <2>8. p \in months /\ q \in months /\ p <= q /\ m \in p .. q
      BY <2>1, <2>5, <2>6
    <2>9. p .. q \in Runs(months)
      <3> HIDE DEF p, q
      <3>1. <<p, q>> \in months \X months /\ p .. q \subseteq months
        BY <2>6, <2>8
      <3>2. QED BY <2>7, <2>8, <3>1 DEF Runs
    <2>10. QED BY <2>8, <2>9
  <1>2. ASSUME NEW g \in Runs(months) PROVE g \subseteq months
    BY DEF Runs
  <1>3. QED BY <1>1, <1>2

\* No two runs of a set share a month.
LEMMA RunsAreApart ==
  ASSUME NEW months \in SUBSET Int, NEW f \in Runs(months), NEW g \in Runs(months), f \cap g # {}
  PROVE  f = g
  <1>1. PICK p \in months, q \in months :
          f = p .. q /\ p <= q /\ p .. q \subseteq months /\ p - 1 \notin months /\ q + 1 \notin months
    BY DEF Runs
  <1>2. PICK r \in months, s \in months :
          g = r .. s /\ r <= s /\ r .. s \subseteq months /\ r - 1 \notin months /\ s + 1 \notin months
    BY DEF Runs
  <1>3. PICK x \in Int : p <= x /\ x <= q /\ r <= x /\ x <= s
    BY <1>1, <1>2
  <1>4. ~(p < r) /\ ~(r < p)
    <2>1. p < r => r - 1 \in p .. q
      BY <1>3
    <2>2. r < p => p - 1 \in r .. s
      BY <1>3
    <2>3. QED BY <1>1, <1>2, <2>1, <2>2
  <1>5. ~(q < s) /\ ~(s < q)
    <2>1. q < s => q + 1 \in r .. s
      BY <1>3
    <2>2. s < q => s + 1 \in p .. q
      BY <1>3
    <2>3. QED BY <1>1, <1>2, <2>1, <2>2
  <1>6. p = r /\ q = s
    BY <1>4, <1>5
  <1>7. QED BY <1>1, <1>2, <1>6

\* Of an account that posts often every gap is reported once, of a regular one
\* its last month, and of no account a month in which it posted
\* (find_missing_accruals).
LEMMA GapsAreReported == EveryGapIsReported
  <1> DEFINE year == YearMonths(YearEnd, Columns)
             last == MonthOf(YearEnd)
             all == MissingAccruals(documents, Chart, YearEnd, Columns, LeastMonths)
  <1>1. SUFFICES ASSUME NEW c \in ExpenseCodes(Chart)
                 PROVE  LET posted == {m \in year : \E d \in documents : MonthOf(d.date) = m /\ \E line \in LineSet(d) :
                                         line.account = c /\ line.amount # None /\ line.amount > 0}
                            of == {f \in all : f.code = c}
                            reported == UNION {f.months : f \in of}
                        IN /\ reported \cap posted = {} /\ reported \subseteq year
                           /\ \A f, g \in of : f # g => f.months \cap g.months = {}
                           /\ Cardinality(posted) >= LeastMonths => reported = year \ posted
                           /\ "regular" \in NameTags(Chart, c) /\ last \notin posted => last \in reported
    BY DEF EveryGapIsReported
  <1> DEFINE posted == {m \in year : \E d \in documents : MonthOf(d.date) = m /\ \E line \in LineSet(d) :
                          line.account = c /\ line.amount # None /\ line.amount > 0}
             ever == PostedMonths(documents, c)
             often == Cardinality(ever \cap year) >= LeastMonths
             open == (year \ {last}) \ ever
             gaps == IF often THEN Runs(open) ELSE {}
             regular == often \/ "regular" \in NameTags(Chart, c)
             ends == IF regular THEN {last} \ ever ELSE {}
             Gap(g) == [code |-> c, months |-> g,
                        reason |-> IF Cardinality(g) >= 2 THEN "large_gap" ELSE "missing_month"]
             End == [code |-> c, months |-> {last},
                     reason |-> IF last + 1 \in ever THEN "post_year_cutoff" ELSE "final_month_missing"]
             found == {Gap(g) : g \in gaps} \cup {End : m \in ends}
             of == {f \in all : f.code = c}
             reported == UNION {f.months : f \in of}
  <1>2. posted = ever \cap year
    BY DEF PostedMonths
  <1>3. found = AccrualFindings(documents, Chart, c, YearEnd, Columns, LeastMonths)
    BY DEF AccrualFindings
  <1>4. of = found
    <2>1. \A k \in ExpenseCodes(Chart) :
            \A f \in AccrualFindings(documents, Chart, k, YearEnd, Columns, LeastMonths) : f.code = k
      BY DEF AccrualFindings
    <2> DEFINE Of(k) == AccrualFindings(documents, Chart, k, YearEnd, Columns, LeastMonths)
    <2>2. all = UNION {Of(k) : k \in ExpenseCodes(Chart)}
      BY DEF MissingAccruals
    <2>3. found = Of(c) /\ \A k \in ExpenseCodes(Chart) : \A f \in Of(k) : f.code = k
      BY <1>3, <2>1
    <2> HIDE DEF Of, found, all
    <2>4. \A f \in all : f.code = c => f \in found
      BY <2>2, <2>3
    <2>5. \A f \in found : f \in all /\ f.code = c
      BY <2>2, <2>3
    <2>6. QED BY <2>4, <2>5
  <1>5. last \in Int /\ year = last - (Columns - 1) .. last /\ last \in year
    BY PoolAssumption, PaperAssumption, MonthDaysAssumption DEF YearMonths, MonthOf
  <1>6. \A f \in found : (\E g \in gaps : f = Gap(g)) \/ (f = End /\ last \in ends)
    OBVIOUS
  <1>7. \A g \in gaps : Gap(g).months = g /\ Gap(g) \in found
    OBVIOUS
  <1>8. End.months = {last} /\ (last \in ends => End \in found)
    OBVIOUS
  <1>9. open \in SUBSET (last - (Columns - 1) .. last) /\ open = (year \ {last}) \ posted
    BY <1>2, <1>5
  <1>10. /\ ends \subseteq {last} /\ (last \in ends <=> regular /\ last \notin posted)
    BY <1>2, <1>5
  <1>11. often <=> Cardinality(posted) >= LeastMonths
    BY <1>2
  <1>12. posted \subseteq year
    OBVIOUS
  <1> HIDE DEF of, found, Gap, End, posted, year, last, open, ends, all, ever
  <1>13. UNION gaps \subseteq open /\ (often => UNION gaps = open)
    <2> DEFINE first == last - (Columns - 1)
    <2>1. first \in Int /\ open \in SUBSET (first .. last)
      BY <1>5, <1>9, PaperAssumption
    <2> HIDE DEF first
    <2>2. UNION Runs(open) = open
      BY <1>5, <2>1, RunsCover
    <2>3. QED BY <2>2
  <1> DEFINE covered == UNION gaps
  <1>14. \A m : m \in covered <=> \E g \in gaps : m \in g
    OBVIOUS
  <1>15. \A f, g \in gaps : f # g => f \cap g = {}
    <2>1. open \in SUBSET Int
      BY <1>5, <1>9
    <2>2. QED BY <2>1, RunsAreApart
  <1>16. covered \subseteq open /\ (often => covered = open)
    BY <1>13
  <1> HIDE DEF gaps, covered
  <1>17. \A m : m \in reported <=> \E f \in of : m \in f.months
    OBVIOUS
  <1> HIDE DEF reported
  <1>18. reported = covered \cup ends
    <2>1. ASSUME NEW m \in reported PROVE m \in covered \cup ends
      <3>1. PICK f \in found : m \in f.months
        BY <1>4, <1>17
      <3>2. CASE f = End /\ last \in ends
        BY <1>8, <3>1, <3>2
      <3>3. CASE \E g \in gaps : f = Gap(g)
        BY <1>7, <1>14, <3>1, <3>3
      <3>4. QED BY <1>6, <3>1, <3>2, <3>3
    <2>2. ASSUME NEW m \in covered \cup ends PROVE m \in reported
      <3>1. CASE m \in ends
        BY <1>4, <1>8, <1>10, <1>17, <3>1
      <3>2. CASE m \in covered
        <4>1. PICK g \in gaps : m \in g
          BY <1>14, <3>2
        <4>2. QED BY <1>4, <1>7, <1>17, <4>1
      <3>3. QED BY <3>1, <3>2
    <2>3. QED BY <2>1, <2>2
  <1>19. /\ reported \cap posted = {} /\ reported \subseteq year
    BY <1>5, <1>9, <1>10, <1>16, <1>18
  <1>20. ASSUME NEW f \in of, NEW g \in of, f # g PROVE f.months \cap g.months = {}
    <2>1. CASE f = End
      <3>1. PICK h \in gaps : g = Gap(h)
        BY <1>4, <1>6, <1>20, <2>1
      <3>2. g.months = h /\ h \subseteq covered /\ f.months = {last} /\ last \notin open
        BY <1>7, <1>8, <1>9, <1>14, <2>1, <3>1
      <3>3. QED BY <1>16, <3>2
    <2>2. CASE g = End
      <3>1. PICK h \in gaps : f = Gap(h)
        BY <1>4, <1>6, <1>20, <2>2
      <3>2. f.months = h /\ h \subseteq covered /\ g.months = {last} /\ last \notin open
        BY <1>7, <1>8, <1>9, <1>14, <2>2, <3>1
      <3>3. QED BY <1>16, <3>2
    <2>3. CASE f # End /\ g # End
      <3>1. PICK h \in gaps, k \in gaps : f = Gap(h) /\ g = Gap(k)
        BY <1>4, <1>6, <2>3
      <3>2. h # k /\ f.months = h /\ g.months = k
        BY <1>7, <1>20, <3>1
      <3>3. QED BY <1>15, <3>2
    <2>4. QED BY <2>1, <2>2, <2>3
  <1>21. Cardinality(posted) >= LeastMonths => reported = year \ posted
    <2>1. SUFFICES ASSUME often PROVE reported = year \ posted
      BY <1>11
    <2>2. reported = open \cup ends /\ (last \in ends <=> last \notin posted)
      BY <1>10, <1>16, <1>18, <2>1
    <2>3. QED BY <1>5, <1>9, <1>10, <2>2
  <1>22. "regular" \in NameTags(Chart, c) /\ last \notin posted => last \in reported
    BY <1>10, <1>18
  <1>23. QED BY <1>19, <1>20, <1>21, <1>22 DEF posted, reported, of, year, last, all

\* A quotient rounded to the nearest is no further from it than a half.
LEMMA RoundedToNearest ==
  ASSUME NEW a \in Nat, NEW n \in Nat \ {0}
  PROVE  /\ Rounded(a, n) \in Nat
         /\ 2 * a - 2 * (Rounded(a, n) * n) <= n /\ 2 * (Rounded(a, n) * n) - 2 * a <= n
  <1> DEFINE q == (2 * a + n) \div (2 * n)
  <1>1. Rounded(a, n) = q
    BY DEF Rounded, Absolute
  <1>2. 2 * a + n \in Int /\ 2 * n \in Nat \ {0}
    OBVIOUS
  <1>3. q \in Int /\ (2 * n) * q <= 2 * a + n /\ 2 * a + n < (2 * n) * q + 2 * n
    BY <1>2, Quotient
  <1> HIDE DEF q
  <1>4. (2 * n) * q = 2 * (q * n) /\ q * n \in Int
    BY <1>3
  <1>5. q >= 0
    <2>1. SUFFICES ASSUME q <= -1 PROVE FALSE
      BY <1>3
    <2>2. (2 * n) * q <= -(2 * n)
      BY <1>3, <2>1
    <2>3. QED BY <1>2, <1>3, <2>2
  <1> HIDE DEF q
  <1>6. QED BY <1>1, <1>3, <1>4, <1>5

\* The last day of a month, and the months a span touches.
LEMMA MonthEnds ==
  ASSUME NEW m \in Int
  PROVE  MonthOf((m + 1) * MonthDays - 1) = m
  <1> DEFINE day == (m + 1) * MonthDays - 1
  <1>1. MonthDays \in Nat \ {0}
    BY MonthDaysAssumption
  <1>2. day \in Int /\ day = MonthDays * m + MonthDays - 1 /\ MonthDays * m \in Int
    BY <1>1
  <1> HIDE DEF day
  <1>3. QED BY <1>1, <1>2, QuotientIs DEF MonthOf

\* The term of a span is no longer than the months it touches.
LEMMA TermWithinMonths ==
  ASSUME NEW s, IsSpan(s)
  PROVE  /\ MonthOf(s[1]) \in Int /\ MonthOf(s[2]) \in Int /\ MonthOf(s[1]) <= MonthOf(s[2])
         /\ TotalMonths(s) \in Nat \ {0} /\ TotalMonths(s) <= MonthOf(s[2]) - MonthOf(s[1]) + 1
  <1> DEFINE D == MonthDays
             b == s[1]
             e == s[2]
             first == MonthOf(b)
             last == MonthOf(e)
             term == (2 * (e - b) + D) \div (2 * D)
  <1>1. D \in Nat \ {0} /\ 2 * D \in Nat \ {0}
    BY MonthDaysAssumption
  <1>2. b \in Int /\ e \in Int /\ b <= e /\ 2 * (e - b) + D \in Int
    BY <1>1 DEF IsSpan
  <1>3. first \in Int /\ D * first <= b /\ b < D * first + D
    BY <1>1, <1>2, Quotient DEF MonthOf
  <1>4. last \in Int /\ D * last <= e /\ e < D * last + D
    BY <1>1, <1>2, Quotient DEF MonthOf
  <1>5. term \in Int /\ (2 * D) * term <= 2 * (e - b) + D
    BY <1>1, <1>2, Quotient
  <1>6. TotalMonths(s) = IF term < 1 THEN 1 ELSE term
    BY DEF TotalMonths
  <1> HIDE DEF D, b, e, first, last, term
  <1>7. first <= last
    <2>1. SUFFICES ASSUME last + 1 <= first PROVE FALSE
      BY <1>3, <1>4
    <2>2. D * (last + 1) <= D * first
      BY <1>1, <1>3, <1>4, <2>1
    <2>3. D * (last + 1) = D * last + D
      BY <1>1, <1>4
    <2>4. QED BY <1>1, <1>2, <1>3, <1>4, <2>2, <2>3
  <1> DEFINE n == last - first + 1
  <1>8. term <= n
    <2>1. SUFFICES ASSUME n + 1 <= term PROVE FALSE
      BY <1>3, <1>4, <1>5
    <2>2. n \in Int /\ D * n = D * last - D * first + D
      BY <1>1, <1>3, <1>4
    <2> HIDE DEF n
    <2>3. (2 * D) * (n + 1) <= (2 * D) * term
      BY <1>1, <1>5, <2>1, <2>2
    <2>4. (2 * D) * (n + 1) = 2 * (D * n) + 2 * D
      BY <1>1, <2>2
    <2>5. D * n \in Int /\ D * last \in Int /\ D * first \in Int
      BY <1>1, <1>3, <1>4, <2>2
    <2>6. QED BY <1>1, <1>2, <1>3, <1>4, <1>5, <2>2, <2>3, <2>4, <2>5
  <1>9. QED BY <1>3, <1>4, <1>5, <1>6, <1>7, <1>8 DEF first, last, b, e

\* Months released: none before the span, never more than the term, and one
\* more or none from one month to the next.
LEMMA ReleasedByMonth ==
  ASSUME NEW s, IsSpan(s), NEW m \in Int
  PROVE  LET months == m - MonthOf(s[1]) + 1
         IN ReleasedMonths(s, (m + 1) * MonthDays - 1) =
              IF months < 0 THEN 0 ELSE IF months > TotalMonths(s) THEN TotalMonths(s) ELSE months
  BY MonthEnds DEF ReleasedMonths

\* The span of an item that names one is a span.
LEMMA ItemSpans ==
  ASSUME documents \subseteq Pool, NEW x \in PrepaymentItems(documents, Chart)
  PROVE  LET line == x.doc.lines[x.line]
             period == ItemPeriod(x.doc, line)
         IN /\ line.amount # None => line.amount \in Int
            /\ period # None => IsSpan(period)
  <1> DEFINE d == x.doc
             line == d.lines[x.line]
  <1>1. d \in Pool /\ x.line \in DOMAIN d.lines
    <2> DEFINE lines == UNION {{e} \X DOMAIN e.lines : e \in documents}
    <2>1. PICK p \in lines : x = [doc |-> p[1], line |-> p[2]]
      BY DEF PrepaymentItems
    <2>2. PICK e \in documents : p \in {e} \X DOMAIN e.lines
      OBVIOUS
    <2>3. p[1] = e /\ p[2] \in DOMAIN e.lines
      BY <2>2
    <2>4. QED BY <2>1, <2>2, <2>3
  <1>2. /\ d.date \in Int
        /\ d.period # None => IsSpan(d.period)
        /\ line.amount \in Int \cup {None}
        /\ line.period # None => IsSpan(line.period)
    BY <1>1, PoolAssumption
  <1>3. IsSpan(<<d.date, d.date + 12 * MonthDays>>)
    BY <1>2, MonthDaysAssumption DEF IsSpan
  <1> HIDE DEF d, line
  <1>4. CASE line.says = {} /\ line.period = None
    <2>1. ItemPeriod(d, line) = PeriodOf(d, line)
      BY <1>4 DEF ItemPeriod
    <2>2. QED BY <1>2, <1>3, <1>4, <2>1 DEF PeriodOf, d, line
  <1>5. CASE ~(line.says = {} /\ line.period = None)
    <2> DEFINE none == [date |-> d.date, says |-> {}, period |-> None]
    <2>1. ItemPeriod(d, line) = PeriodOf(none, line)
      BY <1>5 DEF ItemPeriod
    <2>2. none.period = None /\ none.date = d.date
      OBVIOUS
    <2> HIDE DEF none
    <2>3. QED BY <1>2, <1>3, <1>5, <2>1, <2>2 DEF PeriodOf, d, line
  <1>6. QED BY <1>4, <1>5

\* What is carried of one item: from month to month it only runs down, before
\* its span it is the whole, and after the last month of the span the rounding.
LEMMA CarriedRunsDown ==
  ASSUME NEW s, s # None, IsSpan(s), NEW a \in Nat
  PROVE  LET Left(m) == Carried(a, s, (m + 1) * MonthDays - 1)
         IN /\ Left(MonthOf(s[1]) - 1) = a
            /\ \A m \in Int : Left(m + 1) <= Left(m)
            /\ 2 * Absolute(Left(MonthOf(s[2]))) <= TotalMonths(s)
  <1> DEFINE Left(m) == Carried(a, s, (m + 1) * MonthDays - 1)
             first == MonthOf(s[1])
             last == MonthOf(s[2])
             term == TotalMonths(s)
             rate == Monthly(a, s)
             Clip(n) == IF n < 0 THEN 0 ELSE IF n > term THEN term ELSE n
  <1>1. first \in Int /\ last \in Int /\ first <= last /\ term \in Nat \ {0} /\ term <= last - first + 1
    BY TermWithinMonths
  <1>2. /\ rate \in Nat /\ rate * term \in Int
        /\ 2 * a - 2 * (rate * term) <= term /\ 2 * (rate * term) - 2 * a <= term
    <2>1. rate = Rounded(a, term)
      BY DEF Monthly
    <2> HIDE DEF rate, term
    <2>2. QED BY <1>1, <2>1, RoundedToNearest
  <1>3. \A m \in Int : Left(m) = a - rate * Clip(m - first + 1)
    BY ReleasedByMonth DEF Carried
  <1> HIDE DEF Left, first, last, term, rate
  <1>4. Left(first - 1) = a
    <2>1. Left(first - 1) = a - rate * Clip(first - 1 - first + 1)
      BY <1>1, <1>3
    <2>2. Clip(first - 1 - first + 1) = 0
      BY <1>1
    <2>3. QED BY <1>2, <2>1, <2>2
  <1>5. ASSUME NEW m \in Int PROVE Left(m + 1) <= Left(m)
    <2>1. SUFFICES ASSUME NEW next \in Int, next = m + 1 PROVE Left(next) <= Left(m)
      OBVIOUS
    <2> DEFINE n == Clip(m - first + 1)
               k == Clip(next - first + 1)
    <2>2. n \in Nat /\ k \in Nat /\ n <= k
      BY <1>1, <2>1
    <2>3. Left(m) = a - rate * n /\ Left(next) = a - rate * k
      BY <1>3
    <2> HIDE DEF n, k
    <2>4. rate * n <= rate * k /\ rate * n \in Int /\ rate * k \in Int
      BY <1>2, <2>2
    <2>5. QED BY <2>3, <2>4
  <1>6. 2 * Absolute(Left(last)) <= term
    <2>1. Clip(last - first + 1) = term
      BY <1>1
    <2>2. Left(last) = a - rate * term
      BY <1>1, <1>3, <2>1
    <2>3. QED BY <1>1, <1>2, <2>2 DEF Absolute
  <1>7. QED BY <1>4, <1>5, <1>6 DEF Left, first, last, term

LEMMA PrepaidRunsDown ==
  ASSUME documents \subseteq Pool
  PROVE  PrepaidRunsOut
  <1>1. SUFFICES ASSUME NEW x \in PrepaymentItems(documents, Chart)
                 PROVE  LET line == x.doc.lines[x.line]
                            period == ItemPeriod(x.doc, line)
                            Left(m) == Carried(line.amount, period, (m + 1) * MonthDays - 1)
                            months == MonthOf(period[1]) - 1 .. MonthOf(period[2])
                        IN period # None /\ line.amount # None /\ line.amount > 0 =>
                             /\ Left(MonthOf(period[1]) - 1) = line.amount
                             /\ \A m \in months \ {MonthOf(period[2])} : Left(m + 1) <= Left(m)
                             /\ 2 * Absolute(Left(MonthOf(period[2]))) <= TotalMonths(period)
    BY DEF PrepaidRunsOut
  <1> DEFINE line == x.doc.lines[x.line]
             period == ItemPeriod(x.doc, line)
             a == line.amount
             Left(m) == Carried(a, period, (m + 1) * MonthDays - 1)
  <1>2. SUFFICES ASSUME period # None, a # None, a > 0
                 PROVE  /\ Left(MonthOf(period[1]) - 1) = a
                        /\ \A m \in (MonthOf(period[1]) - 1 .. MonthOf(period[2])) \ {MonthOf(period[2])} :
                             Left(m + 1) <= Left(m)
                        /\ 2 * Absolute(Left(MonthOf(period[2]))) <= TotalMonths(period)
    OBVIOUS
  <1>3. a \in Int /\ IsSpan(period)
    BY <1>2, ItemSpans
  <1>4. a \in Nat
    BY <1>2, <1>3
  <1>5. MonthOf(period[1]) \in Int /\ MonthOf(period[2]) \in Int
    BY <1>3, TermWithinMonths
  <1> HIDE DEF period, a, line
  <1>6. QED BY <1>2, <1>3, <1>4, <1>5, CarriedRunsDown

\* Of an account that posts often every month without a posting is reported
\* once, of a regular one at least the last, and no month that has one, for any
\* documents, chart and length of the year (find_missing_accruals).
THEOREM EveryGapReported == Spec => []EveryGapIsReported
  BY GapsAreReported, PTL

\* What is carried of a prepayment only runs down, begins as the whole, and by
\* the end of its last month is the rounding of its months
\* (build_prepayment_schedule), for any spans, amounts and length of a month.
THEOREM PrepaymentRunsOut == Spec => []PrepaidRunsOut
  <1>1. documents \subseteq Pool => PrepaidRunsOut
    BY PrepaidRunsDown
  <1>2. TypeOK => documents \subseteq Pool
    BY DEF TypeOK
  <1>3. QED BY <1>1, <1>2, TypeCorrect, PTL

-----------------------------------------------------------------------------
(* What every check says of a document is a flag on its own card, and only *)
(* the flags of pairs advise to keep one of two documents.                 *)

Fields == {"doc", "issue", "partner", "original", "sure", "line", "usual", "by"}

Explaining == {"capital_item_review", "low_cost_fixed_asset", "prepayment_review"}

OnItsCard(f) ==
  /\ DOMAIN f = Fields
  /\ f.by = None
  /\ f.original \in BOOLEAN \cup {None}
  /\ f.issue \in Explaining => f.original = None

\* No advice to void a document.
Plain(f) == OnItsCard(f) /\ f.original = None

LEMMA FlagIsPlain ==
  ASSUME NEW d, NEW issue
  PROVE  Plain(Flag(d, issue)) /\ Flag(d, issue).issue = issue
  BY DEF Plain, OnItsCard, Flag, Fields

LEMMA FlagIfIsPlain ==
  ASSUME NEW condition, NEW d, NEW issue, NEW f \in FlagIf(condition, d, issue)
  PROVE  Plain(f)
  BY FlagIsPlain DEF FlagIf

LEMMA LineFlagsArePlain ==
  ASSUME NEW d, NEW issue, NEW lines, NEW f \in LineFlags(d, issue, lines)
  PROVE  Plain(f)
  BY DEF LineFlags, Flag, Plain, OnItsCard, Fields

LEMMA PairFlagsOnTheirCard ==
  ASSUME NEW a, NEW b, NEW confidence, NEW marked, NEW f \in PairFlags(a, b, confidence, marked)
  PROVE  OnItsCard(f)
  <1>1. DuplicateIssue(a.type) \notin Explaining
    BY DEF DuplicateIssue, Explaining
  <1>2. QED BY <1>1 DEF PairFlags, Flag, OnItsCard, Fields

LEMMA InspectedArePlain ==
  ASSUME NEW d, NEW org, NEW day, NEW set, NEW f \in InspectTransaction(d, org, day, set)
  PROVE  Plain(f)
  BY FlagIfIsPlain DEF InspectTransaction, TaxCodeFlags, NumberFlags, AgeFlags

LEMMA DuplicatesOnTheirCard ==
  ASSUME NEW list, NEW set, NEW f \in FindDuplicates(list, set)
  PROVE  OnItsCard(f)
  <1> DEFINE Cadence(p) ==
               TwiceCadence(SelectSeq(list, LAMBDA d : ContactKey(d) = ContactKey(p[1]) /\ d.type = p[1].type),
                            p[1].amount)
             Sure(p) == Confidence(p[1], p[2], Cadence(p))
             Said(p) == IF Comparable(p[1], p[2], set) /\ Sure(p) >= set.dupMinConfidence
                        THEN PairFlags(p[1], p[2], Sure(p), Confirmed(Sure(p))) ELSE {}
  <1>1. FindDuplicates(list, set) = UNION {Said(p) : p \in ContactPairs(list, set)}
    BY DEF FindDuplicates
  <1> HIDE DEF Cadence, Sure
  <1>2. PICK p \in ContactPairs(list, set) : f \in Said(p)
    <2> HIDE DEF Said
    <2>1. QED BY <1>1
  <1>3. f \in PairFlags(p[1], p[2], Sure(p), Confirmed(Sure(p)))
    BY <1>2
  <1>4. QED BY <1>3, PairFlagsOnTheirCard

LEMMA CrossDuplicatesOnTheirCard ==
  ASSUME NEW list, NEW org, NEW set, NEW f \in FindCrossDuplicates(list, org, set)
  PROVE  OnItsCard(f)
  <1> DEFINE pairs == UNION {SweptPairs(group, set.dupWindow) : group \in SameAmount(list)}
             Strength(p) == PartyStrength(p[1], p[2], org)
             Said(p) == IF /\ ContactKey(p[1]) # ContactKey(p[2])
                           /\ set.dupCheckPaid \/ ~IsPaid(p[1]) \/ ~IsPaid(p[2]) \/ p[1].type \in CreditTypes
                           /\ Strength(p) # None
                           /\ CrossScore(p[1], p[2], Strength(p)) >= 60
                        THEN PairFlags(p[1], p[2], CrossScore(p[1], p[2], Strength(p)), TRUE) ELSE {}
  <1>1. FindCrossDuplicates(list, org, set) = UNION {Said(p) : p \in pairs}
    BY DEF FindCrossDuplicates
  <1> HIDE DEF Strength, pairs
  <1>2. PICK p \in pairs : f \in Said(p)
    <2> HIDE DEF Said
    <2>1. QED BY <1>1
  <1>3. f \in PairFlags(p[1], p[2], CrossScore(p[1], p[2], Strength(p)), TRUE)
    BY <1>2
  <1>4. QED BY <1>3, PairFlagsOnTheirCard

LEMMA UnusualArePlain ==
  ASSUME NEW list, NEW org, NEW f \in UnusualFlags(list, org)
  PROVE  Plain(f)
  <1> DEFINE payments == SelectSeq(list, LAMBDA d : d.type \in {"ACCPAY", "SPEND"})
             When(d) == \/ Unclear(d)
                        \/ Absolute(d.amount) >= org.largePayment /\ PaymentsTo(payments, d) <= 2
                        \/ FarAboveAccount(payments, d, org)
  <1>1. UnusualFlags(list, org) = UNION {FlagIf(When(d), d, "unusual_payment") : d \in DocsOf(payments)}
    BY DEF UnusualFlags
  <1> HIDE DEF payments, When
  <1>2. QED BY <1>1, FlagIfIsPlain

LEMMA SettlementsArePlain ==
  ASSUME NEW list, NEW bank, NEW docType, NEW bankType, NEW issue, NEW window,
         NEW f \in DirectSettlement(list, bank, docType, bankType, issue, window)
  PROVE  Plain(f)
  <1> DEFINE When(d) == /\ d.type = docType
                        /\ IsOpen(d)
                        /\ Outstanding(d) > 0
                        /\ d.contact # ""
                        /\ \E payment \in DocsOf(bank) :
                              /\ payment.type = bankType
                              /\ payment.contact = d.contact
                              /\ payment.date - d.date \in 0..window
                              /\ Outstanding(d) = payment.amount
  <1>1. DirectSettlement(list, bank, docType, bankType, issue, window)
          = UNION {FlagIf(When(d), d, issue) : d \in DocsOf(list)}
    BY DEF DirectSettlement
  <1> HIDE DEF When
  <1>2. QED BY <1>1, FlagIfIsPlain

LEMMA OutliersArePlain ==
  ASSUME NEW list, NEW set, NEW f \in OutlierFlags(list, set)
  PROVE  Plain(f)
  <1> DEFINE Mine(d) == SelectSeq(list, LAMBDA e : ContactKey(e) = ContactKey(d) /\ e.amount > 0)
             Twice(d) == TwiceMedian([i \in DOMAIN Mine(d) |-> Mine(d)[i].amount])
             When(d) == /\ Len(Mine(d)) >= set.outlierMinDocs
                        /\ 2 * d.amount >= Twice(d) * set.outlierMultiple
                        /\ d.amount >= set.outlierMin
             large == {x \in DocsOf(list) : x.amount > 0}
  <1>1. OutlierFlags(list, set) = UNION {FlagIf(When(d), d, "amount_outlier") : d \in large}
    BY DEF OutlierFlags
  <1> HIDE DEF When, large
  <1>2. QED BY <1>1, FlagIfIsPlain

LEMMA AnomaliesArePlain ==
  ASSUME NEW list, NEW picked, NEW f \in AnomalyFlags(list, picked)
  PROVE  Plain(f)
  <1> DEFINE candidates == OutlierFlags(list, Set)
  <1>1. \A g \in candidates : Plain(g)
    BY OutliersArePlain
  <1>2. AnomalyFlags(list, picked) =
          IF picked = None THEN candidates
          ELSE {[g EXCEPT !.issue = "anomaly"] : g \in {h \in candidates : h.doc \in picked}}
    BY DEF AnomalyFlags
  <1> HIDE DEF candidates
  <1>3. CASE picked # None
    <2>1. PICK g \in candidates : f = [g EXCEPT !.issue = "anomaly"]
      BY <1>2, <1>3
    <2>2. QED BY <1>1, <2>1 DEF Plain, OnItsCard, Explaining, Fields
  <1>4. QED BY <1>1, <1>2, <1>3

LEMMA LinesArePlain ==
  ASSUME NEW d, NEW org, NEW set, NEW f \in CapitalFlags(d, org, set) \cup PrepaymentFlags(d, org, set)
  PROVE  Plain(f)
  BY LineFlagsArePlain DEF CapitalFlags, PrepaymentFlags

LEMMA AccountsArePlain ==
  ASSUME NEW d, NEW org, NEW set,
         NEW f \in PostingFlags(d, org) \cup CodingFlags(d, org, set) \cup TaxFlags(d, org, set)
  PROVE  Plain(f)
  <1>1. CASE f \in PostingFlags(d, org)
    BY <1>1, FlagIfIsPlain DEF PostingFlags
  <1>2. CASE f \in FlagIf(Misallocated(d, org, set), d, "misallocated_item")
    BY <1>2, FlagIfIsPlain
  <1>3. CASE f \in UnexpectedFlags(d, org)
    BY <1>3, FlagIfIsPlain DEF UnexpectedFlags
  <1>4. CASE f \in TaxFlags(d, org, set)
    BY <1>4, FlagIfIsPlain DEF TaxFlags
  <1>5. QED BY <1>1, <1>2, <1>3, <1>4 DEF CodingFlags

LEMMA DriftIsPlain ==
  ASSUME NEW list, NEW code, NEW issue, NEW whitelist, NEW f \in DriftFlags(list, code, issue, whitelist)
  PROVE  Plain(f)
  <1>1. PICK d, usual : f = [Flag(d, issue) EXCEPT !.usual = usual]
    BY DEF DriftFlags
  <1>2. QED BY <1>1 DEF Flag, Plain, OnItsCard, Fields

LEMMA ContactsArePlain ==
  ASSUME NEW contacts, NEW list, NEW org, NEW day, NEW set,
         NEW f \in ContactFlags(contacts, list, org, day, set)
  PROVE  Plain(f)
  <1>1. CASE f \in DuplicateContacts(contacts, org, set)
    <2> DEFINE Alike(p) == Blocked(p[1], p[2], org) /\ NameSimilarity(p[1], p[2], org) >= set.contactSimilarity
               Sure(p) == ContactConfidence(p[1], p[2], org)
               pairs == {q \in contacts \X contacts : q[1] # q[2] /\ Active(q[1]) /\ Active(q[2])}
               Said(p) == IF Alike(p)
                          THEN {[Flag(p[1], "duplicate_contact") EXCEPT !.partner = p[2].id, !.sure = Sure(p)]}
                          ELSE {}
    <2>1. DuplicateContacts(contacts, org, set) = UNION {Said(p) : p \in pairs}
      BY DEF DuplicateContacts
    <2> HIDE DEF Alike, Sure, pairs
    <2>2. PICK p \in pairs : f \in Said(p)
      <3> HIDE DEF Said
      <3>1. QED BY <1>1, <2>1
    <2>3. f = [Flag(p[1], "duplicate_contact") EXCEPT !.partner = p[2].id, !.sure = Sure(p)]
      BY <2>2
    <2>4. QED BY <2>3 DEF Flag, Plain, OnItsCard, Fields, Explaining
  <1>2. CASE f \in DefaultFlags(contacts)
    BY <1>2, FlagIfIsPlain DEF DefaultFlags
  <1>3. CASE f \in InactiveFlags(contacts, list, day, set)
    BY <1>3, FlagIfIsPlain DEF InactiveFlags
  <1>4. QED BY <1>1, <1>2, <1>3 DEF ContactFlags

\* A chunk: whatever a check said of one of its documents, and which of it
\* is advice.
LEMMA ChunkFlags ==
  ASSUME NEW chunk, NEW day, NEW picked, NEW f \in RunBatch(chunk, day, picked)
  PROVE  /\ OnItsCard(f)
         /\ \/ f.original = None
            \/ f \in FindDuplicates(LedgerOf(chunk), Set)
            \/ f \in FindCrossDuplicates(LedgerOf(chunk), Org, Set)
  <1> DEFINE floor == Floor(chunk)
             bank == Only(floor, BankTypes)
             ledger == LedgerOf(chunk)
             both == ledger \o bank
             all == both \o Only(floor, Journals)
             OfInspection == UNION {InspectTransaction(d, Org, day, Set) : d \in DocsOf(ledger)}
             OfCapital == UNION {CapitalFlags(d, Org, Set) : d \in DocsOf(all)}
             OfPrepayment == UNION {PrepaymentFlags(d, Org, Set) : d \in DocsOf(both)}
             OfPayroll == UNION {FlagIf(NonPayroll(d, Org, Set), d, "non_payroll_payment") : d \in DocsOf(bank)}
             OfPosting == UNION {PostingFlags(d, Org) : d \in DocsOf(ledger)}
             OfCoding == UNION {CodingFlags(d, Org, Set) : d \in DocsOf(both)}
             OfPapers == UNION {FlagIf(Undocumented(d, Set), d, "undocumented_bill") : d \in DocsOf(both)}
             OfTax == UNION {TaxFlags(d, Org, Set) : d \in DocsOf(both)}
             found == OfInspection \cup AnomalyFlags(ledger, picked) \cup OfCapital \cup OfPrepayment
                        \cup UnusualFlags(both, Org) \cup OfPayroll \cup FindDuplicates(ledger, Set)
                        \cup FindCrossDuplicates(ledger, Org, Set) \cup OfPosting
                        \cup MultiAccountFlags(both, Set) \cup MultiTaxFlags(both) \cup OfCoding
                        \cup BankFlags(ledger, bank, Set) \cup OfPapers \cup OfTax
  <1>1. RunBatch(chunk, day, picked) = {g \in found : g.issue \notin Set.disabled}
    BY DEF RunBatch, Each
  <1>2. ledger = LedgerOf(chunk)
    OBVIOUS
  <1> HIDE DEF floor, bank, ledger, both, all
  <1>3. f \in found
    <2> HIDE DEF found
    <2>1. QED BY <1>1
  <1>4. CASE f \in OfInspection
    BY <1>4, InspectedArePlain DEF Plain
  <1>5. CASE f \in OfCapital \cup OfPrepayment
    BY <1>5, LinesArePlain DEF Plain
  <1>6. CASE f \in OfPosting \cup OfCoding \cup OfTax
    BY <1>6, AccountsArePlain DEF Plain
  <1>7. CASE f \in OfPayroll \cup OfPapers
    BY <1>7, FlagIfIsPlain DEF Plain
  <1>8. CASE f \in AnomalyFlags(ledger, picked) \cup UnusualFlags(both, Org)
    BY <1>8, AnomaliesArePlain, UnusualArePlain DEF Plain
  <1>9. CASE f \in FindDuplicates(ledger, Set) \cup FindCrossDuplicates(ledger, Org, Set)
    BY <1>9, <1>2, DuplicatesOnTheirCard, CrossDuplicatesOnTheirCard
  <1>10. CASE f \in MultiAccountFlags(both, Set) \cup MultiTaxFlags(both)
    BY <1>10, DriftIsPlain DEF MultiAccountFlags, MultiTaxFlags, Plain
  <1>11. CASE f \in BankFlags(ledger, bank, Set)
    BY <1>11, SettlementsArePlain DEF BankFlags, Plain
  <1> HIDE DEF OfInspection, OfCapital, OfPrepayment, OfPayroll, OfPosting, OfCoding, OfPapers, OfTax
  <1>12. QED BY <1>3, <1>4, <1>5, <1>6, <1>7, <1>8, <1>9, <1>10, <1>11

-----------------------------------------------------------------------------
(* The hierarchy: a demoted flag keeps the flag that explains it.          *)

\* What a demoted flag needs: the flag that took over, of the same document,
\* on its own card, and not one that advises to void a document.
Stands(f, found) ==
  f.by # None =>
    \E g \in found : g.doc = f.doc /\ g.issue = f.by /\ g.by = None /\ g.original = None

\* No rule takes over from itself or from the rules that outrank it.
LEMMA ExplanationsStand ==
  ASSUME NEW issues, Explains(issues) # None
  PROVE  /\ Explains(issues) \in issues \cap Explaining
         /\ Explains(issues) \notin TakenOver(Explains(issues))
  BY DEF Explains, Explaining, TakenOver, PaymentTier

LEMMA HierarchyStands ==
  ASSUME NEW found, \A h \in found : OnItsCard(h), NEW f \in ApplyHierarchy(found)
  PROVE  Stands(f, ApplyHierarchy(found))
  <1> DEFINE Rule(h) == Explains(IssuesOf(found, h.doc))
             Placed(h) == IF h.issue \in TakenOver(Rule(h)) THEN [h EXCEPT !.by = Rule(h)] ELSE h
  <1>1. ApplyHierarchy(found) = {Placed(h) : h \in found}
    BY DEF ApplyHierarchy
  <1>2. SUFFICES ASSUME f.by # None
                 PROVE  \E g \in ApplyHierarchy(found) :
                          g.doc = f.doc /\ g.issue = f.by /\ g.by = None /\ g.original = None
    BY DEF Stands
  <1>3. PICK h \in found : f = Placed(h)
    <2> HIDE DEF Placed
    <2>1. QED BY <1>1
  <1>4. h.issue \in TakenOver(Rule(h)) /\ f = [h EXCEPT !.by = Rule(h)]
    BY <1>2, <1>3 DEF OnItsCard
  <1>5. f.doc = h.doc /\ f.by = Rule(h)
    BY <1>4 DEF OnItsCard, Fields
  <1>6. /\ Rule(h) # None
        /\ Rule(h) \in IssuesOf(found, h.doc) \cap Explaining
        /\ Rule(h) \notin TakenOver(Rule(h))
    BY <1>4, ExplanationsStand DEF TakenOver
  <1>7. PICK g \in found : g.doc = h.doc /\ g.issue = Rule(h)
    BY <1>6 DEF IssuesOf
  <1>8. Rule(g) = Rule(h)
    BY <1>7
  <1> HIDE DEF Rule
  <1>9. Placed(g) = g
    BY <1>6, <1>7, <1>8
  <1>10. g \in ApplyHierarchy(found)
    <2> HIDE DEF Placed
    <2>1. QED BY <1>1, <1>9
  <1>11. g.by = None /\ g.original = None
    BY <1>6, <1>7 DEF OnItsCard
  <1>12. QED BY <1>5, <1>7, <1>10, <1>11

-----------------------------------------------------------------------------
(* No flag is orphaned, whatever the client does between two audits.       *)

AllStand ==
  /\ \A f \in flags : Stands(f, flags)
  /\ \A f \in flags : f.original \in BOOLEAN \cup {None}

LEMMA AuditStands ==
  ASSUME NEW lost, NEW picked, Evaluate(lost, picked)
  PROVE  AllStand'
  <1> DEFINE Said(n) == RunBatch(ChunkOf(n), today, picked)
             found == UNION {Said(n) : n \in Chunks \ lost}
             kept == DropAlreadyCapitalised(found)
             contacts == ContactFlags(company.contacts, docs, Org, today, Set)
  <1>1. flags' = Settle(found) \cup contacts
    BY DEF Evaluate
  <1>2. \A n : \A g \in Said(n) : OnItsCard(g)
    BY ChunkFlags
  <1>3. \A g \in contacts : OnItsCard(g)
    BY ContactsArePlain DEF Plain
  <1> HIDE DEF Said, contacts
  <1>4. \A g \in kept : OnItsCard(g)
    BY <1>2 DEF DropAlreadyCapitalised
  <1>5. Settle(found) = ApplyHierarchy(kept)
    BY DEF Settle
  <1> HIDE DEF found, kept
  <1>6. ASSUME NEW f \in flags'
        PROVE  Stands(f, flags') /\ f.original \in BOOLEAN \cup {None}
    <2>1. CASE f \in contacts
      BY <1>3, <2>1 DEF Stands, OnItsCard
    <2>2. CASE f \in ApplyHierarchy(kept)
      <3>1. Stands(f, ApplyHierarchy(kept))
        BY <1>4, <2>2, HierarchyStands
      <3>2. Stands(f, flags')
        BY <3>1, <1>1, <1>5 DEF Stands
      <3>3. PICK h \in kept : \E rule : f = h \/ f = [h EXCEPT !.by = rule]
        BY <2>2 DEF ApplyHierarchy
      <3>4. f.original = h.original
        BY <1>4, <3>3 DEF OnItsCard, Fields
      <3>5. QED BY <1>4, <3>2, <3>4 DEF OnItsCard
    <2>3. QED BY <1>1, <1>5, <1>6, <2>1, <2>2
  <1>7. QED BY <1>6 DEF AllStand

LEMMA VoidStands ==
  ASSUME AllStand, NEW i, NEW h, Void(i, h)
  PROVE  AllStand'
  <1>1. flags' = flags \ {h} /\ h.original = FALSE
    BY DEF Void, Advised
  <1>2. None # FALSE
    BY RulesAssumption
  <1>3. QED BY <1>1, <1>2 DEF AllStand, Stands

LEMMA NextStands == AllStand /\ [EngineNext]_engineVars => AllStand'
  <1> SUFFICES ASSUME AllStand, [EngineNext]_engineVars
               PROVE  AllStand'
    OBVIOUS
  <1>1. CASE Audit
    BY <1>1, AuditStands DEF Audit
  <1>2. ASSUME NEW i, NEW h \in flags, Void(i, h)
        PROVE  AllStand'
    BY <1>2, VoidStands
  <1>3. ASSUME NEW i, Pay(i) \/ Approve(i) \/ Touch(i)
        PROVE  AllStand'
    BY <1>3 DEF Pay, Approve, Touch, Replace, AllStand
  <1>4. CASE NextDay \/ UNCHANGED engineVars
    BY <1>4 DEF NextDay, engineVars, AllStand
  <1>5. QED BY <1>1, <1>2, <1>3, <1>4 DEF EngineNext, Client

\* A flag the hierarchy took off its own card is explained by a flag that is
\* there, for the same document and on its card, after every audit and every
\* document the client pays, edits or voids (tasks.py, _call_rules_batch).
THEOREM FlagsStand == EngineSpec => []NothingIsOrphaned
  <1>1. EngineInit => AllStand
    BY DEF EngineInit, AllStand
  <1>2. AllStand => NothingIsOrphaned
    BY DEF AllStand, Stands, NothingIsOrphaned
  <1>3. QED BY <1>1, <1>2, NextStands, PTL DEF EngineSpec

-----------------------------------------------------------------------------
(* Sorting and grouping.                                                   *)

Comes(key, i, j) == key[i] < key[j] \/ (key[i] = key[j] /\ i < j)

\* The places in order: each of them once, and the keys never go down.
LEMMA Ordered ==
  ASSUME NEW places \in SUBSET Int, IsFiniteSet(places),
         NEW key, \A i \in places : key[i] \in Int
  PROVE  /\ Cardinality(places) \in Nat
         /\ InOrder(places, key) \in [1..Cardinality(places) -> places]
         /\ \A k, l \in 1..Cardinality(places) :
              k < l => Comes(key, InOrder(places, key)[k], InOrder(places, key)[l])
         /\ \A i \in places : \E k \in 1..Cardinality(places) : InOrder(places, key)[k] = i
  <1> DEFINE n == Cardinality(places)
             Rank == [i \in places |-> Cardinality(UpTo(places, key, i))]
  <1>1. n \in Nat
    BY FS_CardinalityType
  <1>2. ASSUME NEW i \in places
        PROVE  /\ IsFiniteSet(UpTo(places, key, i))
               /\ Rank[i] \in 1..n
    <2>1. UpTo(places, key, i) \in SUBSET places /\ i \in UpTo(places, key, i)
      BY DEF UpTo
    <2>2. IsFiniteSet(UpTo(places, key, i)) /\ Cardinality(UpTo(places, key, i)) <= n
      BY <2>1, FS_Subset
    <2>3. Cardinality(UpTo(places, key, i)) \in Nat /\ Cardinality(UpTo(places, key, i)) # 0
      BY <2>1, <2>2, FS_CardinalityType, FS_EmptySet
    <2>4. QED BY <1>1, <2>2, <2>3
  <1>3. ASSUME NEW i \in places, NEW j \in places, Comes(key, i, j)
        PROVE  Rank[i] < Rank[j]
    <2>1. UpTo(places, key, i) \in SUBSET UpTo(places, key, j)
      <3>1. ASSUME NEW k \in places, key[k] < key[i] \/ (key[k] = key[i] /\ k <= i)
            PROVE  key[k] < key[j] \/ (key[k] = key[j] /\ k <= j)
        <4>1. key[k] \in Int /\ key[i] \in Int /\ key[j] \in Int /\ k \in Int /\ i \in Int /\ j \in Int
          OBVIOUS
        <4>2. QED BY <1>3, <3>1, <4>1 DEF Comes
      <3>2. QED BY <3>1 DEF UpTo
    <2>2. j \in UpTo(places, key, j) /\ j \notin UpTo(places, key, i)
      BY <1>3 DEF UpTo, Comes
    <2>3. /\ Cardinality(UpTo(places, key, i)) <= Cardinality(UpTo(places, key, j))
          /\ Cardinality(UpTo(places, key, i)) # Cardinality(UpTo(places, key, j))
      BY <1>2, <2>1, <2>2, FS_Subset
    <2>4. Rank[i] \in 1..n /\ Rank[j] \in 1..n
      BY <1>2
    <2>5. QED BY <1>1, <2>3, <2>4
  <1>4. \A i, j \in places : i # j => Comes(key, i, j) \/ Comes(key, j, i)
    BY DEF Comes
  <1>5. \A i, j \in places : Rank[i] = Rank[j] => i = j
    <2>1. \A i \in places : Rank[i] \in Int
      BY <1>1, <1>2
    <2> HIDE DEF Rank
    <2>2. QED BY <1>3, <1>4, <2>1
  <1>6. \A k \in 1..n : \E i \in places : Rank[i] = k
    <2>1. Rank \in Injection(places, 1..n)
      <3>1. Rank \in [places -> 1..n]
        BY <1>2
      <3> HIDE DEF Rank
      <3>2. QED BY <1>5, <3>1 DEF Injection, IsInjective
    <2>2. IsFiniteSet(1..n) /\ Cardinality(1..n) = n
      BY <1>1, FS_Interval
    <2>3. Rank \in Surjection(places, 1..n)
      BY <2>1, <2>2, FS_Injection
    <2> HIDE DEF Rank, n
    <2>4. QED BY <2>3 DEF Surjection
  <1> DEFINE order == InOrder(places, key)
  <1>7. /\ order = [k \in 1..n |-> CHOOSE i \in places : Rank[i] = k]
    BY DEF InOrder
  <1> HIDE DEF Rank, order, n
  <1>8. \A k \in 1..n : order[k] \in places /\ Rank[order[k]] = k
    BY <1>6, <1>7
  <1>9. order \in [1..n -> places]
    BY <1>7, <1>8
  <1>10. ASSUME NEW k \in 1..n, NEW l \in 1..n, k < l
         PROVE  Comes(key, order[k], order[l])
    <2>1. order[k] # order[l] /\ ~(Rank[order[l]] < Rank[order[k]])
      BY <1>1, <1>8, <1>10
    <2>2. QED BY <1>3, <1>4, <1>8, <2>1
  <1>11. \A i \in places : \E k \in 1..n : order[k] = i
    <2>1. ASSUME NEW i \in places PROVE order[Rank[i]] = i /\ Rank[i] \in 1..n
      BY <1>2, <1>5, <1>8
    <2>2. QED BY <2>1
  <1>12. QED BY <1>1, <1>9, <1>10, <1>11 DEF order, n

\* A list whose elements stand in another list in the same order.
Within(s, t) ==
  \E e \in [DOMAIN s -> DOMAIN t] :
     /\ \A k \in DOMAIN s : s[k] = t[e[k]]
     /\ \A k, l \in DOMAIN s : k < l => e[k] < e[l]

IsList(s) == \E n \in Nat : DOMAIN s = 1..n

LEMMA Placed ==
  ASSUME NEW list, IsList(list), NEW places \in SUBSET DOMAIN list
  PROVE  /\ IsList(Sublist(list, places))
         /\ Within(Sublist(list, places), list)
         /\ \A k \in DOMAIN Sublist(list, places) : \E i \in places : Sublist(list, places)[k] = list[i]
         /\ \A i \in places : \E k \in DOMAIN Sublist(list, places) : Sublist(list, places)[k] = list[i]
         /\ \E e \in [DOMAIN Sublist(list, places) -> places] :
              /\ \A k \in DOMAIN Sublist(list, places) : Sublist(list, places)[k] = list[e[k]]
              /\ \A k, l \in DOMAIN Sublist(list, places) : k < l => e[k] < e[l]
              /\ \A i \in places : \E k \in DOMAIN Sublist(list, places) : e[k] = i
  <1> DEFINE own == [i \in places |-> i]
             order == InOrder(places, own)
             n == Cardinality(places)
             found == Sublist(list, places)
  <1>1. places \in SUBSET Int /\ IsFiniteSet(places)
    <2>1. PICK m \in Nat : DOMAIN list = 1..m
      BY DEF IsList
    <2>2. IsFiniteSet(1..m) /\ places \in SUBSET (1..m)
      BY <2>1, FS_Interval
    <2>3. QED BY <2>2, FS_Subset
  <1>2. \A i \in places : own[i] = i /\ own[i] \in Int
    BY <1>1
  <1> HIDE DEF own
  <1>3. /\ n \in Nat
        /\ order \in [1..n -> places]
        /\ \A k, l \in 1..n : k < l => Comes(own, order[k], order[l])
        /\ \A i \in places : \E k \in 1..n : order[k] = i
    <2>1. places \in SUBSET Int
      BY <1>1
    <2>2. IsFiniteSet(places)
      BY <1>1
    <2>3. \A i \in places : own[i] \in Int
      BY <1>2
    <2>4. QED BY ONLY <2>1, <2>2, <2>3, Ordered, ZenonT(30)
  <1>4. found = [k \in DOMAIN order |-> list[order[k]]]
    BY DEF Sublist, own
  <1> HIDE DEF order, n, found
  <1>5. /\ DOMAIN found = 1..n
        /\ \A k \in 1..n : found[k] = list[order[k]]
    BY <1>3, <1>4
  <1>6. \A k, l \in 1..n : k < l => order[k] < order[l]
    BY <1>1, <1>2, <1>3 DEF Comes
  <1>7. IsList(found)
    BY <1>3, <1>5 DEF IsList
  <1>8. Within(found, list)
    BY <1>3, <1>5, <1>6 DEF Within
  <1>9. QED BY <1>3, <1>5, <1>6, <1>7, <1>8 DEF found

LEMMA WithinTransitive ==
  ASSUME NEW s, NEW t, NEW u, IsList(s), IsList(t), IsList(u), Within(s, t), Within(t, u)
  PROVE  Within(s, u)
  <1>1. PICK e \in [DOMAIN s -> DOMAIN t] :
          /\ \A k \in DOMAIN s : s[k] = t[e[k]]
          /\ \A k, l \in DOMAIN s : k < l => e[k] < e[l]
    BY DEF Within
  <1>2. PICK g \in [DOMAIN t -> DOMAIN u] :
          /\ \A k \in DOMAIN t : t[k] = u[g[k]]
          /\ \A k, l \in DOMAIN t : k < l => g[k] < g[l]
    BY DEF Within
  <1> DEFINE h == [k \in DOMAIN s |-> g[e[k]]]
  <1>3. h \in [DOMAIN s -> DOMAIN u]
    BY <1>1, <1>2
  <1>4. \A k \in DOMAIN s : s[k] = u[h[k]]
    BY <1>1, <1>2
  <1>5. \A k, l \in DOMAIN s : k < l => h[k] < h[l]
    BY <1>1, <1>2
  <1>6. QED BY <1>3, <1>4, <1>5 DEF Within

\* The order of a list sorted by date.
Before(list, i, j) ==
  list[i].date < list[j].date \/ (list[i].date = list[j].date /\ i < j)

LEMMA Dated ==
  ASSUME NEW list, IsList(list), \A i \in DOMAIN list : list[i].date \in Int
  PROVE  \E o \in [DOMAIN list -> DOMAIN list] :
           /\ ByDate(list) = [k \in DOMAIN list |-> list[o[k]]]
           /\ \A k, l \in DOMAIN list : k < l => Before(list, o[k], o[l])
           /\ \A i \in DOMAIN list : \E k \in DOMAIN list : o[k] = i
  <1> DEFINE dates == [i \in DOMAIN list |-> list[i].date]
             order == InOrder(DOMAIN list, dates)
  <1>1. PICK n \in Nat : DOMAIN list = 1..n
    BY DEF IsList
  <1>2. DOMAIN list \in SUBSET Int /\ IsFiniteSet(DOMAIN list) /\ Cardinality(DOMAIN list) = n
    BY <1>1, FS_Interval
  <1>3. ByDate(list) = [k \in DOMAIN order |-> list[order[k]]]
    BY DEF ByDate
  <1>4. \A i \in DOMAIN list : dates[i] = list[i].date /\ dates[i] \in Int
    OBVIOUS
  <1> HIDE DEF dates
  <1>5. /\ Cardinality(DOMAIN list) \in Nat
        /\ order \in [1..Cardinality(DOMAIN list) -> DOMAIN list]
        /\ \A k, l \in 1..Cardinality(DOMAIN list) : k < l => Comes(dates, order[k], order[l])
        /\ \A i \in DOMAIN list : \E k \in 1..Cardinality(DOMAIN list) : order[k] = i
    <2>1. DOMAIN list \in SUBSET Int
      BY <1>2
    <2>2. IsFiniteSet(DOMAIN list)
      BY <1>2
    <2>3. \A i \in DOMAIN list : dates[i] \in Int
      BY <1>4
    <2>4. QED BY ONLY <2>1, <2>2, <2>3, Ordered, ZenonT(30)
  <1> HIDE DEF order
  <1>6. order \in [DOMAIN list -> DOMAIN list]
    BY <1>1, <1>2, <1>5
  <1>7. \A k, l \in DOMAIN list : k < l => Before(list, order[k], order[l])
    <2>1. ASSUME NEW k \in DOMAIN list, NEW l \in DOMAIN list, k < l
          PROVE  Before(list, order[k], order[l])
      <3>1. Comes(dates, order[k], order[l])
        BY <1>1, <1>2, <1>5, <2>1
      <3>2. order[k] \in DOMAIN list /\ order[l] \in DOMAIN list
        BY <1>6
      <3>3. dates[order[k]] = list[order[k]].date /\ dates[order[l]] = list[order[l]].date
        BY <1>4, <3>2
      <3>4. QED BY <3>1, <3>3 DEF Comes, Before
    <2>2. QED BY <2>1
  <1>8. \A i \in DOMAIN list : \E k \in DOMAIN list : order[k] = i
    BY <1>1, <1>2, <1>5
  <1>9. ByDate(list) = [k \in DOMAIN list |-> list[order[k]]]
    BY <1>3, <1>6
  <1>10. QED BY <1>6, <1>7, <1>8, <1>9

\* A pair the sweep compares stands in this order, no further apart than the
\* window.
LEMMA SweptInOrder ==
  ASSUME NEW list, IsList(list), \A i \in DOMAIN list : list[i].date \in Int,
         NEW window, NEW p \in SweptPairs(list, window)
  PROVE  \E i, j \in DOMAIN list :
           /\ p = <<list[i], list[j]>>
           /\ Before(list, i, j)
           /\ list[j].date - list[i].date <= window
  <1> DEFINE sorted == ByDate(list)
             Compared == {x \in (DOMAIN list) \X (DOMAIN list) :
                            /\ x[1] < x[2]
                            /\ \A k \in (x[1] + 1)..x[2] : sorted[k].date - sorted[x[1]].date <= window}
  <1>1. SweptPairs(list, window) = {<<sorted[x[1]], sorted[x[2]]>> : x \in Compared}
    BY DEF SweptPairs
  <1>2. PICK o \in [DOMAIN list -> DOMAIN list] :
          /\ sorted = [k \in DOMAIN list |-> list[o[k]]]
          /\ \A k, l \in DOMAIN list : k < l => Before(list, o[k], o[l])
          /\ \A i \in DOMAIN list : \E k \in DOMAIN list : o[k] = i
    BY Dated
  <1>3. PICK x \in Compared : p = <<sorted[x[1]], sorted[x[2]]>>
    <2> HIDE DEF Compared
    <2>1. QED BY <1>1
  <1>4. x[1] \in DOMAIN list /\ x[2] \in DOMAIN list /\ x[1] < x[2]
    OBVIOUS
  <1>5. x[2] \in (x[1] + 1)..x[2]
    <2>1. PICK n \in Nat : DOMAIN list = 1..n
      BY DEF IsList
    <2> HIDE DEF Compared
    <2>2. x[1] \in Int /\ x[2] \in Int
      BY <1>4, <2>1
    <2>3. QED BY <1>4, <2>2
  <1>6. sorted[x[2]].date - sorted[x[1]].date <= window
    BY <1>5
  <1>7. /\ sorted[x[1]] = list[o[x[1]]] /\ sorted[x[2]] = list[o[x[2]]]
        /\ o[x[1]] \in DOMAIN list /\ o[x[2]] \in DOMAIN list
    BY <1>2, <1>4
  <1>8. Before(list, o[x[1]], o[x[2]])
    BY <1>2, <1>4
  <1> HIDE DEF sorted, Compared
  <1>9. QED BY <1>3, <1>6, <1>7, <1>8

\* The sweep compares every two documents that are within the window.
LEMMA SweptCompletely ==
  ASSUME NEW list, IsList(list), \A i \in DOMAIN list : list[i].date \in Int,
         NEW window \in Int, NEW i \in DOMAIN list, NEW j \in DOMAIN list,
         Before(list, i, j), list[j].date - list[i].date <= window
  PROVE  <<list[i], list[j]>> \in SweptPairs(list, window)
  <1> DEFINE sorted == ByDate(list)
             Compared == {x \in (DOMAIN list) \X (DOMAIN list) :
                            /\ x[1] < x[2]
                            /\ \A k \in (x[1] + 1)..x[2] : sorted[k].date - sorted[x[1]].date <= window}
  <1>1. SweptPairs(list, window) = {<<sorted[x[1]], sorted[x[2]]>> : x \in Compared}
    BY DEF SweptPairs
  <1>2. PICK o \in [DOMAIN list -> DOMAIN list] :
          /\ sorted = [k \in DOMAIN list |-> list[o[k]]]
          /\ \A k, l \in DOMAIN list : k < l => Before(list, o[k], o[l])
          /\ \A y \in DOMAIN list : \E k \in DOMAIN list : o[k] = y
    BY Dated
  <1>3. PICK n \in Nat : DOMAIN list = 1..n
    BY DEF IsList
  <1>4. PICK a \in DOMAIN list : o[a] = i
    BY <1>2
  <1>5. PICK b \in DOMAIN list : o[b] = j
    BY <1>2
  <1>6. a < b
    <2>1. i \in Int /\ j \in Int /\ list[i].date \in Int /\ list[j].date \in Int
      BY <1>3
    <2>2. ~Before(list, j, i) /\ i # j
      BY <2>1 DEF Before
    <2>3. QED BY <1>2, <1>3, <1>4, <1>5, <2>2
  <1>7. /\ \A k \in DOMAIN list : sorted[k] = list[o[k]] /\ o[k] \in DOMAIN list
        /\ sorted[a] = list[i] /\ sorted[b] = list[j]
    BY <1>2, <1>4, <1>5
  <1> HIDE DEF sorted
  <1>8. ASSUME NEW k \in (a + 1)..b
        PROVE  sorted[k].date - sorted[a].date <= window
    <2>1. k \in DOMAIN list /\ (k = b \/ k < b)
      BY <1>3
    <2>2. sorted[k].date <= list[j].date
      <3>1. CASE k = b
        BY <1>7, <3>1
      <3>2. CASE k < b
        <4>1. Before(list, o[k], o[b])
          BY <1>2, <2>1, <3>2
        <4>2. QED BY <1>5, <1>7, <2>1, <4>1 DEF Before
      <3>3. QED BY <2>1, <3>1, <3>2
    <2>3. sorted[k].date \in Int
      BY <1>7, <2>1
    <2>4. QED BY <1>7, <2>2, <2>3
  <1>9. <<a, b>> \in Compared
    BY <1>6, <1>8
  <1> HIDE DEF Compared
  <1>10. QED BY <1>1, <1>7, <1>9

-----------------------------------------------------------------------------
(* The documents an audit sees.                                            *)

LEMMA Reshaped ==
  ASSUME NEW raw, IsRaw(raw), Audited(raw), NEW day \in Int
  PROVE  /\ Reshape(raw, day).id = raw.id
         /\ Reshape(raw, day).date \in Int
         /\ Reshape(raw, day).type \notin Journals => Reshape(raw, day).posted \in Int
  <1>1. Reshape(raw, day).id = raw.id
    BY DEF Reshape
  <1>2. Reshape(raw, day).date = IF raw.date = None THEN day ELSE raw.date
    BY DEF Reshape
  <1>3. /\ Reshape(raw, day).type = BatchType(raw)
        /\ Reshape(raw, day).posted = IF raw.kind = "journal" THEN None ELSE raw.updated
    BY DEF Reshape
  <1>4. raw.kind = "journal" => BatchType(raw) \in Journals
    BY DEF BatchType, Audited
  <1>5. QED BY <1>1, <1>2, <1>3, <1>4 DEF IsRaw

\* What an audit sees of the ledger.
AuditedOnce(list) ==
  /\ IsList(list)
  /\ \A i, j \in DOMAIN list : list[i].id = list[j].id => i = j
  /\ \A i \in DOMAIN list : list[i].date \in Int
  /\ \A i \in DOMAIN list : list[i].type \notin Journals => list[i].posted \in Int

LEMMA Listed ==
  ASSUME IsLedger(books), today \in Int
  PROVE  /\ AuditedOnce(docs)
         /\ docs \in Seq(DocsOf(docs))
         /\ \A i \in DOMAIN docs : \E k \in DOMAIN books :
              books[k].id = docs[i].id /\ books[k].status \notin Skipped
  <1> DEFINE places == {i \in DOMAIN books : Audited(books[i])}
             audited == Sublist(books, places)
  <1>1. docs = [i \in DOMAIN audited |-> Reshape(audited[i], today)]
    BY DEF docs, Listing
  <1>2. IsList(books)
    BY DEF IsLedger, IsList
  <1>3. places \in SUBSET DOMAIN books
    OBVIOUS
  <1>4. /\ \A k \in places : IsRaw(books[k]) /\ Audited(books[k])
        /\ \A k, l \in places : books[k].id = books[l].id => k = l
    BY DEF IsLedger
  <1>5. \A k \in places : books[k].status \notin Skipped
    BY DEF Audited
  <1> HIDE DEF places
  <1>6. /\ IsList(audited)
        /\ \E e \in [DOMAIN audited -> places] :
             /\ \A k \in DOMAIN audited : audited[k] = books[e[k]]
             /\ \A k, l \in DOMAIN audited : k < l => e[k] < e[l]
             /\ \A i \in places : \E k \in DOMAIN audited : e[k] = i
    BY <1>2, <1>3, Placed
  <1>7. PICK e \in [DOMAIN audited -> places] :
          /\ \A k \in DOMAIN audited : audited[k] = books[e[k]]
          /\ \A k, l \in DOMAIN audited : k < l => e[k] < e[l]
    BY <1>6
  <1> HIDE DEF audited
  <1>8. PICK n \in Nat : DOMAIN audited = 1..n
    BY <1>6 DEF IsList
  <1>9. DOMAIN docs = 1..n
    BY <1>1, <1>8
  <1>10. ASSUME NEW i \in 1..n
         PROVE  /\ e[i] \in places
                /\ docs[i].id = books[e[i]].id
                /\ docs[i].date \in Int
                /\ docs[i].type \notin Journals => docs[i].posted \in Int
    <2>1. docs[i] = Reshape(books[e[i]], today) /\ e[i] \in places
      BY <1>1, <1>7, <1>8
    <2>2. IsRaw(books[e[i]]) /\ Audited(books[e[i]])
      BY <1>4, <2>1
    <2>3. QED BY <2>1, <2>2, Reshaped
  <1>11. ASSUME NEW i \in 1..n, NEW j \in 1..n, docs[i].id = docs[j].id
         PROVE  i = j
    <2>1. e[i] = e[j]
      BY <1>4, <1>10, <1>11
    <2>2. ~(i < j) /\ ~(j < i)
      <3>1. e[i] \in Int
        BY <1>2, <1>3, <1>10 DEF IsList
      <3>2. QED BY <1>7, <1>8, <2>1, <3>1
    <2>3. QED BY <2>2
  <1>12. AuditedOnce(docs)
    BY <1>9, <1>10, <1>11 DEF AuditedOnce, IsList
  <1>13. docs \in Seq(DocsOf(docs))
    <2>1. docs = [i \in 1..n |-> docs[i]]
      BY <1>1, <1>8
    <2>2. \A i \in 1..n : docs[i] \in DocsOf(docs)
      BY <1>9 DEF DocsOf
    <2>3. QED BY <2>1, <2>2
  <1>14. QED BY <1>3, <1>5, <1>9, <1>10, <1>12, <1>13

LEMMA CutWithin ==
  ASSUME NEW list, list \in Seq(DocsOf(list)), NEW a \in Nat \ {0}, NEW b \in Int, b <= Len(list)
  PROVE  IsList(SubSeq(list, a, b)) /\ Within(SubSeq(list, a, b), list)
  <1> DEFINE cut == SubSeq(list, a, b)
  <1>1. CASE a <= b
    <2>1. /\ Len(cut) = b - a + 1 /\ cut \in Seq(DocsOf(list))
          /\ \A i \in 1..(b - a + 1) : cut[i] = list[a + i - 1]
      BY <1>1, SubSeqProperties
    <2> HIDE DEF cut
    <2>2. DOMAIN cut = 1..(b - a + 1) /\ b - a + 1 \in Nat
      BY <1>1, <2>1
    <2> DEFINE e == [k \in 1..(b - a + 1) |-> a + k - 1]
    <2>3. e \in [DOMAIN cut -> DOMAIN list]
      BY <1>1, <2>2
    <2>4. \A k \in DOMAIN cut : cut[k] = list[e[k]]
      BY <2>1, <2>2
    <2>5. \A k, l \in DOMAIN cut : k < l => e[k] < e[l]
      BY <2>2
    <2> HIDE DEF e
    <2>6. QED BY <2>2, <2>3, <2>4, <2>5 DEF IsList, Within, cut
  <1>2. CASE ~(a <= b)
    <2>1. cut = <<>>
      BY <1>2
    <2>2. IsList(cut)
      BY <2>1 DEF IsList
    <2> DEFINE e == [k \in {} |-> k]
    <2>3. e \in [DOMAIN cut -> DOMAIN list] /\ DOMAIN cut = {}
      BY <2>1
    <2>4. Within(cut, list)
      BY <2>3 DEF Within
    <2>5. QED BY <2>2, <2>4
  <1>3. QED BY <1>1, <1>2

\* A chunk is a part of the listing, in its order.
LEMMA ChunkWithin ==
  ASSUME docs \in Seq(DocsOf(docs)), NEW n \in Chunks
  PROVE  IsList(ChunkOf(n)) /\ Within(ChunkOf(n), docs)
  <1> DEFINE chunk == ChunkOf(n)
  <1> DEFINE a == n * ChunkSize + 1
             b == Lower({(n + 1) * ChunkSize, Len(docs)})
  <1>1. n \in Nat /\ ChunkSize \in Nat /\ Len(docs) \in Nat
    BY RulesAssumption DEF Chunks
  <1>2. a \in Nat \ {0} /\ (n + 1) * ChunkSize \in Nat
    BY <1>1
  <1>3. b \in Int /\ b <= Len(docs)
    <2> DEFINE x == (n + 1) * ChunkSize
    <2>1. x \in Nat
      BY <1>2
    <2> HIDE DEF x
    <2>2. \E m \in {x, Len(docs)} : \A y \in {x, Len(docs)} : m <= y
      BY <1>1, <2>1
    <2>3. Lower({x, Len(docs)}) \in {x, Len(docs)} /\ Lower({x, Len(docs)}) <= Len(docs)
      BY <2>2 DEF Lower
    <2>4. QED BY <1>1, <2>1, <2>3 DEF x
  <1>4. chunk = SubSeq(docs, a, b)
    BY DEF ChunkOf
  <1> HIDE DEF a, b, chunk
  <1>5. QED BY <1>2, <1>3, <1>4, CutWithin DEF chunk

\* The documents that are compared stand in the listing, in its order.
LEMMA LedgerWithin ==
  ASSUME AuditedOnce(docs), docs \in Seq(DocsOf(docs)), NEW n \in Chunks
  PROVE  LET ledger == LedgerOf(ChunkOf(n))
         IN  /\ IsList(ledger) /\ Within(ledger, docs)
             /\ \A k \in DOMAIN ledger : ledger[k].type \notin Journals
  <1> DEFINE chunk == ChunkOf(n)
             dated == {i \in DOMAIN chunk : Set.ignoreBefore = None \/ chunk[i].date >= Set.ignoreBefore}
             floor == Floor(chunk)
             plain == {i \in DOMAIN floor : floor[i].type \notin BankTypes \cup Journals}
             ledger == LedgerOf(chunk)
  <1>1. IsList(chunk) /\ Within(chunk, docs)
    BY ChunkWithin
  <1> HIDE DEF chunk
  <1>2. floor = Sublist(chunk, dated) /\ dated \in SUBSET DOMAIN chunk
    BY DEF Floor
  <1> HIDE DEF dated, floor
  <1>3. IsList(floor) /\ Within(floor, chunk)
    BY <1>1, <1>2, Placed
  <1>4. ledger = Sublist(floor, plain) /\ plain \in SUBSET DOMAIN floor
    BY DEF LedgerOf, Without, floor
  <1>5. \A i \in plain : floor[i].type \notin Journals
    OBVIOUS
  <1> HIDE DEF plain, ledger
  <1>6. /\ IsList(ledger) /\ Within(ledger, floor)
        /\ \A k \in DOMAIN ledger : \E i \in plain : ledger[k] = floor[i]
    BY <1>3, <1>4, Placed
  <1>7. IsList(docs)
    BY DEF AuditedOnce
  <1>8. Within(ledger, docs)
    BY <1>1, <1>3, <1>6, <1>7, WithinTransitive
  <1>9. QED BY <1>5, <1>6, <1>8 DEF ledger, chunk

-----------------------------------------------------------------------------
(* The advice of an audit: of two documents of a pair the one that comes   *)
(* later, by payment, posting, date and place in the listing, is voided.   *)

Earlier(i, j) ==
  \/ IsPaid(docs[i]) /\ ~IsPaid(docs[j])
  \/ /\ IsPaid(docs[i]) <=> IsPaid(docs[j])
     /\ docs[i].posted < docs[j].posted
  \/ /\ IsPaid(docs[i]) <=> IsPaid(docs[j])
     /\ docs[i].posted = docs[j].posted
     /\ Before(docs, i, j)

Posted == {i \in DOMAIN docs : docs[i].type \notin Journals}

\* A flag that advises to void a document names an earlier one.
WellAdvised(f) ==
  f.original = FALSE =>
    \E i, j \in Posted : f.partner = docs[i].id /\ f.doc = docs[j].id /\ Earlier(i, j)

LEMMA PairWellAdvised ==
  ASSUME AuditedOnce(docs), NEW i \in Posted, NEW j \in Posted, Before(docs, i, j),
         NEW sure, NEW marked, NEW f \in PairFlags(docs[i], docs[j], sure, marked)
  PROVE  WellAdvised(f)
  <1> DEFINE a == docs[i]
             b == docs[j]
             Told(d) == [Flag(d, DuplicateIssue(a.type)) EXCEPT
                           !.partner = (IF d = a THEN b ELSE a).id,
                           !.original = IF marked THEN (d = a) = FirstIsOriginal(a, b) ELSE None,
                           !.sure = sure]
  <1>1. SUFFICES ASSUME f.original = FALSE
                 PROVE  \E x, y \in Posted : f.partner = docs[x].id /\ f.doc = docs[y].id /\ Earlier(x, y)
    BY DEF WellAdvised
  <1>2. PairFlags(a, b, sure, marked) = {Told(d) : d \in {a, b}}
    BY DEF PairFlags
  <1>3. PICK d \in {a, b} : f = Told(d)
    <2> HIDE DEF Told
    <2>1. QED BY <1>2
  <1>4. /\ f.doc = d.id
        /\ f.partner = (IF d = a THEN b ELSE a).id
        /\ f.original = IF marked THEN (d = a) = FirstIsOriginal(a, b) ELSE None
    BY <1>3 DEF Flag
  <1>5. d = a <=> ~FirstIsOriginal(a, b)
    <2>1. None # FALSE
      BY RulesAssumption
    <2>2. ((d = a) = FirstIsOriginal(a, b)) = FALSE
      BY <1>1, <1>4, <2>1
    <2>3. FirstIsOriginal(a, b) \in BOOLEAN
      <3>1. IsPaid(a) \in BOOLEAN
        BY DEF IsPaid
      <3>2. (a.posted <= b.posted) \in BOOLEAN /\ (a.date <= b.date) \in BOOLEAN
        OBVIOUS
      <3> HIDE DEF a, b
      <3>3. QED BY <3>1, <3>2, Zenon DEF FirstIsOriginal
    <2> HIDE DEF a, b
    <2>4. QED BY <2>2, <2>3, Zenon
  <1>6. /\ i \in DOMAIN docs /\ j \in DOMAIN docs
        /\ a.posted \in Int /\ b.posted \in Int /\ a.date \in Int /\ b.date \in Int
    BY DEF AuditedOnce, Posted
  <1>7. None \notin Int
    BY RulesAssumption
  <1>8. i \in Int /\ j \in Int
    BY <1>6 DEF AuditedOnce, IsList
  <1>9. a.date <= b.date
    BY <1>6 DEF Before
  <1>10. /\ ~(IsPaid(a) <=> IsPaid(b)) => (FirstIsOriginal(a, b) <=> IsPaid(a))
         /\ (IsPaid(a) <=> IsPaid(b)) /\ a.posted # b.posted =>
              (FirstIsOriginal(a, b) <=> a.posted <= b.posted)
         /\ (IsPaid(a) <=> IsPaid(b)) /\ a.posted = b.posted => FirstIsOriginal(a, b)
    BY <1>6, <1>7, <1>9 DEF FirstIsOriginal, IsPaid
  <1>11. CASE FirstIsOriginal(a, b)
    <2>1. Earlier(i, j)
      BY <1>6, <1>10, <1>11 DEF Earlier
    <2>2. d = b /\ d # a
      BY <1>5, <1>11
    <2>3. QED BY <1>4, <2>1, <2>2
  <1>12. CASE ~FirstIsOriginal(a, b)
    <2>1. Earlier(j, i)
      BY <1>6, <1>10, <1>12 DEF Earlier
    <2>2. d = a
      BY <1>5, <1>12
    <2>3. QED BY <1>4, <2>1, <2>2
  <1>13. QED BY <1>11, <1>12

\* A pair the sweeps of a chunk compare stands in the listing in this order.
LEMMA PairsPosted ==
  ASSUME AuditedOnce(docs), NEW list, IsList(list), Within(list, docs),
         \A k \in DOMAIN list : list[k].type \notin Journals,
         NEW group \in SameContact(list) \cup SameAmount(list),
         NEW window, NEW p \in SweptPairs(group, window)
  PROVE  \E i, j \in Posted : p = <<docs[i], docs[j]>> /\ Before(docs, i, j)
  <1>1. PICK places \in SUBSET DOMAIN list : group = Sublist(list, places)
    BY DEF SameContact, SameAmount
  <1>2. /\ IsList(group) /\ Within(group, list)
        /\ \A k \in DOMAIN group : \E i \in places : group[k] = list[i]
    BY <1>1, Placed
  <1>3. IsList(docs)
    BY DEF AuditedOnce
  <1>4. Within(group, docs)
    BY <1>2, <1>3, WithinTransitive
  <1>5. PICK e \in [DOMAIN group -> DOMAIN docs] :
          /\ \A k \in DOMAIN group : group[k] = docs[e[k]]
          /\ \A k, l \in DOMAIN group : k < l => e[k] < e[l]
    BY <1>4 DEF Within
  <1>6. \A k \in DOMAIN group : group[k].date \in Int
    BY <1>5 DEF AuditedOnce
  <1>7. PICK k, l \in DOMAIN group : p = <<group[k], group[l]>> /\ Before(group, k, l)
    BY <1>2, <1>6, SweptInOrder
  <1>8. /\ e[k] \in DOMAIN docs /\ e[l] \in DOMAIN docs
        /\ group[k] = docs[e[k]] /\ group[l] = docs[e[l]]
        /\ k < l => e[k] < e[l]
    BY <1>5
  <1>9. Before(docs, e[k], e[l])
    BY <1>7, <1>8 DEF Before
  <1>10. e[k] \in Posted /\ e[l] \in Posted
    BY <1>1, <1>2, <1>8 DEF Posted
  <1>11. QED BY <1>7, <1>8, <1>9, <1>10

LEMMA DuplicatesWellAdvised ==
  ASSUME AuditedOnce(docs), NEW list, IsList(list), Within(list, docs),
         \A k \in DOMAIN list : list[k].type \notin Journals,
         NEW f \in FindDuplicates(list, Set) \cup FindCrossDuplicates(list, Org, Set)
  PROVE  WellAdvised(f)
  <1>1. CASE f \in FindDuplicates(list, Set)
    <2> DEFINE Cadence(p) ==
                 TwiceCadence(SelectSeq(list, LAMBDA d : ContactKey(d) = ContactKey(p[1]) /\ d.type = p[1].type),
                              p[1].amount)
               Sure(p) == Confidence(p[1], p[2], Cadence(p))
               Said(p) == IF Comparable(p[1], p[2], Set) /\ Sure(p) >= Set.dupMinConfidence
                          THEN PairFlags(p[1], p[2], Sure(p), Confirmed(Sure(p))) ELSE {}
    <2>1. FindDuplicates(list, Set) = UNION {Said(p) : p \in ContactPairs(list, Set)}
      BY DEF FindDuplicates
    <2> HIDE DEF Cadence, Sure
    <2>2. PICK p \in ContactPairs(list, Set) : f \in Said(p)
      <3> HIDE DEF Said
      <3>1. QED BY <1>1, <2>1
    <2>3. PICK group \in SameContact(list) : p \in SweptPairs(group, Set.dupWindow)
      BY DEF ContactPairs
    <2>4. PICK i, j \in Posted : p = <<docs[i], docs[j]>> /\ Before(docs, i, j)
      BY <2>3, PairsPosted
    <2>5. f \in PairFlags(docs[i], docs[j], Sure(p), Confirmed(Sure(p)))
      BY <2>2, <2>4
    <2>6. QED BY <2>4, <2>5, PairWellAdvised
  <1>2. CASE f \in FindCrossDuplicates(list, Org, Set)
    <2> DEFINE pairs == UNION {SweptPairs(group, Set.dupWindow) : group \in SameAmount(list)}
               Strength(p) == PartyStrength(p[1], p[2], Org)
               Said(p) == IF /\ ContactKey(p[1]) # ContactKey(p[2])
                             /\ Set.dupCheckPaid \/ ~IsPaid(p[1]) \/ ~IsPaid(p[2]) \/ p[1].type \in CreditTypes
                             /\ Strength(p) # None
                             /\ CrossScore(p[1], p[2], Strength(p)) >= 60
                          THEN PairFlags(p[1], p[2], CrossScore(p[1], p[2], Strength(p)), TRUE) ELSE {}
    <2>1. FindCrossDuplicates(list, Org, Set) = UNION {Said(p) : p \in pairs}
      BY DEF FindCrossDuplicates
    <2> HIDE DEF Strength
    <2>2. PICK p \in pairs : f \in Said(p)
      <3> HIDE DEF Said, pairs
      <3>1. QED BY <1>2, <2>1
    <2>3. PICK group \in SameAmount(list) : p \in SweptPairs(group, Set.dupWindow)
      OBVIOUS
    <2>4. PICK i, j \in Posted : p = <<docs[i], docs[j]>> /\ Before(docs, i, j)
      BY <2>3, PairsPosted
    <2>5. f \in PairFlags(docs[i], docs[j], CrossScore(p[1], p[2], Strength(p)), TRUE)
      BY <2>2, <2>4
    <2>6. QED BY <2>4, <2>5, PairWellAdvised
  <1>3. QED BY <1>1, <1>2

\* Earlier is a strict order, so it can be counted along.
LEMMA Ranked ==
  ASSUME AuditedOnce(docs), NEW Ids
  PROVE  \E r \in [Ids -> Nat] : \A i, j \in Posted :
           docs[i].id \in Ids /\ docs[j].id \in Ids /\ Earlier(i, j) => r[docs[i].id] < r[docs[j].id]
  <1> DEFINE Preceding(id) == {k \in Posted : \E j \in Posted : docs[j].id = id /\ Earlier(k, j)}
             r == [id \in Ids |-> Cardinality(Preceding(id))]
  <1>1. PICK n \in Nat : DOMAIN docs = 1..n
    BY DEF AuditedOnce, IsList
  <1>2. IsFiniteSet(Posted) /\ Posted \in SUBSET Int
    <2>1. Posted \in SUBSET (1..n) /\ IsFiniteSet(1..n)
      BY <1>1, FS_Interval DEF Posted
    <2>2. IsFiniteSet(Posted)
      BY <2>1, FS_Subset
    <2>3. Posted \in SUBSET Int
      BY <2>1
    <2>4. QED BY <2>2, <2>3
  <1>3. ASSUME NEW id
        PROVE  IsFiniteSet(Preceding(id)) /\ Cardinality(Preceding(id)) \in Nat
    <2>1. Preceding(id) \in SUBSET Posted
      OBVIOUS
    <2>2. QED BY <1>2, <2>1, FS_Subset, FS_CardinalityType
  <1>4. r \in [Ids -> Nat]
    BY <1>3
  <1>5. /\ \A i \in Posted : docs[i].posted \in Int /\ docs[i].date \in Int
        /\ \A i, j \in Posted : docs[i].id = docs[j].id => i = j
    BY DEF AuditedOnce, Posted
  <1>6. ASSUME NEW i \in Posted, NEW j \in Posted, NEW k \in Posted, Earlier(k, i), Earlier(i, j)
        PROVE  Earlier(k, j)
    <2>1. /\ i \in Int /\ j \in Int /\ k \in Int
          /\ docs[i].posted \in Int /\ docs[j].posted \in Int /\ docs[k].posted \in Int
          /\ docs[i].date \in Int /\ docs[j].date \in Int /\ docs[k].date \in Int
      BY <1>2, <1>5
    <2>2. Before(docs, k, i) /\ Before(docs, i, j) => Before(docs, k, j)
      BY <2>1 DEF Before
    <2>3. CASE IsPaid(docs[i])
      BY <1>6, <2>1, <2>2, <2>3 DEF Earlier
    <2>4. CASE ~IsPaid(docs[i])
      BY <1>6, <2>1, <2>2, <2>4 DEF Earlier
    <2>5. QED BY <2>3, <2>4
  <1>7. ASSUME NEW i \in Posted
        PROVE  ~Earlier(i, i)
    <2>1. i \in Int /\ docs[i].posted \in Int /\ docs[i].date \in Int
      BY <1>2, <1>5
    <2>2. QED BY <2>1 DEF Earlier, Before
  <1>8. ASSUME NEW i \in Posted, NEW j \in Posted,
               docs[i].id \in Ids, docs[j].id \in Ids, Earlier(i, j)
        PROVE  r[docs[i].id] < r[docs[j].id]
    <2> DEFINE before == Preceding(docs[i].id)
               after == Preceding(docs[j].id)
    <2>1. before \in SUBSET after
      BY <1>5, <1>6, <1>8
    <2>2. i \in after /\ i \notin before
      BY <1>5, <1>7, <1>8
    <2>3. /\ IsFiniteSet(after)
          /\ Cardinality(before) \in Nat /\ Cardinality(after) \in Nat
      BY <1>3
    <2>4. r[docs[i].id] = Cardinality(before) /\ r[docs[j].id] = Cardinality(after)
      BY <1>8
    <2> HIDE DEF before, after, r
    <2>5. Cardinality(before) <= Cardinality(after) /\ Cardinality(before) # Cardinality(after)
      BY <2>1, <2>2, <2>3, FS_Subset
    <2>6. QED BY <2>3, <2>4, <2>5
  <1> HIDE DEF r
  <1>9. QED BY <1>4, <1>8

\* Everything an audit leaves is well advised.
LEMMA AuditWellAdvised ==
  ASSUME IsLedger(books), today \in Int, NEW lost, NEW picked, Evaluate(lost, picked)
  PROVE  \A f \in flags' : WellAdvised(f)
  <1> DEFINE Said(n) == RunBatch(ChunkOf(n), today, picked)
             found == UNION {Said(n) : n \in Chunks \ lost}
             kept == DropAlreadyCapitalised(found)
             contacts == ContactFlags(company.contacts, docs, Org, today, Set)
  <1>1. flags' = Settle(found) \cup contacts
    BY DEF Evaluate
  <1>2. AuditedOnce(docs) /\ docs \in Seq(DocsOf(docs))
    BY Listed
  <1>3. \A g \in contacts : g.original = None
    BY ContactsArePlain DEF Plain
  <1>4. ASSUME NEW n \in Chunks, NEW g \in Said(n)
        PROVE  OnItsCard(g) /\ WellAdvised(g)
    <2> DEFINE ledger == LedgerOf(ChunkOf(n))
    <2>1. /\ OnItsCard(g)
          /\ \/ g.original = None
             \/ g \in FindDuplicates(ledger, Set)
             \/ g \in FindCrossDuplicates(ledger, Org, Set)
      BY ChunkFlags
    <2>2. /\ IsList(ledger) /\ Within(ledger, docs)
          /\ \A k \in DOMAIN ledger : ledger[k].type \notin Journals
      BY <1>2, LedgerWithin
    <2>3. CASE g.original = None
      BY <2>1, <2>3, RulesAssumption DEF WellAdvised
    <2> HIDE DEF ledger
    <2>4. CASE g \in FindDuplicates(ledger, Set) \cup FindCrossDuplicates(ledger, Org, Set)
      BY <1>2, <2>1, <2>2, <2>4, DuplicatesWellAdvised
    <2>5. QED BY <2>1, <2>3, <2>4
  <1> HIDE DEF Said, contacts
  <1>5. \A g \in kept : OnItsCard(g) /\ WellAdvised(g)
    BY <1>4 DEF DropAlreadyCapitalised
  <1>6. Settle(found) = ApplyHierarchy(kept)
    BY DEF Settle
  <1> HIDE DEF found, kept
  <1>7. ASSUME NEW f \in ApplyHierarchy(kept)
        PROVE  WellAdvised(f)
    <2> DEFINE Rule(h) == Explains(IssuesOf(kept, h.doc))
               Moved(h) == IF h.issue \in TakenOver(Rule(h)) THEN [h EXCEPT !.by = Rule(h)] ELSE h
    <2>1. ApplyHierarchy(kept) = {Moved(h) : h \in kept}
      BY DEF ApplyHierarchy
    <2> HIDE DEF Rule
    <2>2. PICK h \in kept : f = Moved(h)
      <3> HIDE DEF Moved
      <3>1. QED BY <2>1
    <2>3. OnItsCard(h) /\ WellAdvised(h)
      BY <1>5
    <2>4. f.original = h.original /\ f.doc = h.doc /\ f.partner = h.partner
      BY <2>2, <2>3 DEF OnItsCard, Fields
    <2>5. QED BY <2>3, <2>4 DEF WellAdvised
  <1>8. ASSUME NEW f \in contacts
        PROVE  WellAdvised(f)
    BY <1>3, RulesAssumption DEF WellAdvised
  <1>9. QED BY <1>1, <1>6, <1>7, <1>8

-----------------------------------------------------------------------------
(* The last copy.  The documents voided before the last audit were settled *)
(* by then; the ones voided since, and those the flags still advise to     *)
(* void, are voided in favour of one that comes earlier and was not voided *)
(* when that audit ran.                                                    *)

BookIds == {books[k].id : k \in DOMAIN books}

LedgerKept ==
  /\ today \in 0..LastDay
  /\ IsLedger(books)
  /\ company \in {start.company : start \in Ledgers}

VoidedOnly ==
  \A id \in DOMAIN keeper : \E k \in DOMAIN books : books[k].id = id /\ books[k].status \in Skipped

SettledBy(Older, r) ==
  /\ \A S \in SUBSET Older : S # {} => \E id \in S : keeper[id] \notin S
  /\ \A id \in DOMAIN keeper \ Older : keeper[id] \notin Older /\ r[keeper[id]] < r[id]
  /\ \A id \in DOMAIN keeper \ Older : keeper[id] \in BookIds
  /\ \A f \in flags : f.original = FALSE =>
       /\ f.doc \in BookIds /\ f.partner \in BookIds
       /\ f.partner \notin Older /\ r[f.partner] < r[f.doc]

CopiesKept ==
  /\ LedgerKept
  /\ VoidedOnly
  /\ \E Older \in SUBSET DOMAIN keeper, r \in [BookIds -> Nat] : SettledBy(Older, r)

LEMMA KeptCopiesSurvive == CopiesKept => LastCopySurvives
  <1>1. SUFFICES ASSUME CopiesKept, NEW S \in SUBSET DOMAIN keeper, S # {}
                 PROVE  \E id \in S : keeper[id] \notin S
    BY DEF LastCopySurvives
  <1>2. PICK Older \in SUBSET DOMAIN keeper, r \in [BookIds -> Nat] : SettledBy(Older, r)
    BY <1>1 DEF CopiesKept
  <1>3. CASE S \subseteq Older
    BY <1>1, <1>2, <1>3 DEF SettledBy
  <1>4. CASE ~(S \subseteq Older)
    <2> DEFINE ranks == {r[id] : id \in S \ Older}
    <2>1. \A id \in DOMAIN keeper : id \in BookIds
      BY <1>1 DEF CopiesKept, VoidedOnly, BookIds
    <2>2. ranks \in SUBSET Nat /\ ranks # {}
      BY <1>2, <1>4, <2>1
    <2>3. Lower(ranks) \in ranks /\ \A y \in ranks : Lower(ranks) <= y
      <3> HIDE DEF ranks
      <3>1. QED BY <2>2, LowerIsLeast
    <2>4. PICK id \in S \ Older : r[id] = Lower(ranks)
      BY <2>3
    <2>5. /\ keeper[id] \notin Older /\ r[keeper[id]] < r[id]
          /\ keeper[id] \in BookIds
      BY <1>2, <2>4 DEF SettledBy
    <2>6. keeper[id] \notin S
      <3>1. SUFFICES ASSUME keeper[id] \in S PROVE FALSE
        OBVIOUS
      <3>2. r[keeper[id]] \in ranks
        BY <2>5, <3>1
      <3>3. r[id] <= r[keeper[id]]
        BY <2>3, <2>4, <3>2
      <3>4. r[id] \in Nat /\ r[keeper[id]] \in Nat
        BY <1>2, <2>1, <2>4, <2>5
      <3>5. QED BY <2>5, <3>3, <3>4
    <2>7. QED BY <2>6
  <1>5. QED BY <1>3, <1>4

LEMMA EmptyLedgerKept == EngineInit => CopiesKept
  <1>1. SUFFICES ASSUME EngineInit PROVE CopiesKept
    OBVIOUS
  <1>2. PICK start \in Ledgers : books = start.books /\ company = start.company
    BY <1>1 DEF EngineInit
  <1>3. LedgerKept
    BY <1>1, <1>2, LedgersAssumption, RulesAssumption DEF EngineInit, LedgerKept
  <1>4. DOMAIN keeper = {} /\ flags = {}
    BY <1>1 DEF EngineInit
  <1>5. VoidedOnly
    BY <1>4 DEF VoidedOnly
  <1> DEFINE r == [id \in BookIds |-> 0]
  <1>6. r \in [BookIds -> Nat]
    OBVIOUS
  <1>7. SettledBy({}, r)
    BY <1>4 DEF SettledBy
  <1>8. QED BY <1>3, <1>4, <1>5, <1>6, <1>7 DEF CopiesKept

LEMMA AuditKeepsCopies ==
  ASSUME CopiesKept, NEW lost, NEW picked, Evaluate(lost, picked)
  PROVE  CopiesKept'
  <1>1. /\ LedgerKept /\ VoidedOnly /\ LastCopySurvives
        /\ IsLedger(books) /\ today \in Int
    BY KeptCopiesSurvive, RulesAssumption DEF CopiesKept, LedgerKept
  <1>2. books' = books /\ company' = company /\ today' = today /\ keeper' = keeper
    BY DEF Evaluate
  <1>3. LedgerKept' /\ VoidedOnly' /\ BookIds' = BookIds
    BY <1>1, <1>2 DEF LedgerKept, VoidedOnly, BookIds
  <1>4. \A f \in flags' : WellAdvised(f)
    BY <1>1, AuditWellAdvised
  <1>5. /\ AuditedOnce(docs)
        /\ \A i \in DOMAIN docs : \E k \in DOMAIN books :
             books[k].id = docs[i].id /\ books[k].status \notin Skipped
    BY <1>1, Listed
  <1>6. PICK r \in [BookIds -> Nat] : \A i, j \in Posted :
          docs[i].id \in BookIds /\ docs[j].id \in BookIds /\ Earlier(i, j) => r[docs[i].id] < r[docs[j].id]
    BY <1>5, Ranked
  <1>7. \A i \in DOMAIN docs : docs[i].id \in BookIds \ DOMAIN keeper
    <2>1. SUFFICES ASSUME NEW i \in DOMAIN docs PROVE docs[i].id \in BookIds \ DOMAIN keeper
      OBVIOUS
    <2>2. PICK k \in DOMAIN books : books[k].id = docs[i].id /\ books[k].status \notin Skipped
      BY <1>5
    <2>3. \A l \in DOMAIN books : books[l].id = docs[i].id => l = k
      BY <1>1, <2>2 DEF IsLedger
    <2>4. QED BY <1>1, <2>2, <2>3 DEF VoidedOnly, BookIds
  <1>8. \A f \in flags' : f.original = FALSE =>
          /\ f.doc \in BookIds /\ f.partner \in BookIds
          /\ f.partner \notin DOMAIN keeper /\ r[f.partner] < r[f.doc]
    <2>1. SUFFICES ASSUME NEW f \in flags', f.original = FALSE
                   PROVE  /\ f.doc \in BookIds /\ f.partner \in BookIds
                          /\ f.partner \notin DOMAIN keeper /\ r[f.partner] < r[f.doc]
      OBVIOUS
    <2>2. PICK i, j \in Posted : f.partner = docs[i].id /\ f.doc = docs[j].id /\ Earlier(i, j)
      BY <1>4, <2>1 DEF WellAdvised
    <2>3. i \in DOMAIN docs /\ j \in DOMAIN docs
      BY DEF Posted
    <2>4. QED BY <1>6, <1>7, <2>2, <2>3
  <1>9. SettledBy(DOMAIN keeper, r)'
    <2>1. \A S \in SUBSET DOMAIN keeper : S # {} => \E id \in S : keeper[id] \notin S
      BY <1>1 DEF LastCopySurvives
    <2>2. QED BY <1>2, <1>3, <1>8, <2>1 DEF SettledBy
  <1>10. QED BY <1>2, <1>3, <1>6, <1>9 DEF CopiesKept

LEMMA StillAList ==
  ASSUME NEW list, list \in Seq(DocsOf(list)), NEW i \in DOMAIN list, NEW d,
         NEW new, new = [list EXCEPT ![i] = d]
  PROVE  /\ new \in Seq(DocsOf(new)) /\ DOMAIN new = DOMAIN list
         /\ new[i] = d /\ \A k \in DOMAIN list \ {i} : new[k] = list[k]
  <1>1. Len(list) \in Nat /\ DOMAIN list = 1..Len(list)
    OBVIOUS
  <1>2. new = [k \in 1..Len(list) |-> IF k = i THEN d ELSE list[k]]
    BY <1>1
  <1>3. \A k \in 1..Len(list) : new[k] \in DocsOf(new)
    BY <1>2 DEF DocsOf
  <1>4. new = [k \in 1..Len(list) |-> new[k]]
    BY <1>2
  <1>5. new \in Seq(DocsOf(new))
    BY ONLY <1>1, <1>3, <1>4
  <1>6. QED BY <1>1, <1>2, <1>5

LEMMA FrameKeepsCopies ==
  ASSUME CopiesKept, today' \in 0..LastDay, UNCHANGED <<books, company, flags, keeper>>
  PROVE  CopiesKept'
  <1>1. LedgerKept' /\ VoidedOnly' /\ BookIds' = BookIds
    BY DEF CopiesKept, LedgerKept, VoidedOnly, BookIds
  <1>2. PICK Older \in SUBSET DOMAIN keeper, r \in [BookIds -> Nat] : SettledBy(Older, r)
    BY DEF CopiesKept
  <1>3. SettledBy(Older, r)'
    BY <1>1, <1>2 DEF SettledBy
  <1>4. Older \in SUBSET DOMAIN keeper' /\ r \in [BookIds' -> Nat]
    BY <1>1, <1>2
  <1>5. QED BY <1>1, <1>3, <1>4 DEF CopiesKept

\* An edit leaves the ids alone and every voided document as it is.
LEMMA EditKeepsCopies ==
  ASSUME CopiesKept, NEW i \in DOMAIN books, Pay(i) \/ Approve(i) \/ Touch(i)
  PROVE  CopiesKept'
  <1>1. PICK d : /\ books' = [books EXCEPT ![i] = [d EXCEPT !.updated = today]]
                 /\ books[i].status \notin Skipped
                 /\ d.id = books[i].id /\ d.kind = books[i].kind /\ d.date = books[i].date
                 /\ DOMAIN d = DOMAIN books[i]
    <2>1. IsRaw(books[i])
      BY DEF CopiesKept, LedgerKept, IsLedger
    <2>2. CASE Pay(i)
      <3> DEFINE d == [books[i] EXCEPT !.status = "PAID", !.amountDue = 0]
      <3>1. /\ d.id = books[i].id /\ d.kind = books[i].kind /\ d.date = books[i].date
            /\ DOMAIN d = DOMAIN books[i]
        BY <2>1 DEF IsRaw, RawFields
      <3>2. /\ books[i].status \notin Skipped
            /\ books' = [books EXCEPT ![i] = [d EXCEPT !.updated = today]]
        BY <2>2 DEF Pay, Replace, Skipped
      <3> HIDE DEF d
      <3>3. QED BY <3>1, <3>2
    <2>3. CASE Approve(i)
      <3> DEFINE d == [books[i] EXCEPT !.status = "AUTHORISED"]
      <3>1. /\ d.id = books[i].id /\ d.kind = books[i].kind /\ d.date = books[i].date
            /\ DOMAIN d = DOMAIN books[i]
        BY <2>1 DEF IsRaw, RawFields
      <3>2. /\ books[i].status \notin Skipped
            /\ books' = [books EXCEPT ![i] = [d EXCEPT !.updated = today]]
        BY <2>3 DEF Approve, Replace, Skipped, UnapprovedStatuses
      <3> HIDE DEF d
      <3>3. QED BY <3>1, <3>2
    <2>4. CASE Touch(i)
      BY <2>1, <2>4 DEF Touch, Replace
    <2>5. QED BY <2>2, <2>3, <2>4
  <1>2. UNCHANGED <<company, today, flags, keeper>>
    BY DEF Pay, Approve, Touch, Replace
  <1>3. /\ IsLedger(books) /\ today \in Int /\ VoidedOnly
        /\ DOMAIN books' = DOMAIN books
        /\ \A k \in DOMAIN books \ {i} : books'[k] = books[k]
        /\ books'[i] = [d EXCEPT !.updated = today]
    BY <1>1 DEF CopiesKept, LedgerKept, IsLedger
  <1>4. /\ books'[i].id = books[i].id /\ IsRaw(books'[i])
    <2>1. IsRaw(books[i])
      BY <1>3 DEF IsLedger
    <2>2. QED BY <1>1, <1>3, <2>1 DEF IsRaw, RawFields
  <1>5. IsLedger(books')
    <2>1. books' \in Seq(DocsOf(books'))
      BY <1>1, <1>3, StillAList DEF IsLedger
    <2>2. \A k \in DOMAIN books' : IsRaw(books'[k]) /\ books'[k].id = books[k].id
      BY <1>3, <1>4 DEF IsLedger
    <2>3. QED BY <1>3, <2>1, <2>2 DEF IsLedger
  <1>6. BookIds' = BookIds
    BY <1>3, <1>4 DEF BookIds
  <1>7. VoidedOnly'
    BY <1>1, <1>2, <1>3 DEF VoidedOnly
  <1>8. LedgerKept'
    BY <1>2, <1>5 DEF CopiesKept, LedgerKept
  <1>9. QED BY <1>2, <1>6, <1>7, <1>8 DEF CopiesKept, SettledBy

LEMMA VoidKeepsCopies ==
  ASSUME CopiesKept, NEW i \in DOMAIN books, NEW f \in flags, Void(i, f)
  PROVE  CopiesKept'
  <1>1. /\ books' = [books EXCEPT ![i].status = "VOIDED", ![i].updated = today]
        /\ books[i].status \notin Skipped /\ f.doc = books[i].id /\ f.original = FALSE
        /\ keeper' = [id \in DOMAIN keeper \cup {f.doc} |-> IF id = f.doc THEN f.partner ELSE keeper[id]]
        /\ flags' = flags \ {f} /\ company' = company /\ today' = today
    BY DEF Void, Advised, VoidedFor
  <1>2. /\ IsLedger(books) /\ today \in Int /\ VoidedOnly
        /\ IsRaw(books[i])
    BY DEF CopiesKept, LedgerKept, IsLedger
  <1>3. /\ DOMAIN books' = DOMAIN books
        /\ \A k \in DOMAIN books \ {i} : books'[k] = books[k]
        /\ books'[i].id = books[i].id /\ books'[i].status \in Skipped /\ IsRaw(books'[i])
    BY <1>1, <1>2 DEF IsRaw, RawFields, Skipped
  <1>4. IsLedger(books')
    <2>1. books' \in Seq(DocsOf(books'))
      <3> DEFINE d == [[books[i] EXCEPT !.status = "VOIDED"] EXCEPT !.updated = today]
      <3>1. books' = [books EXCEPT ![i] = d] /\ books \in Seq(DocsOf(books))
        BY <1>1, <1>2 DEF IsLedger
      <3> HIDE DEF d
      <3>2. QED BY <3>1, StillAList
    <2>2. \A k \in DOMAIN books' : IsRaw(books'[k]) /\ books'[k].id = books[k].id
      BY <1>2, <1>3 DEF IsLedger
    <2>3. QED BY <1>2, <1>3, <2>1, <2>2 DEF IsLedger
  <1>5. BookIds' = BookIds
    BY <1>3 DEF BookIds
  <1>6. f.doc \notin DOMAIN keeper
    BY <1>1, <1>2 DEF VoidedOnly, IsLedger
  <1>7. VoidedOnly'
    <2>1. SUFFICES ASSUME NEW id \in DOMAIN keeper'
                   PROVE  \E k \in DOMAIN books' : books'[k].id = id /\ books'[k].status \in Skipped
      BY DEF VoidedOnly
    <2>2. CASE id = f.doc
      BY <1>1, <1>3, <2>2
    <2>3. CASE id # f.doc
      <3>1. PICK k \in DOMAIN books : books[k].id = id /\ books[k].status \in Skipped
        BY <1>1, <1>2, <2>3 DEF VoidedOnly
      <3>2. QED BY <1>1, <1>3, <3>1
    <2>4. QED BY <2>2, <2>3
  <1>8. PICK Older \in SUBSET DOMAIN keeper, r \in [BookIds -> Nat] : SettledBy(Older, r)
    BY DEF CopiesKept
  <1>9. SettledBy(Older, r)'
    <2>1. \A id \in Older : keeper'[id] = keeper[id]
      BY <1>1, <1>6
    <2>2. \A S \in SUBSET Older : S # {} => \E id \in S : keeper'[id] \notin S
      BY <1>8, <2>1 DEF SettledBy
    <2>3. ASSUME NEW id \in DOMAIN keeper' \ Older
          PROVE  keeper'[id] \notin Older /\ r[keeper'[id]] < r[id] /\ keeper'[id] \in BookIds
      <3>1. CASE id = f.doc
        BY <1>1, <1>8, <3>1 DEF SettledBy
      <3>2. CASE id # f.doc
        BY <1>1, <1>8, <2>3, <3>2 DEF SettledBy
      <3>3. QED BY <3>1, <3>2
    <2>4. \A g \in flags' : g.original = FALSE =>
            /\ g.doc \in BookIds /\ g.partner \in BookIds
            /\ g.partner \notin Older /\ r[g.partner] < r[g.doc]
      BY <1>1, <1>8 DEF SettledBy
    <2>5. QED BY <1>5, <2>2, <2>3, <2>4 DEF SettledBy
  <1>10. LedgerKept'
    BY <1>1, <1>4 DEF CopiesKept, LedgerKept
  <1>11. Older \in SUBSET DOMAIN keeper'
    BY <1>1
  <1>12. QED BY <1>5, <1>7, <1>8, <1>9, <1>10, <1>11 DEF CopiesKept

LEMMA NextKeepsCopies == CopiesKept /\ [EngineNext]_engineVars => CopiesKept'
  <1> SUFFICES ASSUME CopiesKept, [EngineNext]_engineVars
               PROVE  CopiesKept'
    OBVIOUS
  <1>1. CASE Audit
    BY <1>1, AuditKeepsCopies DEF Audit
  <1>2. ASSUME NEW i \in DOMAIN books, Pay(i) \/ Approve(i) \/ Touch(i)
        PROVE  CopiesKept'
    BY <1>2, EditKeepsCopies
  <1>3. ASSUME NEW i \in DOMAIN books, NEW f \in flags, Void(i, f)
        PROVE  CopiesKept'
    BY <1>3, VoidKeepsCopies
  <1>4. CASE NextDay
    <2>1. today' \in 0..LastDay /\ UNCHANGED <<books, company, flags, keeper>>
      BY <1>4, RulesAssumption DEF NextDay, CopiesKept, LedgerKept
    <2>2. QED BY <2>1, FrameKeepsCopies
  <1>5. CASE UNCHANGED engineVars
    <2>1. today' \in 0..LastDay /\ UNCHANGED <<books, company, flags, keeper>>
      BY <1>5 DEF engineVars, CopiesKept, LedgerKept
    <2>2. QED BY <2>1, FrameKeepsCopies
  <1>6. QED BY <1>1, <1>2, <1>3, <1>4, <1>5 DEF EngineNext, Client

\* Whoever follows the advice to void duplicates, over any number of audits,
\* in any order and with documents paid and edited in between, never voids the
\* last copy (duplicates.py: paid, then posted, then dated first is kept).
THEOREM CopiesSurvive == EngineSpec => []LastCopySurvives
  <1>1. QED BY EmptyLedgerKept, NextKeepsCopies, KeptCopiesSurvive, PTL DEF EngineSpec

-----------------------------------------------------------------------------
(* Types.                                                                  *)

EngineTypes ==
  /\ CopiesKept /\ AllStand
  /\ seen \in [day : 0..today, whole : BOOLEAN, current : BOOLEAN]

\* No document an audit still sees has been voided in favour of another.
LEMMA AuditedAreNotVoided ==
  ASSUME CopiesKept
  PROVE  DOMAIN keeper \cap {d.id : d \in DocsOf(docs)} = {}
  <1>1. IsLedger(books) /\ today \in Int /\ VoidedOnly
    BY RulesAssumption DEF CopiesKept, LedgerKept
  <1>2. \A i \in DOMAIN docs : \E k \in DOMAIN books :
          books[k].id = docs[i].id /\ books[k].status \notin Skipped
    BY <1>1, Listed
  <1>3. ASSUME NEW i \in DOMAIN docs, docs[i].id \in DOMAIN keeper
        PROVE  FALSE
    <2>1. PICK k \in DOMAIN books : books[k].id = docs[i].id /\ books[k].status \notin Skipped
      BY <1>2
    <2>2. PICK l \in DOMAIN books : books[l].id = docs[i].id /\ books[l].status \in Skipped
      BY <1>1, <1>3 DEF VoidedOnly
    <2>3. k = l
      BY <1>1, <2>1, <2>2 DEF IsLedger
    <2>4. QED BY <2>1, <2>2, <2>3
  <1>4. QED BY <1>3 DEF DocsOf

LEMMA NextKeepsTypes == EngineTypes /\ [EngineNext]_engineVars => EngineTypes'
  <1> SUFFICES ASSUME EngineTypes, [EngineNext]_engineVars
               PROVE  EngineTypes'
    OBVIOUS
  <1>1. CopiesKept' /\ AllStand'
    BY NextKeepsCopies, NextStands DEF EngineTypes
  <1>2. today \in Nat
    BY RulesAssumption DEF EngineTypes, CopiesKept, LedgerKept
  <1>3. ASSUME NEW lost, NEW picked, Evaluate(lost, picked)
        PROVE  seen' \in [day : 0..today', whole : BOOLEAN, current : BOOLEAN]
    BY <1>2, <1>3 DEF Evaluate
  <1>4. ASSUME seen' = [seen EXCEPT !.current = FALSE], today' = today
        PROVE  seen' \in [day : 0..today', whole : BOOLEAN, current : BOOLEAN]
    BY <1>4 DEF EngineTypes
  <1>5. ASSUME NEW i, NEW f, Pay(i) \/ Approve(i) \/ Touch(i) \/ Void(i, f)
        PROVE  seen' = [seen EXCEPT !.current = FALSE] /\ today' = today
    BY <1>5 DEF Pay, Approve, Touch, Void, Replace
  <1>6. CASE NextDay
    BY <1>1, <1>2, <1>6 DEF EngineTypes, NextDay
  <1>7. CASE UNCHANGED engineVars
    BY <1>1, <1>7 DEF EngineTypes, engineVars
  <1>8. QED BY <1>1, <1>3, <1>4, <1>5, <1>6, <1>7 DEF EngineNext, Audit, Client, EngineTypes

\* The days, the last audit, the flags and the voided documents stay what they
\* are taken for, and no audit reports on a document that was voided.
THEOREM EngineTypeCorrect == EngineSpec => []EngineTypeOK
  <1>1. EngineInit => EngineTypes
    <2>1. SUFFICES ASSUME EngineInit PROVE EngineTypes
      OBVIOUS
    <2>2. CopiesKept
      BY <2>1, EmptyLedgerKept
    <2>3. QED BY <2>1, <2>2 DEF EngineInit, EngineTypes, AllStand
  <1>2. EngineTypes => EngineTypeOK
    BY AuditedAreNotVoided DEF EngineTypes, EngineTypeOK, CopiesKept, LedgerKept, AllStand
  <1>3. QED BY <1>1, <1>2, NextKeepsTypes, PTL DEF EngineSpec

-----------------------------------------------------------------------------
(* The sweep within a contact.                                             *)

\* Where a list has the documents of the contact and kind of another.
PlacesLike(list, d) == {i \in DOMAIN list : ContactKey(list[i]) = ContactKey(d) /\ list[i].type = d.type}

LEMMA GroupOf ==
  ASSUME NEW list, AuditedOnce(list), NEW d
  PROVE  LET places == PlacesLike(list, d)
             group == Sublist(list, places)
         IN  /\ IsList(group) /\ \A k \in DOMAIN group : group[k].date \in Int
             /\ \E e \in [DOMAIN group -> places] :
                  /\ \A k \in DOMAIN group : group[k] = list[e[k]]
                  /\ \A k, l \in DOMAIN group : k < l => e[k] < e[l]
                  /\ \A i \in places : \E k \in DOMAIN group : e[k] = i
  <1> DEFINE places == PlacesLike(list, d)
             group == Sublist(list, places)
  <1>1. IsList(list) /\ places \in SUBSET DOMAIN list
    BY DEF AuditedOnce, PlacesLike
  <1> HIDE DEF places
  <1>2. /\ IsList(group)
        /\ \E e \in [DOMAIN group -> places] :
             /\ \A k \in DOMAIN group : group[k] = list[e[k]]
             /\ \A k, l \in DOMAIN group : k < l => e[k] < e[l]
             /\ \A i \in places : \E k \in DOMAIN group : e[k] = i
    BY <1>1, Placed
  <1> HIDE DEF group
  <1>3. \A k \in DOMAIN group : group[k].date \in Int
    BY <1>1, <1>2 DEF AuditedOnce
  <1>4. QED BY <1>2, <1>3 DEF group, places

LEMMA SweptAreNear ==
  ASSUME NEW list, AuditedOnce(list), Set.dupWindow \in Int, NEW p \in ContactPairs(list, Set)
  PROVE  p[1] \in DocsOf(list) /\ p[2] \in DocsOf(list) /\ Near(p[1], p[2])
  <1>1. PICK d \in DocsOf(list) : /\ d.type # ""
          /\ p \in SweptPairs(Sublist(list, PlacesLike(list, d)), Set.dupWindow)
    BY DEF ContactPairs, SameContact, PlacesLike
  <1> DEFINE places == PlacesLike(list, d)
             group == Sublist(list, places)
  <1>2. /\ IsList(group) /\ \A k \in DOMAIN group : group[k].date \in Int
        /\ \E e \in [DOMAIN group -> places] :
             /\ \A k \in DOMAIN group : group[k] = list[e[k]]
             /\ \A k, l \in DOMAIN group : k < l => e[k] < e[l]
             /\ \A i \in places : \E k \in DOMAIN group : e[k] = i
    BY GroupOf
  <1>places. \A i : i \in places <=> i \in DOMAIN list /\ ContactKey(list[i]) = ContactKey(d) /\ list[i].type = d.type
    BY DEF PlacesLike
  <1>3. p \in SweptPairs(group, Set.dupWindow)
    BY <1>1
  <1> HIDE DEF group
  <1>4. PICK k, l \in DOMAIN group :
          /\ p = <<group[k], group[l]>> /\ Before(group, k, l)
          /\ group[l].date - group[k].date <= Set.dupWindow
    BY <1>2, <1>3, SweptInOrder
  <1>5. PICK e \in [DOMAIN group -> places] :
          /\ \A x \in DOMAIN group : group[x] = list[e[x]]
          /\ \A x, y \in DOMAIN group : x < y => e[x] < e[y]
    BY <1>2
  <1>6. /\ e[k] \in places /\ e[l] \in places
        /\ group[k] = list[e[k]] /\ group[l] = list[e[l]]
    BY <1>5
  <1> HIDE DEF places
  <1>7. e[k] \in Int /\ e[l] \in Int /\ k \in Int /\ l \in Int
    <2>1. DOMAIN list \in SUBSET Int /\ DOMAIN group \in SUBSET Int
      BY <1>2 DEF AuditedOnce, IsList
    <2>2. QED BY <1>places, <1>6, <2>1
  <1>8. k # l /\ group[k].date <= group[l].date
    BY <1>2, <1>4, <1>7 DEF Before
  <1>9. e[k] # e[l]
    BY <1>5, <1>7, <1>8
  <1>10. group[k] # group[l]
    BY <1>places, <1>6, <1>9 DEF AuditedOnce
  <1>11. Absolute(group[k].date - group[l].date) <= Set.dupWindow
    BY <1>2, <1>4, <1>8 DEF Absolute
  <1>12. Near(group[k], group[l])
    BY <1>places, <1>1, <1>6, <1>10, <1>11 DEF Near
  <1>13. group[k] \in DocsOf(list) /\ group[l] \in DocsOf(list)
    BY <1>places, <1>6 DEF DocsOf
  <1>14. QED BY <1>4, <1>12, <1>13

LEMMA NearAreSwept ==
  ASSUME NEW list, AuditedOnce(list), Set.dupWindow \in Int,
         NEW a \in DocsOf(list), NEW b \in DocsOf(list), Near(a, b)
  PROVE  <<a, b>> \in ContactPairs(list, Set) \/ <<b, a>> \in ContactPairs(list, Set)
  <1> DEFINE places == PlacesLike(list, a)
             group == Sublist(list, places)
  <1>1. /\ IsList(group) /\ \A k \in DOMAIN group : group[k].date \in Int
        /\ \E e \in [DOMAIN group -> places] :
             /\ \A k \in DOMAIN group : group[k] = list[e[k]]
             /\ \A k, l \in DOMAIN group : k < l => e[k] < e[l]
             /\ \A i \in places : \E k \in DOMAIN group : e[k] = i
    BY GroupOf
  <1>places. \A i : i \in places <=> i \in DOMAIN list /\ ContactKey(list[i]) = ContactKey(a) /\ list[i].type = a.type
    BY DEF PlacesLike
  <1>2. group \in SameContact(list)
    <2>1. a \in {d \in DocsOf(list) : d.type # ""}
      BY DEF Near
    <2>2. QED BY <2>1 DEF SameContact, PlacesLike
  <1>3. PICK i \in places : list[i] = a
    <2>1. PICK i \in DOMAIN list : list[i] = a
      BY DEF DocsOf
    <2>2. i \in places
      BY <1>places, <2>1
    <2>3. QED BY <2>1, <2>2
  <1>4. PICK j \in places : list[j] = b
    BY <1>places DEF DocsOf, Near
  <1> HIDE DEF group, places
  <1>5. PICK k \in DOMAIN group : group[k] = a
    BY <1>1, <1>3
  <1>6. PICK l \in DOMAIN group : group[l] = b
    BY <1>1, <1>4
  <1>7. /\ k \in Int /\ l \in Int /\ k # l
        /\ group[k].date \in Int /\ group[l].date \in Int
    <2>1. DOMAIN group \in SUBSET Int
      BY <1>1 DEF IsList
    <2>2. a # b
      BY DEF Near
    <2>3. k # l
      BY ONLY <2>2, <1>5, <1>6, Zenon
    <2>4. /\ group[k].date \in Int /\ group[l].date \in Int
      BY <1>1
    <2>5. QED BY <2>1, <2>3, <2>4
  <1>8. /\ group[l].date - group[k].date <= Set.dupWindow
        /\ group[k].date - group[l].date <= Set.dupWindow
    <2>1. Absolute(a.date - b.date) <= Set.dupWindow
      BY DEF Near
    <2>2. Absolute(group[k].date - group[l].date) <= Set.dupWindow
      BY ONLY <2>1, <1>5, <1>6, Zenon
    <2> DEFINE m == group[k].date
               n == group[l].date
    <2>3. m \in Int /\ n \in Int /\ Absolute(m - n) <= Set.dupWindow
      BY <1>7, <2>2
    <2>4. m \in Int /\ n \in Int
      BY <2>3
    <2>5. Absolute(m - n) <= Set.dupWindow
      BY <2>3
    <2> HIDE DEF m, n
    <2>6. n - m <= Set.dupWindow /\ m - n <= Set.dupWindow
      BY ONLY <2>4, <2>5, Set.dupWindow \in Int DEF Absolute
    <2>7. QED BY <2>6 DEF m, n
  <1>9. CASE Before(group, k, l)
    <2>1. <<a, b>> \in SweptPairs(group, Set.dupWindow)
      BY <1>1, <1>5, <1>6, <1>8, <1>9, SweptCompletely
    <2>2. QED BY <1>2, <2>1 DEF ContactPairs
  <1>10. CASE Before(group, l, k)
    <2>1. <<b, a>> \in SweptPairs(group, Set.dupWindow)
      BY <1>1, <1>5, <1>6, <1>8, <1>10, SweptCompletely
    <2>2. QED BY <1>2, <2>1 DEF ContactPairs
  <1>11. Before(group, k, l) \/ Before(group, l, k)
    BY <1>7 DEF Before
  <1>12. QED BY <1>9, <1>10, <1>11

\* What a chunk compares is as an audit sees the whole ledger.
LEMMA ChunkAudited ==
  ASSUME AuditedOnce(docs), docs \in Seq(DocsOf(docs)), NEW n \in Chunks
  PROVE  AuditedOnce(LedgerOf(ChunkOf(n)))
  <1> DEFINE ledger == LedgerOf(ChunkOf(n))
  <1>1. IsList(ledger) /\ Within(ledger, docs)
    BY LedgerWithin
  <1> HIDE DEF ledger
  <1>2. PICK e \in [DOMAIN ledger -> DOMAIN docs] :
          /\ \A k \in DOMAIN ledger : ledger[k] = docs[e[k]]
          /\ \A k, l \in DOMAIN ledger : k < l => e[k] < e[l]
    BY <1>1 DEF Within
  <1>3. DOMAIN ledger \in SUBSET Int /\ DOMAIN docs \in SUBSET Int
    BY <1>1 DEF AuditedOnce, IsList
  <1>4. ASSUME NEW i \in DOMAIN ledger, NEW j \in DOMAIN ledger, ledger[i].id = ledger[j].id
        PROVE  i = j
    <2>1. e[i] = e[j]
      BY <1>2, <1>4 DEF AuditedOnce
    <2>2. ~(i < j) /\ ~(j < i)
      BY <1>2, <1>3, <2>1
    <2>3. QED BY <1>3, <2>2
  <1>5. \A i \in DOMAIN ledger :
          ledger[i].date \in Int /\ (ledger[i].type \notin Journals => ledger[i].posted \in Int)
    BY <1>2 DEF AuditedOnce
  <1>6. QED BY <1>1, <1>4, <1>5 DEF AuditedOnce, ledger

\* The sweep of one list compares exactly its near pairs.
LEMMA ListIsSwept ==
  ASSUME NEW list, AuditedOnce(list), Set.dupWindow \in Int
  PROVE  ComparedPairs(list) = NearPairs(list)
  <1> DEFINE pairs == {p \in DocsOf(list) \X DocsOf(list) : Near(p[1], p[2])}
  <1>1. ASSUME NEW s \in ComparedPairs(list)
        PROVE  s \in NearPairs(list)
    <2>1. PICK p \in ContactPairs(list, Set) : s = {p[1], p[2]}
      BY <1>1 DEF ComparedPairs
    <2>2. p[1] \in DocsOf(list) /\ p[2] \in DocsOf(list) /\ Near(p[1], p[2])
      BY SweptAreNear
    <2>3. <<p[1], p[2]>> \in pairs
      BY <2>2
    <2>4. s = {<<p[1], p[2]>>[1], <<p[1], p[2]>>[2]}
      BY <2>1
    <2> HIDE DEF pairs
    <2>5. s \in {{q[1], q[2]} : q \in pairs}
      BY <2>3, <2>4
    <2>6. QED BY <2>5 DEF NearPairs, pairs
  <1>2. ASSUME NEW s \in NearPairs(list)
        PROVE  s \in ComparedPairs(list)
    <2>1. PICK q \in pairs : s = {q[1], q[2]}
      BY <1>2 DEF NearPairs
    <2>2. q[1] \in DocsOf(list) /\ q[2] \in DocsOf(list) /\ Near(q[1], q[2])
      OBVIOUS
    <2>3. \/ <<q[1], q[2]>> \in ContactPairs(list, Set)
          \/ <<q[2], q[1]>> \in ContactPairs(list, Set)
      BY <2>2, NearAreSwept
    <2>4. s = {<<q[1], q[2]>>[1], <<q[1], q[2]>>[2]} /\ s = {<<q[2], q[1]>>[1], <<q[2], q[1]>>[2]}
      BY <2>1
    <2>5. QED BY <2>3, <2>4 DEF ComparedPairs
  <1>3. QED BY <1>1, <1>2

\* Which documents of a list are compared.
Compared(d) ==
  /\ Set.ignoreBefore = None \/ d.date >= Set.ignoreBefore
  /\ d.type \notin BankTypes \cup Journals

LEMMA LedgerMembers ==
  ASSUME NEW list, IsList(list), NEW d
  PROVE  d \in DocsOf(LedgerOf(list)) <=> d \in DocsOf(list) /\ Compared(d)
  <1> DEFINE dated == {i \in DOMAIN list : Set.ignoreBefore = None \/ list[i].date >= Set.ignoreBefore}
             floor == Floor(list)
             plain == {i \in DOMAIN floor : floor[i].type \notin BankTypes \cup Journals}
             ledger == LedgerOf(list)
  <1>1. floor = Sublist(list, dated) /\ dated \in SUBSET DOMAIN list
    BY DEF Floor
  <1>2. ledger = Sublist(floor, plain) /\ plain \in SUBSET DOMAIN floor
    BY DEF LedgerOf, Without
  <1>3. \A i : i \in dated <=> i \in DOMAIN list /\ (Set.ignoreBefore = None \/ list[i].date >= Set.ignoreBefore)
    OBVIOUS
  <1>4. \A i : i \in plain <=> i \in DOMAIN floor /\ floor[i].type \notin BankTypes \cup Journals
    OBVIOUS
  <1> HIDE DEF dated, floor, plain, ledger
  <1>5. /\ IsList(floor)
        /\ \A k \in DOMAIN floor : \E i \in dated : floor[k] = list[i]
        /\ \A i \in dated : \E k \in DOMAIN floor : floor[k] = list[i]
    BY <1>1, Placed
  <1>6. /\ \A k \in DOMAIN ledger : \E i \in plain : ledger[k] = floor[i]
        /\ \A i \in plain : \E k \in DOMAIN ledger : ledger[k] = floor[i]
    BY <1>2, <1>5, Placed
  <1>7. ASSUME d \in DocsOf(ledger)
        PROVE  d \in DocsOf(list) /\ Compared(d)
    <2>1. PICK k \in DOMAIN ledger : ledger[k] = d
      BY <1>7 DEF DocsOf
    <2>2. PICK i \in plain : floor[i] = d
      BY <1>6, <2>1
    <2>3. PICK j \in dated : list[j] = d
      BY <1>4, <1>5, <2>2
    <2>4. QED BY <1>3, <1>4, <2>2, <2>3 DEF DocsOf, Compared
  <1>8. ASSUME d \in DocsOf(list), Compared(d)
        PROVE  d \in DocsOf(ledger)
    <2>1. PICK j \in DOMAIN list : list[j] = d
      BY <1>8 DEF DocsOf
    <2>2. j \in dated
      BY <1>3, <1>8, <2>1 DEF Compared
    <2>3. PICK i \in DOMAIN floor : floor[i] = d
      BY <1>5, <2>1, <2>2
    <2>4. i \in plain
      BY <1>4, <1>8, <2>3 DEF Compared
    <2>5. QED BY <1>6, <2>3, <2>4 DEF DocsOf
  <1>9. QED BY <1>7, <1>8 DEF ledger

LEMMA NearPair ==
  ASSUME NEW list, NEW pair
  PROVE  pair \in NearPairs(list) <=>
           \E a \in DocsOf(list), b \in DocsOf(list) : Near(a, b) /\ pair = {a, b}
  <1> DEFINE pairs == {p \in DocsOf(list) \X DocsOf(list) : Near(p[1], p[2])}
  <1>1. ASSUME pair \in NearPairs(list)
        PROVE  \E a \in DocsOf(list), b \in DocsOf(list) : Near(a, b) /\ pair = {a, b}
    <2>1. PICK q \in pairs : pair = {q[1], q[2]}
      BY <1>1 DEF NearPairs
    <2>2. q[1] \in DocsOf(list) /\ q[2] \in DocsOf(list) /\ Near(q[1], q[2])
      OBVIOUS
    <2>3. QED BY <2>1, <2>2
  <1>2. ASSUME NEW a \in DocsOf(list), NEW b \in DocsOf(list), Near(a, b), pair = {a, b}
        PROVE  pair \in NearPairs(list)
    <2>1. <<a, b>> \in pairs /\ pair = {<<a, b>>[1], <<a, b>>[2]}
      BY <1>2
    <2> HIDE DEF pairs
    <2>2. pair \in {{q[1], q[2]} : q \in pairs}
      BY <2>1
    <2>3. QED BY <2>2 DEF NearPairs, pairs
  <1>3. QED BY <1>1, <1>2

LEMMA SweepIsExact == LedgerKept => SweepMissesOnlyAcrossChunks
  <1>1. SUFFICES ASSUME LedgerKept PROVE SweepMissesOnlyAcrossChunks
    OBVIOUS
  <1>2. AuditedOnce(docs) /\ docs \in Seq(DocsOf(docs))
    BY <1>1, RulesAssumption, Listed DEF LedgerKept
  <1>3. Set.dupWindow \in Int
    BY <1>1, LedgersAssumption DEF LedgerKept, Set
  <1> DEFINE chunks == {ChunkOf(n) : n \in Chunks}
             compared == UNION {ComparedPairs(LedgerOf(chunk)) : chunk \in chunks}
             near == {pair \in NearPairs(LedgerOf(docs)) : \E chunk \in chunks : pair \subseteq DocsOf(chunk)}
  <1>4. ASSUME NEW chunk \in chunks
        PROVE  /\ ComparedPairs(LedgerOf(chunk)) = NearPairs(LedgerOf(chunk))
               /\ \A d : d \in DocsOf(LedgerOf(chunk))
                            <=> d \in DocsOf(LedgerOf(docs)) /\ d \in DocsOf(chunk)
    <2>1. PICK n \in Chunks : chunk = ChunkOf(n)
      OBVIOUS
    <2>2. ComparedPairs(LedgerOf(chunk)) = NearPairs(LedgerOf(chunk))
      BY <1>2, <1>3, <2>1, ChunkAudited, ListIsSwept
    <2>3. IsList(chunk) /\ Within(chunk, docs)
      BY <1>2, <2>1, ChunkWithin
    <2>4. \A d : d \in DocsOf(chunk) => d \in DocsOf(docs)
      BY <2>3 DEF Within, DocsOf
    <2>5. IsList(docs)
      BY <1>2 DEF AuditedOnce
    <2>6. QED BY <2>2, <2>3, <2>4, <2>5, LedgerMembers
  <1>5. ASSUME NEW pair \in compared
        PROVE  pair \in near
    <2>1. PICK chunk \in chunks : pair \in ComparedPairs(LedgerOf(chunk))
      OBVIOUS
    <2> HIDE DEF chunks
    <2>2. pair \in NearPairs(LedgerOf(chunk))
      BY <1>4, <2>1
    <2>3. PICK a \in DocsOf(LedgerOf(chunk)), b \in DocsOf(LedgerOf(chunk)) :
            Near(a, b) /\ pair = {a, b}
      BY <2>2, NearPair
    <2>4. pair \in NearPairs(LedgerOf(docs)) /\ pair \subseteq DocsOf(chunk)
      BY <1>4, <2>3, NearPair
    <2>5. QED BY <2>4
  <1>6. ASSUME NEW pair \in near
        PROVE  pair \in compared
    <2>1. PICK chunk \in chunks : pair \subseteq DocsOf(chunk)
      OBVIOUS
    <2>2. pair \in NearPairs(LedgerOf(docs))
      OBVIOUS
    <2> HIDE DEF chunks
    <2>3. PICK a \in DocsOf(LedgerOf(docs)), b \in DocsOf(LedgerOf(docs)) :
            Near(a, b) /\ pair = {a, b}
      BY <2>2, NearPair
    <2>4. a \in DocsOf(LedgerOf(chunk)) /\ b \in DocsOf(LedgerOf(chunk))
      BY <1>4, <2>1, <2>3
    <2>5. pair \in NearPairs(LedgerOf(chunk))
      BY <2>3, <2>4, NearPair
    <2>6. QED BY <1>4, <2>5
  <1> HIDE DEF chunks
  <1>7. compared = near
    BY <1>5, <1>6
  <1>8. QED BY <1>7 DEF SweepMissesOnlyAcrossChunks, chunks

\* For any listing, window and chunk size the sweeps of an audit compare
\* exactly the pairs of one contact and kind within the window that stand in
\* one chunk, in whatever order Xero listed them (duplicates.py: "near-linear;
\* identical results to all-pairs"): the chunks lose pairs, the window none.
THEOREM SweepComplete == EngineSpec => []SweepMissesOnlyAcrossChunks
  <1>1. CopiesKept => LedgerKept
    BY DEF CopiesKept
  <1>2. QED BY <1>1, EmptyLedgerKept, NextKeepsCopies, SweepIsExact, PTL DEF EngineSpec
=============================================================================
