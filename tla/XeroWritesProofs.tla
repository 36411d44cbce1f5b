-------------------------- MODULE XeroWritesProofs --------------------------
(***************************************************************************)
(* Proofs about XeroWrites, for any documents, lines, codes and number of  *)
(* requests at the same time, and from any state Init allows.              *)
(***************************************************************************)
EXTENDS XeroWrites, TLAPS

-----------------------------------------------------------------------------
(* The invariant.                                                          *)

\* The lines a request would send for those it reads.
Merged(q, items) ==
  [l \in Lines |-> IF items[l] # None /\ Reached(items[l], q.target)
                     THEN With(items[l], q.code) ELSE items[l]]

\* The lines that a request is about have its code.
Recoded(q, items) ==
  \A l \in Lines :
    items[l] # None /\ Flagged(items[l], q.target) => items[l] = With(items[l], q.code)

\* What a request wants is in a document.
Wants(q, doc) ==
  CASE q.op = "update" ->
         /\ q.status \in {None, doc.status}
         /\ q.code # None /\ q.target \subseteq Accounts => Recoded(q, doc.items)
    [] q.op = "credit" -> ~ doc.due
    [] OTHER -> doc.file

\* The steps of each operation, and what a request has at hand before it writes.
Stages(q) ==
  /\ q.op = "update" => q.step \in {"fetch", "write", "proxy", "commit"}
  /\ q.op = "credit" => q.step \in {"source", "create", "allocate", "commit"} /\ q.open
  /\ q.op \in {"upload", "recheck"} => q.step \in {"file", "commit"}
  /\ q.op # "update" => q.code = None
  /\ q.step = "fetch" => q.items = None /\ q.code # None
  /\ q.items # None => q.code # None
  /\ q.step \in {"write", "proxy"} /\ q.items = None /\ q.code # None => q.blind

\* As long as nobody else wrote its document, a request at its write has the
\* lines as they are, and one at its commit got what it wants.
Sound(q, doc, linked) ==
  /\ q.step \in {"write", "proxy"} /\ q.items # None => q.items = Merged(q, doc.items)
  /\ q.step = "commit" => ~ linked \/ q.blind \/ Wants(q, doc)

Fine(r) ==
  request[r] # None =>
    /\ Stages(request[r])
    /\ stale[r] \/ Sound(request[r], xero[request[r].doc], connected)

\* A document with a note whose row is open and was never left open.
Pending(d) ==
  /\ xero[d].notes > 0
  /\ row[d] # None /\ ~ row[d].resolved
  /\ ~ loose[d]

\* A request that made a note and is not over.
Crediting(q, d) == q # None /\ q.op = "credit" /\ q.doc = d /\ q.step \in {"allocate", "commit"}

\* Such a document's note is that of a request still at work.
NotesOK == \A d \in Docs : Pending(d) => \E r \in Requests : Crediting(request[r], d)

WriteInv ==
  /\ TypeOK
  /\ \A r \in Requests : Fine(r)
  /\ NotesOK

-----------------------------------------------------------------------------
(* Elementary facts.                                                       *)

LEMMA Same ==
  ASSUME NEW r \in Requests
  PROVE  /\ \A items : Recode(r, items) = Merged(request[r], items)
         /\ Wants(request[r], xero[request[r].doc]) /\ Stages(request[r])
              => ShowsRest(r) /\ (NotByAccount(r) \/ ShowsLines(r))
  <1>1. \A items : Recode(r, items) = Merged(request[r], items)
    BY DEF Recode, Merged
  <1>2. ASSUME Wants(request[r], xero[request[r].doc])
        PROVE  ShowsRest(r)
    BY <1>2 DEF Wants, ShowsRest, Doc
  <1>3. ASSUME Wants(request[r], xero[request[r].doc]), Stages(request[r]), ~ NotByAccount(r)
        PROVE  ShowsLines(r)
    BY <1>3 DEF Wants, Stages, NotByAccount, ShowsLines, Recoded, Doc
  <1>4. QED BY <1>1, <1>2, <1>3

\* A line has its code after a recode, and a second one changes nothing.
LEMMA WithIs ==
  ASSUME NEW line \in Line, NEW c \in Codes
  PROVE  With(line, c) \in Line /\ With(With(line, c), c) = With(line, c)
  BY DEF With, Line, Codes

LEMMA MergedIs ==
  ASSUME NEW q \in Request, q.code # None, NEW items \in ItemSets
  PROVE  /\ Merged(q, items) \in ItemSets
         /\ Merged(q, Merged(q, items)) = Merged(q, items)
         /\ q.target \subseteq Accounts => Recoded(q, Merged(q, items))
  <1>1. q.code \in Codes
    BY DEF Request
  <1>2. Merged(q, items) \in ItemSets
    BY <1>1, WithIs DEF Merged, ItemSets
  <1>3. ASSUME q.target \subseteq Accounts PROVE Recoded(q, Merged(q, items))
    <2> SUFFICES ASSUME NEW l \in Lines, Merged(q, items)[l] # None,
                        Flagged(Merged(q, items)[l], q.target)
                 PROVE  Merged(q, items)[l] = With(Merged(q, items)[l], q.code)
      BY DEF Recoded
    <2>1. Merged(q, items)[l] = IF items[l] # None /\ Reached(items[l], q.target)
                                  THEN With(items[l], q.code) ELSE items[l]
      BY DEF Merged
    <2>2. items[l] \in Line
      BY <2>1 DEF ItemSets
    <2>3. CASE Reached(items[l], q.target)
      BY <1>1, <2>1, <2>2, <2>3, WithIs, NoneAssumption
    <2>4. CASE ~ Reached(items[l], q.target)
      <3>1. items[l].tax \in q.target
        BY <2>1, <2>4 DEF Flagged
      <3>2. QED BY <1>3, <2>2, <3>1, CodeAssumption DEF Line
    <2>5. QED BY <2>3, <2>4
  <1>4. Merged(q, Merged(q, items)) = Merged(q, items)
    <2>1. \A l \in Lines : Merged(q, Merged(q, items))[l] = Merged(q, items)[l]
      BY <1>1, WithIs DEF Merged, ItemSets
    <2>2. Merged(q, Merged(q, items)) \in ItemSets
      BY <1>1, <1>2, WithIs DEF Merged, ItemSets
    <2> DEFINE once == Merged(q, items)
               twice == Merged(q, once)
    <2>3. once \in ItemSets /\ twice \in ItemSets /\ \A l \in Lines : twice[l] = once[l]
      BY <1>2, <2>1, <2>2
    <2> HIDE DEF once, twice
    <2>4. twice = once
      BY <2>3 DEF ItemSets
    <2>5. QED BY <2>4 DEF once, twice
  <1>5. QED BY <1>2, <1>3, <1>4

LEMMA Known ==
  ASSUME TypeOK, NEW r \in Requests, request[r] # None
  PROVE  /\ request[r] \in Request /\ request[r].doc \in Docs
         /\ xero[request[r].doc] \in Document
  BY DEF TypeOK, Request

LEMMA InitHolds == Init => WriteInv
  <1> SUFFICES ASSUME Init PROVE WriteInv
    OBVIOUS
  <1>1. TypeOK
    <2>1. xero \in [Docs -> Document]
      <3>1. [status : {"draft", "authorised"}, items : ItemSets, due : BOOLEAN,
             notes : {0}, file : {FALSE}] \subseteq Document
        <4> DEFINE Start == [status : {"draft", "authorised"}, items : ItemSets, due : BOOLEAN,
                             notes : {0}, file : {FALSE}]
        <4>1. ASSUME NEW x \in Start PROVE x \in Document
          <5>1. x \in [status : Statuses, items : ItemSets, due : BOOLEAN, notes : Nat, file : BOOLEAN]
            <6>1. {"draft", "authorised"} \subseteq Statuses /\ {0} \subseteq Nat /\ {FALSE} \subseteq BOOLEAN
              BY DEF Statuses
            <6> HIDE DEF Start
            <6>2. x \in [status : {"draft", "authorised"}, items : ItemSets, due : BOOLEAN,
                         notes : {0}, file : {FALSE}]
              BY DEF Start
            <6>3. QED BY <6>1, <6>2
          <5>2. QED BY <5>1 DEF Document
        <4>2. QED BY <4>1
      <3>2. QED BY <3>1 DEF Init
    <2>2. row \in [Docs -> Row \cup {None}]
      <3>1. [rule : Rules, twin : Docs, codes : SUBSET Codes, paid : BOOLEAN,
             resolved : {FALSE}] \subseteq Row
        BY DEF Row
      <3>2. QED BY <3>1 DEF Init
    <2>3. QED BY <2>1, <2>2, BoundAssumption DEF Init, TypeOK
  <1>2. \A r \in Requests : Fine(r)
    BY DEF Init, Fine
  <1>3. NotesOK
    <2>1. \A d \in Docs : xero[d].notes = 0
      BY DEF Init
    <2>2. QED BY <2>1 DEF NotesOK, Pending
  <1>4. QED BY <1>1, <1>2, <1>3 DEF WriteInv

-----------------------------------------------------------------------------
(* What a step may do to the requests that do not take it.                 *)

\* A request is as before, and its document too unless it is told so.
Spared(p) ==
  /\ request'[p] = request[p]
  /\ request[p] # None =>
       stale'[p] \/ (stale'[p] = stale[p] /\ xero'[request[p].doc] = xero[request[p].doc])

LEMMA SparedFine ==
  ASSUME WriteInv, NEW p \in Requests, Spared(p), connected' = connected
  PROVE  Fine(p)'
  <1>1. Fine(p)
    BY DEF WriteInv
  <1>2. CASE request[p] = None
    BY <1>2 DEF Spared, Fine
  <1>3. CASE request[p] # None
    <2>1. Stages(request[p]) /\ (stale[p] \/ Sound(request[p], xero[request[p].doc], connected))
      BY <1>1, <1>3 DEF Fine
    <2>2. /\ request'[p] = request[p]
          /\ stale'[p] \/ (stale'[p] = stale[p] /\ xero'[request[p].doc] = xero[request[p].doc])
      BY <1>3 DEF Spared
    <2>3. Stages(request'[p])
      BY <2>1, <2>2
    <2>4. stale'[p] \/ Sound(request'[p], xero'[request'[p].doc], connected')
      BY <2>1, <2>2
    <2>5. QED BY <2>3, <2>4 DEF Fine
  <1>4. QED BY <1>2, <1>3

\* A document that is touched is told to all who work on it.
LEMMA TouchSpares ==
  ASSUME WriteInv, NEW p \in Requests, NEW r, NEW d \in Docs, p # r, Touch(r, d),
         request'[p] = request[p],
         \A e \in Docs : e # d => xero'[e] = xero[e]
  PROVE  Spared(p)
  <1>1. stale'[p] = (stale[p] \/ (r # p /\ On(p, d)))
    BY DEF Touch
  <1>2. request[p] # None => request[p].doc \in Docs
    BY Known DEF WriteInv
  <1>3. CASE On(p, d)
    BY <1>1, <1>3 DEF Spared
  <1>4. CASE ~ On(p, d)
    <2>1. stale'[p] = stale[p]
      BY <1>1, <1>4 DEF WriteInv, TypeOK
    <2>2. request[p] # None => xero'[request[p].doc] = xero[request[p].doc]
      BY <1>2, <1>4 DEF On
    <2>3. QED BY <2>1, <2>2 DEF Spared
  <1>5. QED BY <1>3, <1>4

LEMMA TouchTypes ==
  ASSUME TypeOK, NEW r, NEW d, Touch(r, d)
  PROVE  stale' \in [Requests -> BOOLEAN] /\ (r \in Requests => stale'[r] = stale[r])
  BY DEF Touch, TypeOK

\* No document becomes pending, and no request stops crediting.
LEMMA NotesStay ==
  ASSUME WriteInv,
         \A d \in Docs : Pending(d)' => Pending(d),
         \A r \in Requests, d \in Docs :
           Pending(d)' /\ Crediting(request[r], d) => Crediting(request'[r], d)
  PROVE  NotesOK'
  <1> SUFFICES ASSUME NEW d \in Docs, Pending(d)'
               PROVE  \E r \in Requests : Crediting(request'[r], d)
    BY DEF NotesOK, Crediting
  <1>1. PICK r \in Requests : Crediting(request[r], d)
    BY DEF WriteInv, NotesOK
  <1>2. QED BY <1>1

LEMMA Step ==
  ASSUME WriteInv, TypeOK', connected' = connected, NEW r \in Requests,
         \A p \in Requests : p # r => Spared(p),
         Fine(r)', NotesOK'
  PROVE  WriteInv'
  <1>1. \A p \in Requests : Fine(p)'
    BY SparedFine
  <1>2. QED BY <1>1 DEF WriteInv

\* One request changes; the rest is told nothing.
LEMMA Replace ==
  ASSUME TypeOK, NEW r \in Requests, NEW q \in Request \cup {None}, request' = [request EXCEPT ![r] = q]
  PROVE  /\ request' \in [Requests -> Request \cup {None}]
         /\ request'[r] = q
         /\ \A p \in Requests : p # r => request'[p] = request[p]
  BY DEF TypeOK

-----------------------------------------------------------------------------
(* Requests begin.                                                         *)

LEMMA BeginKeeps ==
  ASSUME WriteInv, NEW r \in Requests, NEW d \in Docs, NEW op \in Ops, NEW step \in Steps,
         NEW s \in Statuses \cup {None}, NEW c \in Codes \cup {None},
         Begin(r, d, op, step, s, c),
         op = "update" => step \in {"fetch", "write", "commit"},
         op = "credit" => step \in {"source", "commit"} /\ ~ row[d].resolved,
         op \in {"upload", "recheck"} => step = "file",
         op # "update" => c = None,
         step = "fetch" => c # None,
         step = "write" => c = None,
         step = "commit" => ~ connected
  PROVE  WriteInv'
  <1> DEFINE q == [op |-> op, step |-> step, doc |-> d, status |-> s, code |-> c,
                   target |-> row[d].codes, items |-> None, due |-> FALSE,
                   open |-> ~ row[d].resolved, blind |-> FALSE]
  <1>1. /\ request[r] = None /\ row[d] # None /\ begun < MaxRequests
        /\ request' = [request EXCEPT ![r] = q]
        /\ stale' = [stale EXCEPT ![r] = FALSE]
        /\ begun' = begun + 1
        /\ UNCHANGED <<connected, xero, row, loose, edits>>
    BY DEF Begin
  <1>2. TypeOK
    BY DEF WriteInv
  <1>3. row[d] \in Row
    BY <1>1, <1>2 DEF TypeOK
  <1>4. q \in Request
    <2>1. row[d].codes \in SUBSET Codes /\ row[d].resolved \in BOOLEAN
      BY <1>3 DEF Row
    <2>2. QED BY <2>1 DEF Request
  <1>5. /\ q.op = op /\ q.step = step /\ q.doc = d /\ q.code = c /\ q.items = None
        /\ q.open = ~ row[d].resolved
    OBVIOUS
  <1> HIDE DEF q
  <1>6. /\ request' \in [Requests -> Request \cup {None}]
        /\ request'[r] = q
        /\ \A p \in Requests : p # r => request'[p] = request[p]
    BY <1>1, <1>2, <1>4, Replace
  <1>7. TypeOK'
    BY <1>1, <1>2, <1>6, BoundAssumption DEF TypeOK
  <1>8. \A p \in Requests : p # r => Spared(p)
    BY <1>1, <1>2, <1>6 DEF Spared, TypeOK
  <1>9. Stages(q) /\ Sound(q, xero[d], connected)
    BY <1>5 DEF Stages, Sound, Ops
  <1>10. Fine(r)'
    BY <1>1, <1>5, <1>6, <1>9 DEF Fine
  <1>11. NotesOK'
    <2>1. \A e \in Docs : Pending(e)' => Pending(e)
      BY <1>1 DEF Pending
    <2>2. \A p \in Requests, e \in Docs : Crediting(request[p], e) => Crediting(request'[p], e)
      BY <1>1, <1>6 DEF Crediting
    <2>3. QED BY <2>1, <2>2, NotesStay
  <1>12. QED BY <1>1, <1>7, <1>8, <1>10, <1>11, Step

LEMMA ResolveKeeps ==
  ASSUME WriteInv, NEW r \in Requests, NEW d \in Docs,
         NEW s \in Statuses \cup {None}, NEW c \in Codes \cup {None}, Resolve(r, d, s, c)
  PROVE  WriteInv'
  <1> DEFINE step == FirstStep(d, c)
  <1>1. Begin(r, d, "update", step, s, c)
    BY DEF Resolve
  <1>2. /\ step \in {"fetch", "write", "commit"}
        /\ step = "fetch" => c # None
        /\ step = "write" => c = None
        /\ step = "commit" => ~ connected
    BY DEF FirstStep
  <1> HIDE DEF step
  <1>3. step \in Steps /\ "update" \in Ops
    BY <1>2 DEF Steps, Ops
  <1>4. QED BY <1>1, <1>2, <1>3, BeginKeeps

LEMMA FixTypes ==
  ASSUME WriteInv, NEW d \in Docs, row[d] # None, NEW f \in Suggestions(d)
  PROVE  f.target \in Docs /\ f.status \in Statuses \cup {None} /\ f.code \in Codes \cup {None}
  <1>1. row[d].twin \in Docs
    BY DEF WriteInv, TypeOK, Row
  <1>2. CASE f \in DuplicateFix(d)
    BY <1>1, <1>2 DEF DuplicateFix, Fix, Statuses
  <1>3. CASE f \in ApproveFix(d) \cup LineFix(d) \cup ManualFix(d)
    BY <1>3 DEF ApproveFix, LineFix, ManualFix, Fix, Statuses
  <1>4. CASE f \in LlmFix(d)
    BY <1>4 DEF LlmFix, Fix
  <1>5. QED BY <1>2, <1>3, <1>4 DEF Suggestions

LEMMA AskKeeps ==
  ASSUME WriteInv, NEW r \in Requests, NEW d \in Docs, Ask(r, d)
  PROVE  WriteInv'
  <1>1. CASE \E s \in Statuses \cup {None}, c \in Codes \cup {None} : Resolve(r, d, s, c)
    BY <1>1, ResolveKeeps
  <1>2. CASE Void(r, d)
    BY <1>2, ResolveKeeps DEF Void, Statuses
  <1>3. CASE CreditNote(r, d)
    <2> DEFINE step == IF connected THEN "source" ELSE "commit"
    <2>1. Begin(r, d, "credit", step, None, None) /\ ~ row[d].resolved
      BY <1>3 DEF CreditNote, Begin
    <2>2. step \in {"source", "commit"} /\ (step = "commit" => ~ connected)
      OBVIOUS
    <2> HIDE DEF step
    <2>3. QED BY <2>1, <2>2, BeginKeeps DEF Ops, Steps
  <1>4. CASE \E op \in {"upload", "recheck"} : Attachment(r, d, op)
    BY <1>4, BeginKeeps DEF Attachment, Ops, Steps
  <1>5. CASE ApplyFix(r, d)
    BY <1>5, FixTypes, ResolveKeeps DEF ApplyFix
  <1>6. QED BY <1>1, <1>2, <1>3, <1>4, <1>5 DEF Ask

-----------------------------------------------------------------------------
(* A request is served.                                                    *)

\* What most steps leave alone.
Quiet == UNCHANGED <<connected, row, begun, edits>>

\* The request is abandoned; it may have written its document before.
LEMMA AbandonKeeps ==
  ASSUME WriteInv, NEW r \in Requests, request[r] # None, Abandon(r), Quiet,
         xero' \in [Docs -> Document],
         stale' \in [Requests -> BOOLEAN],
         \A e \in Docs : e # Doc(r) => xero'[e] = xero[e],
         \A p \in Requests : p # r => Spared(p)
  PROVE  WriteInv'
  <1>1. TypeOK /\ Doc(r) \in Docs
    BY Known DEF WriteInv, Doc
  <1>2. /\ request' = [request EXCEPT ![r] = None]
        /\ loose' = [loose EXCEPT ![Doc(r)] = TRUE]
    BY DEF Abandon
  <1>3. /\ request' \in [Requests -> Request \cup {None}] /\ request'[r] = None
        /\ \A p \in Requests : p # r => request'[p] = request[p]
    BY <1>1, <1>2, Replace
  <1>4. TypeOK'
    BY <1>1, <1>2, <1>3 DEF TypeOK, Quiet
  <1>5. Fine(r)'
    BY <1>3 DEF Fine
  <1>6. /\ loose'[Doc(r)]
        /\ \A e \in Docs : e # Doc(r) => loose'[e] = loose[e]
    BY <1>1, <1>2 DEF TypeOK
  <1>7. \A e \in Docs : Pending(e)' => Pending(e) /\ e # Doc(r)
    BY <1>6 DEF Pending, Quiet
  <1>8. NotesOK'
    BY <1>3, <1>7, NotesStay DEF Crediting, Doc
  <1>9. QED BY <1>3, <1>4, <1>5, <1>8, Step DEF Quiet

\* The request goes on to its next step as q, and may write its document, but
\* makes no note on it.
LEMMA GoOnKeeps ==
  ASSUME WriteInv, NEW r \in Requests, request[r] # None, NEW q \in Request,
         request' = [request EXCEPT ![r] = q], q.doc = Doc(r), q.op = request[r].op,
         Crediting(request[r], Doc(r)) => q.step = "commit",
         Quiet, loose' = loose,
         xero' \in [Docs -> Document],
         stale' \in [Requests -> BOOLEAN],
         \A e \in Docs : xero'[e].notes = xero[e].notes,
         \A p \in Requests : p # r => Spared(p),
         Stages(q),
         stale'[r] \/ Sound(q, xero'[Doc(r)], connected)
  PROVE  WriteInv'
  <1>1. TypeOK /\ Doc(r) \in Docs
    BY Known DEF WriteInv, Doc
  <1>2. /\ request' \in [Requests -> Request \cup {None}] /\ request'[r] = q
        /\ \A p \in Requests : p # r => request'[p] = request[p]
    BY <1>1, Replace
  <1>3. TypeOK'
    BY <1>1, <1>2 DEF TypeOK, Quiet
  <1>4. Fine(r)'
    BY <1>2 DEF Fine, Quiet
  <1>5. \A e \in Docs : Pending(e)' => Pending(e)
    BY DEF Pending, Quiet
  <1>6. q # None
    BY RequestAssumption
  <1>7. \A p \in Requests, e \in Docs : Crediting(request[p], e) => Crediting(request'[p], e)
    BY <1>2, <1>6 DEF Crediting, Doc
  <1>8. NotesOK'
    BY <1>5, <1>7, NotesStay
  <1>9. QED BY <1>2, <1>3, <1>4, <1>8, Step DEF Quiet

\* Nothing at Xero is changed.
LEMMA UnwrittenSpares ==
  ASSUME WriteInv, NEW r \in Requests,
         \A p \in Requests : p # r => request'[p] = request[p],
         xero' = xero,
         \A p \in Requests : p # r => stale'[p] = stale[p]
  PROVE  \A p \in Requests : p # r => Spared(p)
  BY DEF Spared

LEMMA ReadingIs ==
  ASSUME WriteInv, NEW r \in Requests, stale' = [stale EXCEPT ![r] = FALSE]
  PROVE  /\ stale' \in [Requests -> BOOLEAN] /\ ~ stale'[r]
         /\ \A p \in Requests : p # r => stale'[p] = stale[p]
  BY DEF WriteInv, TypeOK

LEMMA FetchKeeps ==
  ASSUME WriteInv, NEW r \in Requests, Fetch(r)
  PROVE  WriteInv'
  <1> DEFINE q == request[r]
             x == xero[Doc(r)]
  <1>1. request[r] # None /\ q.step = "fetch" /\ xero' = xero /\ Quiet
    BY DEF Fetch, At, Quiet
  <1>2. TypeOK /\ q \in Request /\ q.doc \in Docs /\ x \in Document
    BY <1>1, Known DEF WriteInv, Doc
  <1>3. Stages(q)
    BY <1>1 DEF WriteInv, Fine
  <1>4. /\ stale' \in [Requests -> BOOLEAN] /\ ~ stale'[r]
        /\ \A p \in Requests : p # r => stale'[p] = stale[p]
    BY ReadingIs DEF Fetch
  <1>5. xero' \in [Docs -> Document] /\ \A e \in Docs : xero'[e] = xero[e]
    BY <1>1, <1>2 DEF TypeOK
  <1>6. q.op = "update"
    BY <1>1, <1>2, <1>3 DEF Stages, Request, Ops
  <1>7. CASE Abandon(r)
    <2>1. \A p \in Requests : p # r => request'[p] = request[p]
      BY <1>2, <1>7 DEF Abandon, TypeOK
    <2>2. QED BY <1>1, <1>4, <1>5, <1>7, <2>1, UnwrittenSpares, AbandonKeeps
  <1>8. ASSUME NEW p \in Request, request' = [request EXCEPT ![r] = p], loose' = loose,
               p.doc = q.doc, p.op = q.op, Stages(p), Sound(p, x, connected)
        PROVE  WriteInv'
    <2>1. \A w \in Requests : w # r => request'[w] = request[w]
      BY <1>2, <1>8, Replace
    <2>2. ~ Crediting(request[r], Doc(r))
      BY <1>6 DEF Crediting
    <2>3. QED BY <1>1, <1>4, <1>5, <1>8, <2>1, <2>2, UnwrittenSpares, GoOnKeeps DEF Doc
  <1>9. CASE /\ x.items # NoItems
             /\ request' = [request EXCEPT ![r] =
                  [@ EXCEPT !.step = "write", !.items = Recode(r, x.items)]]
             /\ UNCHANGED loose
    <2> DEFINE lines == Merged(q, x.items)
               p == [q EXCEPT !.step = "write", !.items = lines]
    <2>1. request' = [request EXCEPT ![r] = p]
      BY <1>9, Same
    <2>2. q.code # None
      BY <1>1, <1>3 DEF Stages
    <2>3. lines \in ItemSets
      BY <1>2, <2>2, MergedIs DEF Document
    <2> HIDE DEF lines
    <2>4. /\ p \in Request /\ p.step = "write" /\ p.items = lines /\ p.doc = q.doc /\ p.op = q.op
          /\ p.code = q.code /\ p.target = q.target
      BY <1>2, <2>3 DEF Request, Steps
    <2> HIDE DEF p
    <2>5. Merged(p, x.items) = lines
      BY <2>4 DEF Merged, lines
    <2>6. Stages(p) /\ Sound(p, x, connected)
      BY <1>6, <2>2, <2>3, <2>4, <2>5, NoneAssumption DEF Stages, Sound
    <2>7. QED BY <1>8, <1>9, <2>1, <2>4, <2>6
  <1>10. CASE /\ request' = [request EXCEPT ![r] = [@ EXCEPT !.blind = TRUE,
                   !.step = IF request[r].status = None THEN "proxy" ELSE "write"]]
              /\ UNCHANGED loose
    <2> DEFINE step == IF q.status = None THEN "proxy" ELSE "write"
               p == [q EXCEPT !.blind = TRUE, !.step = step]
    <2>1. request' = [request EXCEPT ![r] = p] /\ step \in {"proxy", "write"}
      BY <1>10
    <2> HIDE DEF step
    <2>2. /\ p \in Request /\ p.step = step /\ p.items = q.items /\ p.doc = q.doc /\ p.op = q.op
          /\ p.code = q.code /\ p.target = q.target /\ p.blind
      BY <1>2, <2>1 DEF Request, Steps
    <2> HIDE DEF p
    <2>3. Stages(p) /\ Sound(p, x, connected)
      BY <1>1, <1>3, <1>6, <2>1, <2>2 DEF Stages, Sound
    <2>4. QED BY <1>8, <1>10, <2>1, <2>2, <2>3
  <1>11. QED BY <1>7, <1>9, <1>10 DEF Fetch

\* The request goes to its proxy or to its commit.
LEMMA GotoKeeps ==
  ASSUME WriteInv, NEW r \in Requests, request[r] # None, NEW step \in {"proxy", "commit"},
         Goto(r, step), Quiet, loose' = loose,
         xero' \in [Docs -> Document],
         stale' \in [Requests -> BOOLEAN],
         \A e \in Docs : xero'[e].notes = xero[e].notes,
         \A p \in Requests : p # r => Spared(p),
         step = "proxy" => request[r].op = "update" /\ request[r].step = "write",
         \/ stale'[r]
         \/ /\ step = "proxy" /\ request[r].items # None =>
                 request[r].items = Merged(request[r], xero'[Doc(r)].items)
            /\ step = "commit" => request[r].blind \/ Wants(request[r], xero'[Doc(r)])
  PROVE  WriteInv'
  <1> DEFINE q == request[r]
             p == [q EXCEPT !.step = step]
  <1>1. TypeOK /\ q \in Request /\ Stages(q)
    BY Known DEF WriteInv, Fine
  <1>2. request' = [request EXCEPT ![r] = p]
    BY DEF Goto
  <1>3. /\ p \in Request /\ p.step = step /\ p.op = q.op /\ p.doc = q.doc /\ p.items = q.items
        /\ p.code = q.code /\ p.target = q.target /\ p.blind = q.blind /\ p.open = q.open
        /\ p.status = q.status
    BY <1>1 DEF Request, Steps
  <1> HIDE DEF p
  <1>4. Stages(p)
    BY <1>1, <1>3 DEF Stages
  <1>5. /\ \A items : Merged(p, items) = Merged(q, items)
        /\ Wants(p, xero'[Doc(r)]) <=> Wants(q, xero'[Doc(r)])
    <2>1. \A items : Merged(p, items) = Merged(q, items)
      BY <1>3 DEF Merged
    <2>2. Recoded(p, xero'[Doc(r)].items) <=> Recoded(q, xero'[Doc(r)].items)
      BY <1>3 DEF Recoded
    <2>3. Wants(p, xero'[Doc(r)]) <=> Wants(q, xero'[Doc(r)])
      BY <1>3, <2>2 DEF Wants
    <2>4. QED BY <2>1, <2>3
  <1>6. stale'[r] \/ Sound(p, xero'[Doc(r)], connected)
    BY <1>3, <1>5 DEF Sound
  <1>7. Crediting(q, Doc(r)) => step = "commit"
    BY DEF Crediting
  <1>8. QED BY <1>2, <1>3, <1>4, <1>6, <1>7, GoOnKeeps DEF Doc

\* One document is written by a request, and the others are told.
LEMMA WrittenIs ==
  ASSUME WriteInv, NEW r \in Requests, request[r] # None, NEW x \in Document,
         xero' = [xero EXCEPT ![Doc(r)] = x], Touch(r, Doc(r))
  PROVE  /\ xero' \in [Docs -> Document] /\ xero'[Doc(r)] = x
         /\ \A e \in Docs : e # Doc(r) => xero'[e] = xero[e]
         /\ stale' \in [Requests -> BOOLEAN] /\ stale'[r] = stale[r]
         /\ (\A p \in Requests : p # r => request'[p] = request[p]) =>
              \A p \in Requests : p # r => Spared(p)
  <1>1. TypeOK /\ Doc(r) \in Docs
    BY Known DEF WriteInv, Doc
  <1>2. /\ xero' \in [Docs -> Document] /\ xero'[Doc(r)] = x
        /\ \A e \in Docs : e # Doc(r) => xero'[e] = xero[e]
    BY <1>1 DEF TypeOK
  <1>3. QED BY <1>1, <1>2, TouchTypes, TouchSpares

\* Nobody's document is written.
LEMMA NotAppliedIs ==
  ASSUME WriteInv, NEW r \in Requests, NotApplied
  PROVE  /\ xero' \in [Docs -> Document] /\ stale' \in [Requests -> BOOLEAN]
         /\ xero' = xero /\ stale'[r] = stale[r]
         /\ (\A p \in Requests : p # r => request'[p] = request[p]) =>
              \A p \in Requests : p # r => Spared(p)
  BY DEF NotApplied, WriteInv, TypeOK, Spared

LEMMA MovesOne ==
  ASSUME WriteInv, NEW r \in Requests,
         \/ Abandon(r) \/ Stub(r) \/ \E step : Goto(r, step)
  PROVE  \A p \in Requests : p # r => request'[p] = request[p]
  BY DEF WriteInv, TypeOK, Abandon, Stub, Goto

\* An update that reaches Xero: the document has what was asked for, and the
\* same lines would be sent again.
LEMMA AppliedIs ==
  ASSUME WriteInv, NEW r \in Requests, request[r] # None, request[r].op = "update",
         request[r].step \in {"write", "proxy"}, Applied(r)
  PROVE  /\ xero' \in [Docs -> Document] /\ stale' \in [Requests -> BOOLEAN]
         /\ \A e \in Docs : e # Doc(r) => xero'[e] = xero[e]
         /\ \A e \in Docs : xero'[e].notes = xero[e].notes
         /\ (\A p \in Requests : p # r => request'[p] = request[p]) =>
              \A p \in Requests : p # r => Spared(p)
         /\ stale'[r] \/ (request[r].items # None =>
                            request[r].items = Merged(request[r], xero'[Doc(r)].items))
         /\ stale'[r] \/ request[r].blind \/ Wants(request[r], xero'[Doc(r)])
  <1> DEFINE q == request[r]
             x == xero[Doc(r)]
             y == [x EXCEPT !.status = IF q.status = None THEN x.status ELSE q.status,
                            !.items = IF q.items = None THEN x.items ELSE q.items]
  <1>1. TypeOK /\ q \in Request /\ Doc(r) \in Docs /\ x \in Document
    BY Known DEF WriteInv, Doc
  <1>2. Stages(q) /\ (stale[r] \/ Sound(q, x, connected))
    BY DEF WriteInv, Fine, Doc
  <1>3. xero' = [xero EXCEPT ![Doc(r)] = y] /\ Touch(r, Doc(r))
    BY DEF Applied, Posted
  <1>4. q.status \in Statuses \cup {None} /\ q.items \in ItemSets \cup {None}
    BY <1>1 DEF Request
  <1>5. /\ y \in Document /\ y.notes = x.notes
        /\ y.status = IF q.status = None THEN x.status ELSE q.status
        /\ y.items = IF q.items = None THEN x.items ELSE q.items
    BY <1>1, <1>4 DEF Document
  <1> HIDE DEF y
  <1>6. /\ xero' \in [Docs -> Document] /\ xero'[Doc(r)] = y
        /\ \A e \in Docs : e # Doc(r) => xero'[e] = xero[e]
        /\ stale' \in [Requests -> BOOLEAN] /\ stale'[r] = stale[r]
        /\ (\A p \in Requests : p # r => request'[p] = request[p]) =>
             \A p \in Requests : p # r => Spared(p)
    BY <1>3, <1>5, WrittenIs
  <1>7. \A e \in Docs : xero'[e].notes = xero[e].notes
    BY <1>5, <1>6
  <1>8. ASSUME ~ stale[r], q.items # None PROVE q.items = Merged(q, y.items)
    <2>1. q.items = Merged(q, x.items) /\ q.code # None /\ y.items = q.items
      BY <1>2, <1>5, <1>8 DEF Sound, Stages
    <2>2. x.items \in ItemSets
      BY <1>1 DEF Document
    <2>3. Merged(q, Merged(q, x.items)) = Merged(q, x.items)
      BY <1>1, <2>1, <2>2, MergedIs
    <2>4. QED BY <2>1, <2>3
  <1>9. ASSUME ~ stale[r], ~ q.blind PROVE Wants(q, y)
    <2>1. q.status \in {None, y.status}
      BY <1>5
    <2>2. ASSUME q.code # None, q.target \subseteq Accounts PROVE Recoded(q, y.items)
      <3>1. q.items # None
        BY <1>2, <1>9, <2>2 DEF Stages
      <3>2. y.items = Merged(q, x.items)
        BY <1>2, <1>5, <1>9, <3>1 DEF Sound
      <3>3. x.items \in ItemSets
        BY <1>1 DEF Document
      <3>4. QED BY <1>1, <2>2, <3>2, <3>3, MergedIs
    <2>3. QED BY <2>1, <2>2 DEF Wants
  <1>10. QED BY <1>6, <1>7, <1>8, <1>9

\* A write, or one through the proxy.
LEMMA UpdateKeeps ==
  ASSUME WriteInv, NEW r \in Requests, Write(r) \/ Proxy(r)
  PROVE  WriteInv'
  <1>1. request[r] # None /\ request[r].step \in {"write", "proxy"} /\ Quiet
    BY DEF Write, Proxy, At, Quiet
  <1>2. TypeOK /\ request[r] \in Request /\ Stages(request[r])
        /\ (stale[r] \/ Sound(request[r], xero[Doc(r)], connected))
    BY <1>1, Known DEF WriteInv, Fine, Doc
  <1>3. request[r].op = "update"
    BY <1>1, <1>2 DEF Stages, Request, Ops
  <1>4. CASE Applied(r) /\ Abandon(r)
    BY <1>1, <1>3, <1>4, AppliedIs, MovesOne, AbandonKeeps
  <1>5. CASE NotApplied /\ Abandon(r)
    BY <1>1, <1>5, NotAppliedIs, MovesOne, AbandonKeeps
  <1>6. CASE Applied(r) /\ Goto(r, "commit") /\ loose' = loose
    BY <1>1, <1>3, <1>6, AppliedIs, MovesOne, GotoKeeps
  <1>7. CASE Applied(r) /\ Goto(r, "proxy") /\ loose' = loose /\ Write(r)
    <2>1. request[r].step = "write"
      BY <1>7 DEF Write, At
    <2>2. QED BY <1>1, <1>3, <1>7, <2>1, AppliedIs, MovesOne, GotoKeeps
  <1>8. CASE NotApplied /\ Goto(r, "proxy") /\ loose' = loose /\ Write(r)
    <2>1. request[r].step = "write"
      BY <1>8 DEF Write, At
    <2>2. stale[r] \/ (request[r].items # None => request[r].items = Merged(request[r], xero[Doc(r)].items))
      BY <1>2, <2>1 DEF Sound
    <2>3. QED BY <1>1, <1>3, <1>8, <2>1, <2>2, NotAppliedIs, MovesOne, GotoKeeps
  <1>9. QED BY <1>4, <1>5, <1>6, <1>7, <1>8 DEF Write, Proxy

-----------------------------------------------------------------------------
(* Credit notes and files.                                                 *)

\* A stub stands for the answer: the request goes to its commit, blind.
LEMMA StubIs ==
  ASSUME WriteInv, NEW r \in Requests, request[r] # None, request[r].op = "credit", Stub(r)
  PROVE  \E q \in Request :
           /\ request' = [request EXCEPT ![r] = q]
           /\ q.doc = Doc(r) /\ q.op = "credit" /\ q.step = "commit" /\ q.blind
           /\ Stages(q)
           /\ \A doc : Sound(q, doc, connected)
  <1> DEFINE q == request[r]
             p == [q EXCEPT !.step = "commit", !.blind = TRUE]
  <1>1. q \in Request /\ Stages(q)
    BY Known DEF WriteInv, Fine
  <1>2. request' = [request EXCEPT ![r] = p]
    BY DEF Stub
  <1>3. /\ p \in Request /\ p.step = "commit" /\ p.op = q.op /\ p.doc = q.doc /\ p.items = q.items
        /\ p.code = q.code /\ p.open = q.open /\ p.blind
    BY <1>1 DEF Request, Steps
  <1> HIDE DEF p
  <1>4. Stages(p) /\ \A doc : Sound(p, doc, connected)
    BY <1>1, <1>3 DEF Stages, Sound
  <1>5. QED BY <1>2, <1>3, <1>4 DEF Doc

LEMMA CreditIs ==
  ASSUME WriteInv, NEW r \in Requests, request[r] # None,
         request[r].step \in {"source", "create", "allocate"}
  PROVE  request[r].op = "credit"
  BY Known DEF WriteInv, Fine, Stages, Request, Ops

LEMMA SourceKeeps ==
  ASSUME WriteInv, NEW r \in Requests, Source(r)
  PROVE  WriteInv'
  <1> DEFINE q == request[r]
  <1>1. q # None /\ q.step = "source" /\ xero' = xero /\ Quiet
    BY DEF Source, At, Quiet
  <1>2. TypeOK /\ q \in Request /\ q.doc \in Docs /\ xero[Doc(r)] \in Document /\ Stages(q)
    BY <1>1, Known DEF WriteInv, Doc, Fine
  <1>3. q.op = "credit"
    BY <1>1, CreditIs
  <1>4. /\ stale' \in [Requests -> BOOLEAN]
        /\ \A p \in Requests : p # r => stale'[p] = stale[p]
    BY ReadingIs DEF Source
  <1>5. xero' \in [Docs -> Document] /\ \A e \in Docs : xero'[e] = xero[e]
    BY <1>1, <1>2 DEF TypeOK
  <1>6. CASE Abandon(r)
    BY <1>1, <1>4, <1>5, <1>6, MovesOne, UnwrittenSpares, AbandonKeeps
  <1>7. ~ Crediting(q, Doc(r))
    BY <1>1 DEF Crediting
  <1>8. CASE Stub(r) /\ UNCHANGED loose
    BY <1>1, <1>3, <1>4, <1>5, <1>7, <1>8, StubIs, MovesOne, UnwrittenSpares, GoOnKeeps
  <1>9. CASE /\ request' = [request EXCEPT ![r] = [@ EXCEPT !.step = "create", !.due = xero[Doc(r)].due]]
             /\ UNCHANGED loose
    <2> DEFINE p == [q EXCEPT !.step = "create", !.due = xero[Doc(r)].due]
    <2>1. request' = [request EXCEPT ![r] = p]
      BY <1>9
    <2>2. /\ p \in Request /\ p.step = "create" /\ p.op = q.op /\ p.doc = q.doc /\ p.items = q.items
          /\ p.code = q.code /\ p.open = q.open
      BY <1>2 DEF Request, Steps, Document
    <2> HIDE DEF p
    <2>3. Stages(p) /\ Sound(p, xero[Doc(r)], connected)
      BY <1>2, <1>3, <2>2 DEF Stages, Sound
    <2>4. \A w \in Requests : w # r => request'[w] = request[w]
      BY <1>2, <2>1, <2>2, Replace
    <2>5. QED BY <1>1, <1>4, <1>5, <1>7, <1>9, <2>1, <2>2, <2>3, <2>4, UnwrittenSpares, GoOnKeeps DEF Doc
  <1>10. QED BY <1>6, <1>8, <1>9 DEF Source

LEMMA CreateKeeps ==
  ASSUME WriteInv, NEW r \in Requests, Create(r)
  PROVE  WriteInv'
  <1> DEFINE q == request[r]
             x == [xero[Doc(r)] EXCEPT !.notes = @ + 1]
  <1>1. q # None /\ q.step = "create" /\ Quiet /\ loose' = loose
    BY DEF Create, At, Quiet
  <1>2. TypeOK /\ q \in Request /\ Doc(r) \in Docs /\ xero[Doc(r)] \in Document /\ Stages(q)
    BY <1>1, Known DEF WriteInv, Doc, Fine
  <1>3. q.op = "credit"
    BY <1>1, CreditIs
  <1>4. CASE NotApplied /\ Stub(r)
    <2>1. ~ Crediting(q, Doc(r))
      BY <1>1 DEF Crediting
    <2>2. QED BY <1>1, <1>3, <1>4, <2>1, StubIs, MovesOne, NotAppliedIs, GoOnKeeps
  <1>5. CASE Created(r) /\ (Goto(r, "allocate") \/ Stub(r))
    <2>1. x \in Document
      BY <1>2 DEF Document
    <2>2. xero' = [xero EXCEPT ![Doc(r)] = x] /\ Touch(r, Doc(r))
      BY <1>5 DEF Created
    <2> HIDE DEF x
    <2>3. PICK p \in Request :
            /\ request' = [request EXCEPT ![r] = p]
            /\ p.doc = Doc(r) /\ p.op = "credit" /\ p.step \in {"allocate", "commit"}
            /\ Stages(p)
            /\ \A doc : Sound(p, doc, connected)
      <3>1. CASE Stub(r)
        BY <1>1, <1>3, <3>1, StubIs
      <3>2. CASE Goto(r, "allocate")
        <4> DEFINE p == [q EXCEPT !.step = "allocate"]
        <4>1. request' = [request EXCEPT ![r] = p]
          BY <3>2 DEF Goto
        <4>2. /\ p \in Request /\ p.step = "allocate" /\ p.op = q.op /\ p.doc = q.doc
              /\ p.items = q.items /\ p.code = q.code /\ p.open = q.open
          BY <1>2 DEF Request, Steps
        <4> HIDE DEF p
        <4>3. Stages(p) /\ \A doc : Sound(p, doc, connected)
          BY <1>2, <1>3, <4>2 DEF Stages, Sound
        <4>4. QED BY <1>3, <4>1, <4>2, <4>3 DEF Doc
      <3>3. QED BY <1>5, <3>1, <3>2
    <2>4. /\ request' \in [Requests -> Request \cup {None}] /\ request'[r] = p
          /\ \A w \in Requests : w # r => request'[w] = request[w]
      BY <1>2, <2>3, Replace
    <2>5. /\ xero' \in [Docs -> Document]
          /\ \A e \in Docs : e # Doc(r) => xero'[e] = xero[e]
          /\ stale' \in [Requests -> BOOLEAN]
          /\ \A w \in Requests : w # r => Spared(w)
      BY <1>1, <2>1, <2>2, <2>4, WrittenIs
    <2>6. TypeOK'
      BY <1>1, <1>2, <2>4, <2>5 DEF TypeOK, Quiet
    <2>7. Fine(r)'
      BY <1>1, <2>3, <2>4 DEF Fine, Quiet
    <2>8. p # None
      BY RequestAssumption
    <2>9. NotesOK'
      <3> SUFFICES ASSUME NEW d \in Docs, Pending(d)'
                   PROVE  \E w \in Requests : Crediting(request'[w], d)
        BY DEF NotesOK, Crediting
      <3>1. CASE d = Doc(r)
        BY <2>3, <2>4, <2>8, <3>1 DEF Crediting
      <3>2. CASE d # Doc(r)
        <4>1. Pending(d)
          BY <1>1, <2>5, <3>2 DEF Pending, Quiet
        <4>2. PICK w \in Requests : Crediting(request[w], d)
          BY <4>1 DEF WriteInv, NotesOK
        <4>3. w # r
          BY <3>2, <4>2 DEF Crediting, Doc
        <4>4. QED BY <2>4, <4>2, <4>3
      <3>3. QED BY <3>1, <3>2
    <2>10. QED BY <1>1, <2>5, <2>6, <2>7, <2>9, Step DEF Quiet
  <1>6. QED BY <1>4, <1>5 DEF Create

\* A request writes one field of its document, and ends or goes to its commit.
LEMMA MarkKeeps ==
  ASSUME WriteInv, NEW r \in Requests, request[r] # None, Quiet, NEW x \in Document,
         xero' = [xero EXCEPT ![Doc(r)] = x], Touch(r, Doc(r)),
         x.notes = xero[Doc(r)].notes, Wants(request[r], x),
         \/ Goto(r, "commit") /\ loose' = loose
         \/ Abandon(r)
  PROVE  WriteInv'
  <1>1. TypeOK /\ Doc(r) \in Docs
    BY Known DEF WriteInv, Doc
  <1>2. \A p \in Requests : p # r => request'[p] = request[p]
    BY MovesOne
  <1>3. /\ xero' \in [Docs -> Document] /\ xero'[Doc(r)] = x
        /\ \A e \in Docs : e # Doc(r) => xero'[e] = xero[e]
        /\ stale' \in [Requests -> BOOLEAN]
        /\ \A p \in Requests : p # r => Spared(p)
    BY <1>2, WrittenIs
  <1>4. \A e \in Docs : xero'[e].notes = xero[e].notes
    BY <1>3
  <1>5. QED BY <1>3, <1>4, AbandonKeeps, GotoKeeps

LEMMA AllocateKeeps ==
  ASSUME WriteInv, NEW r \in Requests, Allocate(r)
  PROVE  WriteInv'
  <1>1. request[r] # None /\ request[r].step = "allocate" /\ Quiet
    BY DEF Allocate, At, Quiet
  <1>2. xero[Doc(r)] \in Document /\ request[r].op = "credit"
    BY <1>1, Known, CreditIs DEF WriteInv, Doc
  <1>3. CASE NotApplied /\ Abandon(r)
    BY <1>1, <1>3, MovesOne, NotAppliedIs, AbandonKeeps
  <1>4. CASE ~ (NotApplied /\ Abandon(r))
    <2> DEFINE x == [xero[Doc(r)] EXCEPT !.due = FALSE]
    <2>1. /\ xero' = [xero EXCEPT ![Doc(r)] = x] /\ Touch(r, Doc(r))
          /\ (Goto(r, "commit") /\ loose' = loose) \/ Abandon(r)
      BY <1>4 DEF Allocate
    <2>2. x \in Document /\ x.notes = xero[Doc(r)].notes /\ ~ x.due
      BY <1>2 DEF Document
    <2> HIDE DEF x
    <2>3. Wants(request[r], x)
      BY <1>2, <2>2 DEF Wants
    <2>4. QED BY <1>1, <2>1, <2>2, <2>3, MarkKeeps
  <1>5. QED BY <1>3, <1>4

LEMMA FileKeeps ==
  ASSUME WriteInv, NEW r \in Requests, File(r)
  PROVE  WriteInv'
  <1>1. request[r] # None /\ request[r].step = "file" /\ Quiet
    BY DEF File, At, Quiet
  <1>2. xero[Doc(r)] \in Document /\ request[r].op \in {"upload", "recheck"}
    BY <1>1, Known DEF WriteInv, Doc, Fine, Stages, Request, Ops
  <1>3. CASE NotApplied /\ Abandon(r)
    BY <1>1, <1>3, MovesOne, NotAppliedIs, AbandonKeeps
  <1>4. CASE xero[Doc(r)].file /\ NotApplied /\ Goto(r, "commit") /\ UNCHANGED loose
    <2>1. Wants(request[r], xero[Doc(r)])
      BY <1>2, <1>4 DEF Wants
    <2>2. QED BY <1>1, <1>4, <2>1, MovesOne, NotAppliedIs, GotoKeeps
  <1>5. CASE /\ xero' = [xero EXCEPT ![Doc(r)].file = TRUE] /\ Touch(r, Doc(r))
             /\ (Goto(r, "commit") /\ loose' = loose) \/ Abandon(r)
    <2> DEFINE x == [xero[Doc(r)] EXCEPT !.file = TRUE]
    <2>1. xero' = [xero EXCEPT ![Doc(r)] = x]
      BY <1>5
    <2>2. x \in Document /\ x.notes = xero[Doc(r)].notes /\ x.file
      BY <1>2 DEF Document
    <2> HIDE DEF x
    <2>3. Wants(request[r], x)
      BY <1>2, <2>2 DEF Wants
    <2>4. QED BY <1>1, <1>5, <2>1, <2>2, <2>3, MarkKeeps
  <1>6. QED BY <1>3, <1>4, <1>5 DEF File

-----------------------------------------------------------------------------
(* The end of a request, and the world outside.                            *)

LEMMA CommitKeeps ==
  ASSUME WriteInv, NEW r \in Requests, Commit(r)
  PROVE  WriteInv'
  <1>1. /\ request[r] # None /\ row[Doc(r)] # None
        /\ row' = [row EXCEPT ![Doc(r)].resolved = TRUE]
        /\ request' = [request EXCEPT ![r] = None]
        /\ UNCHANGED <<connected, xero, stale, loose, begun, edits>>
    BY DEF Commit, At
  <1>2. TypeOK /\ Doc(r) \in Docs
    BY <1>1, Known DEF WriteInv, Doc
  <1>3. /\ request' \in [Requests -> Request \cup {None}] /\ request'[r] = None
        /\ \A p \in Requests : p # r => request'[p] = request[p]
    BY <1>1, <1>2, Replace
  <1> DEFINE new == [row[Doc(r)] EXCEPT !.resolved = TRUE]
  <1>4. new \in Row /\ new.resolved
    BY <1>1, <1>2 DEF TypeOK, Row
  <1>5. row' = [row EXCEPT ![Doc(r)] = new]
    BY <1>1
  <1> HIDE DEF new
  <1>6. /\ row' \in [Docs -> Row \cup {None}] /\ row'[Doc(r)].resolved
        /\ \A e \in Docs : e # Doc(r) => row'[e] = row[e]
    BY <1>2, <1>4, <1>5 DEF TypeOK
  <1>7. TypeOK'
    BY <1>1, <1>2, <1>3, <1>6 DEF TypeOK
  <1>8. \A p \in Requests : p # r => Spared(p)
    BY <1>1, <1>3 DEF Spared
  <1>9. Fine(r)'
    BY <1>3 DEF Fine
  <1>10. \A e \in Docs : Pending(e)' => Pending(e) /\ e # Doc(r)
    BY <1>1, <1>6 DEF Pending
  <1>11. NotesOK'
    BY <1>3, <1>10, NotesStay DEF Crediting, Doc
  <1>12. QED BY <1>1, <1>7, <1>8, <1>9, <1>11, Step

LEMMA ServeKeeps ==
  ASSUME WriteInv, NEW r \in Requests, Serve(r)
  PROVE  WriteInv'
  <1>1. CASE CommitFails(r)
    <2>1. request[r] # None /\ Abandon(r) /\ Quiet /\ NotApplied
      BY <1>1 DEF CommitFails, At, Quiet, NotApplied
    <2>2. QED BY <2>1, MovesOne, NotAppliedIs, AbandonKeeps
  <1>2. QED BY <1>1, FetchKeeps, UpdateKeeps, SourceKeeps, CreateKeeps, AllocateKeeps, FileKeeps,
               CommitKeeps DEF Serve

\* Nobody's request moves.
LEMMA OutsideStep ==
  ASSUME WriteInv, TypeOK', connected' = connected, \A p \in Requests : Spared(p),
         \A d \in Docs : Pending(d)' => Pending(d)
  PROVE  WriteInv'
  <1>1. \A p \in Requests : Fine(p)'
    BY SparedFine
  <1>2. NotesOK'
    BY NotesStay DEF Spared
  <1>3. QED BY <1>1, <1>2 DEF WriteInv

LEMMA EditedKeeps ==
  ASSUME WriteInv, NEW d \in Docs, NEW doc \in Document, doc.notes = xero[d].notes, Edited(d, doc)
  PROVE  WriteInv'
  <1>1. TypeOK
    BY DEF WriteInv
  <1>2. /\ edits < MaxEdits /\ edits' = edits + 1
        /\ xero' = [xero EXCEPT ![d] = doc] /\ Touch(None, d)
        /\ UNCHANGED <<connected, row, request, loose, begun>>
    BY DEF Edited
  <1>3. /\ xero' \in [Docs -> Document] /\ xero'[d] = doc
        /\ \A e \in Docs : e # d => xero'[e] = xero[e]
    BY <1>1, <1>2 DEF TypeOK
  <1>4. stale' \in [Requests -> BOOLEAN]
    BY <1>1, <1>2, TouchTypes
  <1>5. TypeOK'
    BY <1>1, <1>2, <1>3, <1>4, BoundAssumption DEF TypeOK
  <1>6. \A p \in Requests : Spared(p)
    BY <1>2, <1>3, NoneAssumption, TouchSpares
  <1>7. \A e \in Docs : Pending(e)' => Pending(e)
    BY <1>2, <1>3 DEF Pending
  <1>8. QED BY <1>2, <1>5, <1>6, <1>7, OutsideStep

LEMMA NextKeeps ==
  ASSUME WriteInv, [Next]_vars
  PROVE  WriteInv'
  <1>1. TypeOK
    BY DEF WriteInv
  <1>2. ASSUME NEW d \in Docs, NEW l \in Lines, NEW line \in Line \cup {None}, EditLine(d, l, line)
        PROVE  WriteInv'
    <2> DEFINE doc == [xero[d] EXCEPT !.items[l] = line]
               items == [xero[d].items EXCEPT ![l] = line]
    <2>1. xero[d] \in Document
      BY <1>1 DEF TypeOK
    <2>2. items \in ItemSets
      BY <2>1 DEF Document, ItemSets
    <2>3. doc = [xero[d] EXCEPT !.items = items]
      OBVIOUS
    <2>4. doc \in Document /\ doc.notes = xero[d].notes
      <3> HIDE DEF items
      <3>1. QED BY <2>1, <2>2, <2>3 DEF Document
    <2>5. QED BY <1>2, <2>4, EditedKeeps DEF EditLine
  <1>3. ASSUME NEW d \in Docs, Pay(d) PROVE WriteInv'
    <2>1. xero[d] \in Document
      BY <1>1 DEF TypeOK
    <2>2. [xero[d] EXCEPT !.due = FALSE] \in Document
          /\ [xero[d] EXCEPT !.due = FALSE].notes = xero[d].notes
      BY <2>1 DEF Document
    <2>3. QED BY <1>3, <2>2, EditedKeeps DEF Pay
  <1>4. CASE RowsGone
    <2>1. TypeOK'
      BY <1>1, <1>4 DEF TypeOK, RowsGone
    <2>2. \A p \in Requests : Spared(p)
      BY <1>4 DEF Spared, RowsGone
    <2>3. \A e \in Docs : Pending(e)' => Pending(e)
      BY <1>4 DEF Pending, RowsGone
    <2>4. QED BY <1>4, <2>1, <2>2, <2>3, OutsideStep DEF RowsGone
  <1>5. CASE UNCHANGED vars
    <2>1. TypeOK' /\ connected' = connected
      BY <1>1, <1>5 DEF TypeOK, vars
    <2>2. \A p \in Requests : Spared(p)
      BY <1>5 DEF Spared, vars
    <2>3. \A e \in Docs : Pending(e)' => Pending(e)
      BY <1>5 DEF Pending, vars
    <2>4. QED BY <2>1, <2>2, <2>3, OutsideStep
  <1>6. QED BY <1>2, <1>3, <1>4, <1>5, AskKeeps, ServeKeeps DEF Next

-----------------------------------------------------------------------------
(* The theorems.                                                           *)

\* Every request at a write has the lines of its document as they are, and
\* every request at its commit has what it asked for or is excused.
THEOREM WriteTypes == Spec => []WriteInv
  <1>1. WriteInv /\ [Next]_vars => WriteInv'
    BY NextKeeps
  <1>2. QED BY InitHolds, <1>1, PTL DEF Spec

\* A row is resolved only when Xero shows what was asked for, but for a
\* document somebody else wrote meanwhile, a failed call taken for done, and
\* the lines of a finding about a tax code, of which it says nothing
\* (ResolveService.resolve, AttachmentService, create_credit_note).
THEOREM ResolvedTheorem == Spec => ResolvedIsInXero
  <1>1. ASSUME WriteInv, NEW r \in Requests, Commit(r)
        PROVE  \/ ~ connected \/ stale[r] \/ request[r].blind
               \/ /\ ShowsRest(r)
                  /\ NotByAccount(r) \/ ShowsLines(r)
    <2>1. request[r] # None /\ request[r].step = "commit"
      BY <1>1 DEF Commit, At
    <2>2. stale[r] \/ Sound(request[r], xero[request[r].doc], connected)
      BY <1>1, <2>1 DEF WriteInv, Fine
    <2>3. Wants(request[r], xero[request[r].doc]) /\ Stages(request[r])
            => ShowsRest(r) /\ (NotByAccount(r) \/ ShowsLines(r))
      BY <1>1, <2>1, Same DEF WriteInv
    <2>4. Stages(request[r])
      BY <1>1, <2>1 DEF WriteInv, Fine
    <2>5. QED BY <2>1, <2>2, <2>3, <2>4 DEF Sound
  <1>2. WriteInv /\ [Next]_vars =>
          [\A r \in Requests :
             Commit(r) => \/ ~ connected \/ stale[r] \/ request[r].blind
                          \/ /\ ShowsRest(r)
                             /\ NotByAccount(r) \/ ShowsLines(r)]_vars
    BY <1>1
  <1>3. QED BY <1>2, WriteTypes, PTL DEF Spec, ResolvedIsInXero

\* A write changes no line that was not flagged, nor adds or drops one, unless
\* the document was edited since its lines were read (_build_xero_body).
THEOREM OtherLinesTheorem == Spec => OtherLinesSurvive
  <1>1. ASSUME WriteInv, NEW r \in Requests, NEW l \in Lines, Write(r) \/ Proxy(r),
               xero'[Doc(r)].items[l] # xero[Doc(r)].items[l]
        PROVE  \/ stale[r]
               \/ /\ xero[Doc(r)].items[l] # None
                  /\ Reached(xero[Doc(r)].items[l], request[r].target)
    <2> DEFINE q == request[r]
               x == xero[Doc(r)]
               y == [x EXCEPT !.status = IF q.status = None THEN x.status ELSE q.status,
                              !.items = IF q.items = None THEN x.items ELSE q.items]
    <2>1. q # None /\ q.step \in {"write", "proxy"}
      BY <1>1 DEF Write, Proxy, At
    <2>2. TypeOK /\ Doc(r) \in Docs /\ x \in Document
      BY <1>1, <2>1, Known DEF WriteInv, Doc
    <2>3. Applied(r)
      BY <1>1 DEF Write, Proxy, NotApplied
    <2>4. xero' = [xero EXCEPT ![Doc(r)] = y]
      BY <2>3 DEF Applied, Posted
    <2>5. y.items = IF q.items = None THEN x.items ELSE q.items
      BY <2>2 DEF Document
    <2> HIDE DEF y
    <2>6. xero'[Doc(r)] = y
      BY <2>2, <2>4 DEF TypeOK
    <2>7. q.items # None /\ q.items[l] # x.items[l]
      BY <1>1, <2>5, <2>6
    <2>8. stale[r] \/ q.items = Merged(q, x.items)
      BY <1>1, <2>1, <2>7 DEF WriteInv, Fine, Sound, Doc
    <2>9. QED BY <2>7, <2>8 DEF Merged
  <1>2. WriteInv /\ [Next]_vars =>
          [\A r \in Requests, l \in Lines :
             (Write(r) \/ Proxy(r)) /\ xero'[Doc(r)].items[l] # xero[Doc(r)].items[l]
               => \/ stale[r]
                  \/ /\ xero[Doc(r)].items[l] # None
                     /\ Reached(xero[Doc(r)].items[l], request[r].target)]_vars
    BY <1>1
  <1>3. QED BY <1>2, WriteTypes, PTL DEF Spec, OtherLinesSurvive

\* A second credit note needs a request that ended with the row open, or two
\* at the same time (create_credit_note locks nothing before its commit).
THEOREM SecondNoteTheorem == Spec => SecondNoteHasACause
  <1>1. ASSUME WriteInv, NEW r \in Requests, Create(r), xero'[Doc(r)].notes > 1
        PROVE  \/ loose[Doc(r)]
               \/ row[Doc(r)] = None \/ (request[r].open /\ row[Doc(r)].resolved)
               \/ \E q \in Requests \ {r} : On(q, Doc(r))
    <2> DEFINE d == Doc(r)
               x == [xero[d] EXCEPT !.notes = @ + 1]
    <2>1. request[r] # None /\ request[r].step = "create"
      BY <1>1 DEF Create, At
    <2>2. TypeOK /\ d \in Docs /\ xero[d] \in Document
      BY <1>1, <2>1, Known DEF WriteInv, Doc
    <2>3. request[r].open
      BY <1>1, <2>1, CreditIs DEF WriteInv, Fine, Stages
    <2>4. xero[d].notes > 0
      <3>1. CASE xero' = xero
        BY <1>1, <2>2, <3>1 DEF Document
      <3>2. CASE xero' # xero
        <4>1. xero' = [xero EXCEPT ![d] = x]
          BY <1>1, <3>2 DEF Create, Created, NotApplied
        <4>2. x.notes = xero[d].notes + 1 /\ xero[d].notes \in Nat
          BY <2>2 DEF Document
        <4> HIDE DEF x
        <4>3. xero'[d] = x
          BY <2>2, <4>1 DEF TypeOK
        <4>4. QED BY <1>1, <4>2, <4>3
      <3>3. QED BY <3>1, <3>2
    <2>5. CASE Pending(d)
      <3>1. PICK q \in Requests : Crediting(request[q], d)
        BY <1>1, <2>2, <2>5 DEF WriteInv, NotesOK
      <3>2. q # r /\ On(q, d)
        BY <2>1, <3>1 DEF Crediting, On
      <3>3. QED BY <3>2
    <2>6. CASE ~ Pending(d)
      BY <2>3, <2>4, <2>6 DEF Pending
    <2>7. QED BY <2>5, <2>6
  <1>2. WriteInv /\ [Next]_vars =>
          [\A r \in Requests :
             (Create(r) /\ xero'[Doc(r)].notes > 1)
               => \/ loose[Doc(r)]
                  \/ row[Doc(r)] = None \/ (request[r].open /\ row[Doc(r)].resolved)
                  \/ \E q \in Requests \ {r} : On(q, Doc(r))]_vars
    BY <1>1
  <1>3. QED BY <1>2, WriteTypes, PTL DEF Spec, SecondNoteHasACause
=============================================================================
