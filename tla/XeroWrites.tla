----------------------------- MODULE XeroWrites -----------------------------
(***************************************************************************)
(* Writing a decision back to Xero: the Resolve, Void, Credit Note and     *)
(* Attachment buttons of an issue-feed row, and the applied AI fix.        *)
(*                                                                         *)
(* A request reads the row, may read the document at Xero, writes to Xero  *)
(* (through a Nango action, and through the proxy when the action gave no  *)
(* answer), and then marks the row resolved and commits.  Nothing ties     *)
(* those steps together: Xero may apply a write whose answer is lost, a    *)
(* second request may work on the same document, an accountant may edit    *)
(* it in Xero, the commit may fail.                                        *)
(***************************************************************************)
EXTENDS Naturals, FiniteSets

CONSTANTS
  Docs,          \* documents of one company that have a row
  BankDocs,      \* those that are bank transactions (SPEND, RECEIVE)
  Lines,         \* line items a document can have
  Accounts,      \* account codes of a line
  Taxes,         \* tax codes of a line
  Requests,      \* requests that may be in progress at the same time
  MaxRequests,   \* bound: requests in a behaviour
  MaxEdits,      \* bound: edits made in Xero by people
  None           \* nothing

Statuses == {"draft", "authorised", "voided"}
Codes == Accounts \cup Taxes
Line == [account : Accounts, tax : Taxes]
ItemSets == [Lines -> Line \cup {None}]        \* None: no such line
Document == [status : Statuses, items : ItemSets, due : BOOLEAN,
             notes : Nat, file : BOOLEAN]

(* What the audit found, with the current_code of each finding: an account *)
(* code, or for the tax rules a tax code.  As _deterministic_fix sees it a *)
(* "line" rule suggests line_item_updates, a "context" rule asks the LLM.  *)
Rules == {"original", "duplicate", "unapproved", "line", "manual", "context"}
Row == [rule : Rules, twin : Docs, codes : SUBSET Codes, paid : BOOLEAN,
        resolved : BOOLEAN]

ASSUME NoneAssumption ==
  None \notin Codes \cup Line \cup Docs \cup Statuses \cup ItemSets \cup Row \cup Requests
ASSUME CodeAssumption == Accounts \cap Taxes = {}
ASSUME BankAssumption == BankDocs \subseteq Docs
ASSUME BoundAssumption == MaxRequests \in Nat /\ MaxEdits \in Nat

Ops == {"update", "credit", "upload", "recheck"}
Steps == {"fetch", "write", "proxy", "source", "create", "allocate", "file",
          "commit"}
Request == [op : Ops, step : Steps, doc : Docs,
            status : Statuses \cup {None},       \* header update
            code : Codes \cup {None},            \* line update
            target : SUBSET Codes,               \* codes that were flagged
            items : ItemSets \cup {None},        \* the rebuilt lines
            due : BOOLEAN,                       \* the amount due, as read
            open : BOOLEAN,   \* observers: the row was open when r began,
            blind : BOOLEAN]  \* a failed call is taken for done

ASSUME RequestAssumption == None \notin Request

VARIABLES
  connected,  \* Nango is configured and the company linked to an org
  xero,       \* xero[d]: document d at Xero
  row,        \* row[d]: its row in the feed
  request,    \* request[r]: what request r is doing
  stale,      \* stale[r]: somebody else wrote r's document since r read it
              \* (an observer: no action reads it, nor the next)
  loose,      \* loose[d]: a request on d ended with the row still open
  begun,      \* those counted by the bounds
  edits

vars == <<connected, xero, row, request, stale, loose, begun, edits>>

TypeOK ==
  /\ connected \in BOOLEAN
  /\ xero \in [Docs -> Document]
  /\ row \in [Docs -> Row \cup {None}]
  /\ request \in [Requests -> Request \cup {None}]
  /\ stale \in [Requests -> BOOLEAN]
  /\ loose \in [Docs -> BOOLEAN]
  /\ begun \in 0 .. MaxRequests
  /\ edits \in 0 .. MaxEdits

Init ==
  /\ connected \in BOOLEAN
  /\ xero \in [Docs -> [status : {"draft", "authorised"}, items : ItemSets,
                        due : BOOLEAN, notes : {0}, file : {FALSE}]]
  /\ row \in [Docs -> [rule : Rules, twin : Docs, codes : SUBSET Codes,
                       paid : BOOLEAN, resolved : {FALSE}]]
  /\ request = [r \in Requests |-> None]
  /\ stale = [r \in Requests |-> FALSE]
  /\ loose = [d \in Docs |-> FALSE]
  /\ begun = 0
  /\ edits = 0

-----------------------------------------------------------------------------
On(r, d) == request[r] # None /\ request[r].doc = d
At(r, step) == request[r] # None /\ request[r].step = step
Doc(r) == request[r].doc

Goto(r, step) == request' = [request EXCEPT ![r].step = step]

\* Document d was changed, by request p if by one.
Touch(p, d) == stale' = [r \in Requests |-> stale[r] \/ (r # p /\ On(r, d))]

\* The request answers with an error; the row stays as it is.
Abandon(r) ==
  /\ request' = [request EXCEPT ![r] = None]
  /\ loose' = [loose EXCEPT ![Doc(r)] = TRUE]

-----------------------------------------------------------------------------
(***************************************************************************)
(* The requests begin.                                                     *)
(***************************************************************************)
Begin(r, d, op, step, s, c) ==
  /\ begun < MaxRequests
  /\ request[r] = None
  /\ row[d] # None
  /\ request' = [request EXCEPT ![r] =
       [op |-> op, step |-> step, doc |-> d, status |-> s, code |-> c,
        target |-> row[d].codes, items |-> None, due |-> FALSE,
        open |-> ~ row[d].resolved, blind |-> FALSE]]
  /\ stale' = [stale EXCEPT ![r] = FALSE]
  /\ begun' = begun + 1
  /\ UNCHANGED <<connected, xero, row, loose, edits>>

\* Without a connection a stub stands for Xero and the row is resolved.  A
\* line of a bank transaction cannot be recoded: no request comes of it.
FirstStep(d, c) == IF ~ connected THEN "commit"
                   ELSE IF c = None THEN "write" ELSE "fetch"
Resolve(r, d, s, c) ==
  /\ row[d] # None => ~ row[d].resolved
  /\ s # None \/ c # None                        \* NO_SUPPORTED_FIELDS
  /\ ~ (connected /\ c # None /\ d \in BankDocs)
  /\ Begin(r, d, "update", FirstStep(d, c), s, c)

\* A paid document is not voided: paid as the audit saw it.
Void(r, d) ==
  /\ row[d] # None => ~ row[d].paid
  /\ Resolve(r, d, "voided", None)

CreditNoteAgain(r, d) ==         \* slip: ALREADY_RESOLVED forgotten
  Begin(r, d, "credit", IF connected THEN "source" ELSE "commit", None, None)

CreditNote(r, d) ==
  /\ row[d] # None => ~ row[d].resolved
  /\ Begin(r, d, "credit", IF connected THEN "source" ELSE "commit", None, None)

\* Upload a file, or check again whether there is one.
Attachment(r, d, op) ==
  /\ connected
  /\ op \in {"upload", "recheck"}
  /\ Begin(r, d, op, "file", None, None)

(***************************************************************************)
(* What get_suggestion suggests: the document to change, and the header    *)
(* and line updates the apply step finds in the suggestion.                *)
(***************************************************************************)
Fix(t, s, c) == [target |-> t, status |-> s, code |-> c]

\* Void the duplicate.  For its original the suggestion names the other
\* document, in an action text of which no field can be parsed.
DuplicateFix(d) ==
  CASE row[d].rule = "duplicate" -> {Fix(d, "voided", None)}
    [] row[d].rule = "original"  ->
         {Fix(row[d].twin, IF row[d].twin = d THEN "voided" ELSE None, None)}
    [] OTHER -> {}

\* Approve a draft (of the header fields only the status is told apart).
ApproveFix(d) ==
  IF row[d].rule = "unapproved" THEN {Fix(d, "authorised", None)} ELSE {}

\* The code is in line_item_updates, which the apply step does not read.
LineFix(d) == IF row[d].rule = "line" THEN {Fix(d, None, None)} ELSE {}

\* Steps for a person.
ManualFix(d) == IF row[d].rule = "manual" THEN {Fix(d, None, None)} ELSE {}

\* The LLM may suggest anything, and _normalise_suggestion keeps it.
LlmFix(d) ==
  IF row[d].rule = "context"
    THEN {Fix(t, s, c) : t \in Docs, s \in Statuses \cup {None},
                         c \in Codes \cup {None}}
    ELSE {}

Suggestions(d) ==
  DuplicateFix(d) \cup ApproveFix(d) \cup LineFix(d) \cup ManualFix(d)
    \cup LlmFix(d)

\* The suggestion may name another document: then its row is resolved.  (One
\* that the client sends along is a Resolve with its fields.)
ApplyFix(r, d) ==
  /\ row[d] # None
  /\ \E f \in Suggestions(d) : Resolve(r, f.target, f.status, f.code)

-----------------------------------------------------------------------------
(***************************************************************************)
(* ResolveService._call_xero: read the lines, write, fall back.            *)
(***************************************************************************)
\* The code goes into one field of a line, and the rest of it is preserved.
With(line, c) == IF c \in Accounts THEN [line EXCEPT !.account = c]
                                   ELSE [line EXCEPT !.tax = c]

\* The lines on a flagged account, or all when no code is known; a flagged tax
\* code is compared with the line's account like any other, and meets none.
RecodeAll(r, items) ==           \* slip: every line is recoded
  [l \in Lines |-> IF items[l] # None THEN With(items[l], request[r].code) ELSE items[l]]
Reached(line, target) == target = {} \/ line.account \in target
Recode(r, items) ==
  [l \in Lines |->
     IF items[l] # None /\ Reached(items[l], request[r].target)
       THEN With(items[l], request[r].code) ELSE items[l]]

NoItems == [l \in Lines |-> None]

\* A document without lines reads like a failed fetch: the body has then the
\* header fields only.  An expired connection raises instead.
Fetch(r) ==
  /\ At(r, "fetch")
  /\ \/ /\ xero[Doc(r)].items # NoItems
        /\ request' = [request EXCEPT ![r] =
             [@ EXCEPT !.step = "write", !.items = Recode(r, xero[Doc(r)].items)]]
        /\ UNCHANGED loose
     \/ /\ request' = [request EXCEPT ![r] = [@ EXCEPT !.blind = TRUE,
             !.step = IF request[r].status = None THEN "proxy" ELSE "write"]]
        /\ UNCHANGED loose
     \/ Abandon(r)
  /\ stale' = [stale EXCEPT ![r] = FALSE]
  /\ UNCHANGED <<connected, xero, row, begun, edits>>

\* Xero refuses to change a voided document, to void a paid one, and to find a
\* bank transaction among the invoices.
Accepts(d, s) ==
  /\ d \notin BankDocs
  /\ xero[d].status # "voided"
  /\ s = "voided" => xero[d].due

\* A POST replaces the status if it is given, and all lines if they are.
Posted(r) ==
  LET doc == xero[Doc(r)]
  IN  [xero EXCEPT ![Doc(r)] = [doc EXCEPT
         !.status = IF request[r].status = None THEN doc.status ELSE request[r].status,
         !.items = IF request[r].items = None THEN doc.items ELSE request[r].items]]

Applied(r) ==
  /\ Accepts(Doc(r), request[r].status)
  /\ xero' = Posted(r)
  /\ Touch(r, Doc(r))

NotApplied == UNCHANGED <<xero, stale>>

\* The update-invoice action: an error, and an answer lost, look the same.
Write(r) ==
  /\ At(r, "write")
  /\ \/ Applied(r) /\ (Goto(r, "commit") \/ Goto(r, "proxy"))
     \/ NotApplied /\ Goto(r, "proxy")
  /\ UNCHANGED <<connected, row, loose, begun, edits>>

ProxyTrusted(r) ==               \* slip: the proxy's failure not looked at
  /\ At(r, "proxy")
  /\ \/ Applied(r) /\ Goto(r, "commit")
     \/ NotApplied /\ Goto(r, "commit")
  /\ UNCHANGED <<connected, row, loose, begun, edits>>

Proxy(r) ==
  /\ At(r, "proxy")
  /\ \/ Applied(r) /\ Goto(r, "commit") /\ UNCHANGED loose
     \/ (Applied(r) \/ NotApplied) /\ Abandon(r)
  /\ UNCHANGED <<connected, row, begun, edits>>

-----------------------------------------------------------------------------
(***************************************************************************)
(* IntegrationService.create_credit_note: read, create, allocate.          *)
(***************************************************************************)
\* Any failure comes back as None, for which a stub stands that is not asked
\* for an allocation.
Stub(r) == request' = [request EXCEPT ![r] = [@ EXCEPT !.step = "commit", !.blind = TRUE]]

Source(r) ==
  /\ At(r, "source")
  /\ \/ /\ Doc(r) \notin BankDocs
        /\ request' = [request EXCEPT ![r] = [@ EXCEPT !.step = "create",
                                                    !.due = xero[Doc(r)].due]]
        /\ UNCHANGED loose
     \/ Stub(r) /\ UNCHANGED loose
     \/ Abandon(r)
  /\ stale' = [stale EXCEPT ![r] = FALSE]
  /\ UNCHANGED <<connected, xero, row, begun, edits>>

Created(r) ==
  /\ xero' = [xero EXCEPT ![Doc(r)].notes = @ + 1]
  /\ Touch(r, Doc(r))

Create(r) ==
  /\ At(r, "create")
  /\ \/ Created(r) /\ (Goto(r, "allocate") \/ Stub(r))
     \/ NotApplied /\ Stub(r)
  /\ UNCHANGED <<connected, row, loose, begun, edits>>

\* The amount due as read, or the total of a document with nothing due: that
\* one is refused, like any other that is more than what is due by now.
Allocate(r) ==
  /\ At(r, "allocate")
  /\ \/ /\ request[r].due /\ xero[Doc(r)].due /\ xero[Doc(r)].status = "authorised"
        /\ xero' = [xero EXCEPT ![Doc(r)].due = FALSE]
        /\ Touch(r, Doc(r))
        /\ \/ Goto(r, "commit") /\ UNCHANGED loose
           \/ Abandon(r)
     \/ NotApplied /\ Abandon(r)          \* CREDIT_NOTE_NOT_ALLOCATED
  /\ UNCHANGED <<connected, row, begun, edits>>

-----------------------------------------------------------------------------
(***************************************************************************)
(* AttachmentService, and the end of every request.                        *)
(***************************************************************************)
File(r) ==
  /\ At(r, "file")
  /\ \/ /\ request[r].op = "upload"
        /\ xero' = [xero EXCEPT ![Doc(r)].file = TRUE]
        /\ Touch(r, Doc(r))
        /\ \/ Goto(r, "commit") /\ UNCHANGED loose
           \/ Abandon(r)
     \/ /\ request[r].op = "recheck"
        /\ xero[Doc(r)].file
        /\ NotApplied /\ Goto(r, "commit") /\ UNCHANGED loose
     \/ NotApplied /\ Abandon(r)
  /\ UNCHANGED <<connected, row, begun, edits>>

\* mark_resolved: it locks the row and does not ask whether it is resolved.
Commit(r) ==
  /\ At(r, "commit")
  /\ row[Doc(r)] # None
  /\ row' = [row EXCEPT ![Doc(r)].resolved = TRUE]
  /\ request' = [request EXCEPT ![r] = None]
  /\ UNCHANGED <<connected, xero, stale, loose, begun, edits>>

\* The row is gone, or the database fails.
CommitFails(r) ==
  /\ At(r, "commit")
  /\ Abandon(r)
  /\ UNCHANGED <<connected, xero, row, stale, begun, edits>>

-----------------------------------------------------------------------------
(***************************************************************************)
(* People in Xero, and a company that is removed.                          *)
(***************************************************************************)
Edited(d, doc) ==
  /\ edits < MaxEdits
  /\ doc # xero[d]
  /\ xero' = [xero EXCEPT ![d] = doc]
  /\ edits' = edits + 1
  /\ Touch(None, d)
  /\ UNCHANGED <<connected, row, request, loose, begun>>

EditLine(d, l, line) ==
  xero[d].status # "voided" /\ Edited(d, [xero[d] EXCEPT !.items[l] = line])
Pay(d) == xero[d].status = "authorised" /\ Edited(d, [xero[d] EXCEPT !.due = FALSE])

RowsGone ==
  /\ \E d \in Docs : row[d] # None
  /\ row' = [d \in Docs |-> None]
  /\ UNCHANGED <<connected, xero, request, stale, loose, begun, edits>>

Ask(r, d) ==
  \/ \E s \in Statuses \cup {None}, c \in Codes \cup {None} : Resolve(r, d, s, c)
  \/ Void(r, d)
  \/ CreditNote(r, d)
  \/ \E op \in {"upload", "recheck"} : Attachment(r, d, op)
  \/ ApplyFix(r, d)

Serve(r) ==
  \/ Fetch(r) \/ Write(r) \/ Proxy(r)
  \/ Source(r) \/ Create(r) \/ Allocate(r)
  \/ File(r)
  \/ Commit(r) \/ CommitFails(r)

Next ==
  \/ \E r \in Requests : (\E d \in Docs : Ask(r, d)) \/ Serve(r)
  \/ \E d \in Docs : (\E l \in Lines, line \in Line \cup {None} : EditLine(d, l, line)) \/ Pay(d)
  \/ RowsGone

Spec == Init /\ [][Next]_vars

-----------------------------------------------------------------------------
(***************************************************************************)
(* Properties.                                                             *)
(***************************************************************************)

\* Every line the finding is about has the code that request r puts there.
Flagged(line, target) == Reached(line, target) \/ line.tax \in target
ShowsLines(r) ==
  request[r].code # None =>
    \A l \in Lines :
      LET line == xero[Doc(r)].items[l]
      IN  line # None /\ Flagged(line, request[r].target) => line = With(line, request[r].code)

\* What request r wants besides is how the document is at Xero.
ShowsRest(r) ==
  CASE request[r].op = "update" -> request[r].status \in {None, xero[Doc(r)].status}
    [] request[r].op = "credit" -> ~ xero[Doc(r)].due
    [] OTHER -> xero[Doc(r)].file

\* A code was flagged that is no account's: the tax rules (checks/tax.py).
NotByAccount(r) == ~ (request[r].target \subseteq Accounts)

(* When a row of a connected company becomes resolved, Xero shows what was *)
(* asked for, whatever was rejected, retried through the proxy or lost on  *)
(* the way; unless somebody else changed the document meanwhile, or a      *)
(* failed call was taken for success, or, for its lines, the finding names *)
(* a tax code, which the recode looks for among the accounts (the three    *)
(* places NoFalseSuccess is about).                                        *)
ResolvedIsInXero ==
  [][\A r \in Requests :
       Commit(r) => \/ ~ connected \/ stale[r] \/ request[r].blind
                    \/ /\ ShowsRest(r)
                       /\ NotByAccount(r) \/ ShowsLines(r)]_vars

(* ResolveService.resolve: a failed write "must NOT mark the row resolved  *)
(* - that would be a false success while Xero is unchanged".               *)
NoFalseSuccess ==
  [][\A r \in Requests :
       Commit(r) => ~ connected \/ stale[r] \/ (ShowsRest(r) /\ ShowsLines(r))]_vars

(* _build_xero_body: the overlay goes "ONLY on the flagged line(s)", the   *)
(* other lines of the document are left untouched: no write changes a line *)
(* that was not on a flagged account, or drops or adds one, but for edits  *)
(* made since the lines were read, which it undoes.                        *)
OtherLinesSurvive ==
  [][\A r \in Requests, l \in Lines :
       (Write(r) \/ Proxy(r)) /\ xero'[Doc(r)].items[l] # xero[Doc(r)].items[l]
         => \/ stale[r]
            \/ /\ xero[Doc(r)].items[l] # None
               /\ Reached(xero[Doc(r)].items[l], request[r].target)]_vars

(* create_credit_note: a document gets a second credit note only if an     *)
(* earlier request on it ended with the row open (whose answer invites a   *)
(* retry), or if two ran at the same time: the other is still at work or   *)
(* has resolved the row since (nothing locks it before the commit).        *)
SecondNoteHasACause ==
  [][\A r \in Requests :
       (Create(r) /\ xero'[Doc(r)].notes > 1)
         => \/ loose[Doc(r)]
            \/ row[Doc(r)] = None \/ (request[r].open /\ row[Doc(r)].resolved)
            \/ \E q \in Requests \ {r} : On(q, Doc(r))]_vars
=============================================================================
