----------------------------- MODULE TeamAccess -----------------------------
(***************************************************************************)
(* Firms, their users and what each may see: sign-up, invitations, the     *)
(* assignment of companies, disabling, enabling and removing, and the      *)
(* delivery reports of the invitation mails.  A request reads in one step  *)
(* and commits in another; other requests commit in between.  As           *)
(* SQLAlchemy does, a commit writes the columns the request changed from   *)
(* the row it read, inserts before it deletes, and fails as a whole.       *)
(***************************************************************************)
EXTENDS Integers, Sequences, FiniteSets

CONSTANTS
    Users,        \* ids of user rows, each used at most once
    Emails, Firms, Orgs,
    Requests,     \* requests served at the same time
    MaxTokens,    \* bound: invitation tokens
    MaxCodes,     \* bound: sign-up codes
    MaxRows,      \* bound: assignment rows
    MaxMails,     \* bound: mails accepted by the provider
    MaxWrong,     \* wrong tries before a code is burned
    Reports,      \* what the provider reports of a mail
    None, Gone    \* no value, and a row that was deleted

\* A row of app_user.  invite is the token of an invitation, mail what became
\* of its mail.
Row == [firm : Firms \cup {None}, email : Emails, role : {"admin", "team_member"},
        status : {"invited", "active", "disabled"}, mode : {"all", "selected"}, password : BOOLEAN,
        invite : Nat \cup {None}, expired : BOOLEAN, mail : {None, "sent", "failed"} \cup Reports]

ASSUME TeamAssumption ==
    /\ {MaxTokens, MaxCodes, MaxRows, MaxMails, MaxWrong} \subseteq Nat
    /\ None \notin Users \cup Emails \cup Firms \cup Orgs
ASSUME NoneAssumption ==
    /\ Gone # None /\ None \notin Row /\ Gone \notin Row /\ Gone \notin Firms /\ None \notin Nat
    /\ None \notin {"register", "verify", "invite", "resend", "accept", "assign",
                    "disable", "enable", "remove"}

VARIABLES
    users,     \* app_user: [id -> None, Gone, or a row]
    firms,     \* the firms that have a row
    orgs,      \* company: [id -> its firm, None or Gone, and whether active]
    access,    \* user_company_access: rows [id, user, org]
    otp,       \* Redis: [email -> None or [code, wrong]] of a sign-up
    log,       \* notification_log, oldest first: [user, email, status, id, mail]
    mails,     \* what the provider took: [email, last], last being its last event
    used,      \* counters of what was generated: [token, code, row]
    req,       \* the requests under way
    past       \* what has happened, for the properties only:
               \* granted  [user -> companies of the last assignment]
               \* crossed  users two of whose assignments overlapped
               \* parked   users disabled before they accepted
               \* strayed  addresses an event of which went to another's row

vars == <<users, firms, orgs, access, otp, log, mails, used, req, past>>

-----------------------------------------------------------------------------
(* Who there is.                                                           *)

Exists(u) == users[u] \notin {None, Gone}

Account(firm, email, role, status, mode, password, invite) ==
    [firm |-> firm, email |-> email, role |-> role, status |-> status, mode |-> mode,
     password |-> password, invite |-> invite, expired |-> FALSE, mail |-> None]

\* Ids are new: of those left one is taken.
FreshUser == LET free == {u \in Users : users[u] = None} IN {CHOOSE u \in free : TRUE : x \in free}

FreshFirm == LET free == Firms \ firms IN {CHOOSE f \in free : TRUE : x \in free}

ByEmail(e) == {u \in Users : Exists(u) /\ users[u].email = e}

\* Somebody signed in: tokens are minted for active users with a password,
\* and every request looks the user up again.
SignedIn(u) == Exists(u) /\ users[u].status = "active" /\ users[u].password

Admin(u) == SignedIn(u) /\ users[u].role = "admin"

\* An admin without a firm is the platform's own and manages everybody.
Manages(a, u) ==
    /\ Admin(a) /\ Exists(u)
    /\ users[a].firm # None => users[u].firm = users[a].firm

OrgExists(o) == orgs[o].firm # Gone

RowsOf(u) == {x \in access : x.user = u}

OrgsOf(u) == {x.org : x \in RowsOf(u)}

\* The guard on every route of one company.
MayEnter(u, o) ==
    /\ orgs[o].active
    /\ users[u].firm # None => orgs[o].firm = users[u].firm
    /\ users[u].role = "admin" \/ users[u].mode = "all" \/ o \in OrgsOf(u)

\* The companies of the views across companies.
AllowedCompanies(u) ==
    LET everything == users[u].role = "admin" \/ users[u].mode = "all"
        ofFirm == {o \in Orgs : OrgExists(o) /\ orgs[o].firm = users[u].firm}
    IN IF users[u].firm = None
       THEN IF everything THEN {o \in Orgs : OrgExists(o)} ELSE OrgsOf(u)
       ELSE IF everything THEN ofFirm ELSE ofFirm \cap OrgsOf(u)

\* Companies an assignment may name: of the firm, or any when there is none.
Assignable(chosen, firm) ==
    \A o \in chosen : OrgExists(o) /\ (firm # None => orgs[o].firm = firm)

-----------------------------------------------------------------------------
(* The life of a request.                                                  *)

Nothing == [op |-> None, at |-> None, user |-> None, email |-> None, firm |-> None, row |-> None,
            mode |-> None, orgs |-> {}, rows |-> {}, otp |-> None, code |-> None]

Begin(r, q) ==
    /\ req[r] = Nothing
    /\ req' = [req EXCEPT ![r] = q]
    /\ UNCHANGED <<users, firms, orgs, access, otp, log, mails, used, past>>

Ends(r) == req' = [req EXCEPT ![r] = Nothing]

At(r, op, step) == req[r].op = op /\ req[r].at = step

\* The transaction is refused or its row is gone: the answer is an error and
\* nothing was changed.
Fails(r) == Ends(r) /\ UNCHANGED <<users, firms, orgs, access, otp, log, mails, used, past>>

\* The process or its connections die under a request.
Aborts(r) == req[r] # Nothing /\ Fails(r)

Loaded(op, u) == [Nothing EXCEPT !.op = op, !.at = "commit", !.user = u, !.row = users[u]]

-----------------------------------------------------------------------------
(* Signing up: directly, or with a code sent by mail.                      *)

StartRegister(r, e) ==
    /\ ByEmail(e) = {}
    /\ Begin(r, [Nothing EXCEPT !.op = "register", !.at = "commit", !.email = e])

\* A firm and its first admin, in one transaction.
CreateFirmAndAdmin(e) ==
    \E u \in FreshUser, f \in FreshFirm :
       /\ firms' = firms \cup {f}
       /\ users' = [users EXCEPT ![u] = Account(f, e, "admin", "active", "all", TRUE, None)]

\* The address is unique: of two who found it free only one is saved.
SaveFirm(r, Done) ==
    IF ByEmail(req[r].email) # {} THEN Fails(r)
    ELSE /\ CreateFirmAndAdmin(req[r].email)
         /\ Done /\ Ends(r)
         /\ UNCHANGED <<orgs, access, log, mails, used, past>>

Register(r) == At(r, "register", "commit") /\ SaveFirm(r, otp' = otp)

RequestOtp(e) ==
    /\ ByEmail(e) = {}
    /\ used.code < MaxCodes
    /\ used' = [used EXCEPT !.code = @ + 1]
    /\ otp' = [otp EXCEPT ![e] = [code |-> used.code + 1, wrong |-> 0]]
    /\ UNCHANGED <<users, firms, orgs, access, log, mails, req, past>>

OtpExpires(e) ==
    /\ otp[e] # None
    /\ otp' = [otp EXCEPT ![e] = None]
    /\ UNCHANGED <<users, firms, orgs, access, log, mails, used, req, past>>

ReadOtp(r, e, code) ==
    /\ otp[e] # None
    /\ Begin(r, [Nothing EXCEPT !.op = "verify", !.at = "check", !.email = e, !.otp = otp[e], !.code = code])

\* What was read is what is judged, and what goes back with one try more.
CheckOtp(r) ==
    LET q == req[r]
        tooMany == q.otp.wrong >= MaxWrong
        wrong == q.code # q.otp.code
    IN /\ At(r, "verify", "check")
       /\ IF ~tooMany /\ ~wrong /\ ByEmail(q.email) = {}
          THEN /\ req' = [req EXCEPT ![r].at = "commit"]
               /\ otp' = otp
          ELSE /\ otp' = [otp EXCEPT ![q.email] =
                            IF ~tooMany /\ wrong THEN [q.otp EXCEPT !.wrong = @ + 1] ELSE None]
               /\ Ends(r)
       /\ UNCHANGED <<users, firms, orgs, access, log, mails, used, past>>

RegisterVerified(r) ==
    /\ At(r, "verify", "commit")
    /\ SaveFirm(r, otp' = [otp EXCEPT ![req[r].email] = None])

-----------------------------------------------------------------------------
(* Invitations.                                                            *)

StartInvite(r, a, e, mode, chosen) ==
    /\ Admin(a)
    /\ ByEmail(e) = {}
    /\ Assignable(chosen, users[a].firm)
    /\ used.token < MaxTokens /\ used.row < MaxRows
    /\ Begin(r, [Nothing EXCEPT !.op = "invite", !.at = "commit", !.email = e, !.firm = users[a].firm,
                                !.mode = mode, !.orgs = chosen])

\* New rows for the companies; the stamp tells them from earlier ones.
NewRows(u, chosen) == [id : {used.row + 1}, user : {u}, org : chosen]

Invite(r) ==
    LET q == req[r]
    IN /\ At(r, "invite", "commit")
       /\ \/ /\ ByEmail(q.email) # {} \/ \E o \in q.orgs : ~OrgExists(o)
             /\ Fails(r)
          \/ /\ ByEmail(q.email) = {} /\ \A o \in q.orgs : OrgExists(o)
             /\ used.token < MaxTokens /\ used.row < MaxRows
             /\ \E u \in FreshUser :
                   /\ users' = [users EXCEPT ![u] = Account(q.firm, q.email, "team_member", "invited", q.mode,
                                                            FALSE, used.token + 1)]
                   /\ access' = access \cup NewRows(u, q.orgs)
                   /\ past' = [past EXCEPT !.granted[u] = q.orgs]
                   /\ req' = [req EXCEPT ![r].at = "send", ![r].user = u]
             /\ used' = [used EXCEPT !.token = @ + 1, !.row = @ + 1]
             /\ UNCHANGED <<firms, orgs, otp, log, mails>>

StartResend(r, a, u) ==
    /\ Manages(a, u) /\ users[u].status = "invited"
    /\ used.token < MaxTokens
    /\ Begin(r, [Loaded("resend", u) EXCEPT !.email = users[u].email])

\* A fresh token and a new expiry; the user may have accepted meanwhile.
Resend(r) ==
    LET q == req[r]
    IN /\ At(r, "resend", "commit")
       /\ \/ ~Exists(q.user) /\ Fails(r)
          \/ /\ Exists(q.user) /\ used.token < MaxTokens
             /\ users' = [users EXCEPT ![q.user] = [@ EXCEPT !.invite = used.token + 1, !.expired = FALSE]]
             /\ used' = [used EXCEPT !.token = @ + 1]
             /\ req' = [req EXCEPT ![r].at = "send"]
             /\ UNCHANGED <<firms, orgs, access, otp, log, mails, past>>

\* slip: the status of the invited is not looked at
ReadAnyInvite(r, token) ==
    \E u \in Users :
       /\ Exists(u) /\ users[u].invite = token
       /\ ~users[u].expired
       /\ Begin(r, Loaded("accept", u))

ReadInvite(r, token) ==
    \E u \in Users :
       /\ Exists(u) /\ users[u].invite = token
       /\ users[u].status = "invited" /\ ~users[u].expired
       /\ Begin(r, Loaded("accept", u))

AcceptInvite(r) ==
    LET q == req[r]
    IN /\ At(r, "accept", "commit")
       /\ \/ ~Exists(q.user) /\ Fails(r)
          \/ /\ Exists(q.user)
             /\ users' = [users EXCEPT ![q.user] = [@ EXCEPT !.password = TRUE, !.status = "active",
                                                             !.invite = None, !.expired = FALSE]]
             /\ Ends(r)
             /\ UNCHANGED <<firms, orgs, access, otp, log, mails, used, past>>

InviteExpires(u) ==
    /\ Exists(u) /\ users[u].invite # None /\ ~users[u].expired
    /\ users' = [users EXCEPT ![u].expired = TRUE]
    /\ UNCHANGED <<firms, orgs, access, otp, log, mails, used, req, past>>

-----------------------------------------------------------------------------
(* Managing a user.                                                        *)

StartAssign(r, a, u, mode, chosen) ==
    /\ Manages(a, u) /\ users[u].role # "admin"
    /\ Assignable(chosen, users[u].firm)
    /\ used.row < MaxRows
    /\ Begin(r, [Loaded("assign", u) EXCEPT !.mode = mode, !.orgs = chosen, !.rows = RowsOf(u)])

\* slip: the old assignments stay
Extended(r) == access \cup NewRows(req[r].user, req[r].orgs)

\* Of the rows a request read, those that are left are deleted.
Replaced(r) == (access \ req[r].rows) \cup NewRows(req[r].user, req[r].orgs)

\* The new rows go in first, so naming a company that is assigned already
\* breaks the unique index, and the request.
SetUserCompanies(r) ==
    LET q == req[r]
        refused == \/ ~Exists(q.user) /\ (q.orgs # {} \/ q.mode # q.row.mode)
                   \/ q.orgs \cap OrgsOf(q.user) # {}
                   \/ \E o \in q.orgs : ~OrgExists(o)
    IN /\ At(r, "assign", "commit")
       /\ \/ refused /\ Fails(r)
          \/ /\ ~refused /\ used.row < MaxRows
             /\ access' = Replaced(r)
             /\ users' = IF q.mode # q.row.mode THEN [users EXCEPT ![q.user].mode = q.mode] ELSE users
             /\ used' = [used EXCEPT !.row = @ + 1]
             /\ past' = [past EXCEPT
                           !.granted[q.user] = q.orgs,
                           !.crossed = @ \cup {q.user : s \in {x \in Requests \ {r} :
                                                              At(x, "assign", "commit") /\ req[x].user = q.user}}]
             /\ Ends(r)
             /\ UNCHANGED <<firms, orgs, otp, log, mails>>

StartDisable(r, a, u) == Manages(a, u) /\ a # u /\ Begin(r, Loaded("disable", u))

\* slip: an invited user can be enabled too
StartEnableAny(r, a, u) == Manages(a, u) /\ Begin(r, Loaded("enable", u))

StartEnable(r, a, u) ==
    /\ Manages(a, u)
    /\ users[u].status # "invited"
    /\ Begin(r, Loaded("enable", u))

\* A status that is already as wished is not written.
SetStatus(r, op, status) ==
    LET q == req[r]
    IN /\ At(r, op, "commit")
       /\ IF q.row.status = status \/ ~Exists(q.user) THEN Fails(r)
          ELSE /\ users' = [users EXCEPT ![q.user].status = status]
               /\ past' = IF status = "disabled" /\ ~users[q.user].password
                          THEN [past EXCEPT !.parked = @ \cup {q.user}] ELSE past
               /\ Ends(r)
               /\ UNCHANGED <<firms, orgs, access, otp, log, mails, used>>

Disable(r) == SetStatus(r, "disable", "disabled")
Enable(r) == SetStatus(r, "enable", "active")

StartRemove(r, a, u) ==
    /\ Manages(a, u) /\ a # u /\ users[u].role # "admin"
    /\ Begin(r, Loaded("remove", u))

\* The assignments go with the user, the log of his mails stays.
Remove(r) ==
    LET u == req[r].user
    IN /\ At(r, "remove", "commit")
       /\ users' = [users EXCEPT ![u] = Gone]
       /\ access' = access \ RowsOf(u)
       /\ log' = [i \in DOMAIN log |-> IF log[i].user = u THEN [log[i] EXCEPT !.user = None] ELSE log[i]]
       /\ Ends(r)
       /\ UNCHANGED <<firms, orgs, otp, mails, used, past>>

-----------------------------------------------------------------------------
(* Mails and what the provider reports of them.                            *)

Mailing(r) == req[r].op \in {"invite", "resend"}

\* The mail is handed over after the commit; the log is written after that.
Send(r, ok) ==
    /\ Mailing(r) /\ req[r].at = "send"
    /\ IF ok
       THEN /\ Len(mails) < MaxMails
            /\ mails' = Append(mails, [email |-> req[r].email, last |-> "sent"])
            /\ req' = [req EXCEPT ![r].at = "record", ![r].code = Len(mails) + 1]
       ELSE /\ mails' = mails
            /\ req' = [req EXCEPT ![r].at = "record", ![r].code = None]
    /\ UNCHANGED <<users, firms, orgs, access, otp, log, used, past>>

\* The row does not get the id the provider gave the mail, and the user's
\* status is written if the request knew another one.  A user who is gone by
\* now fails the insert.
RecordSend(r) ==
    LET q == req[r]
        status == IF q.code = None THEN "failed" ELSE "sent"
        knew == IF q.row = None THEN None ELSE q.row.mail
    IN /\ Mailing(r) /\ q.at = "record"
       /\ IF Exists(q.user)
          THEN /\ users' = IF knew # status THEN [users EXCEPT ![q.user].mail = status] ELSE users
               /\ log' = Append(log, [user |-> q.user, email |-> q.email, status |-> status,
                                      id |-> None, mail |-> q.code])
          ELSE UNCHANGED <<users, log>>
       /\ Ends(r)
       /\ UNCHANGED <<firms, orgs, access, otp, mails, used, past>>

\* slip: the oldest row of the address instead of the latest
OldestRow(m, id) ==
    LET known == {i \in DOMAIN log : id # None /\ log[i].id = id}
        same == IF known # {} THEN known ELSE {i \in DOMAIN log : log[i].email = mails[m].email}
    IN IF same = {} THEN 0 ELSE CHOOSE i \in same : \A j \in same : i <= j

\* The row of an event: by the provider's id, else the latest of the address.
RowFor(m, id) ==
    LET known == {i \in DOMAIN log : id # None /\ log[i].id = id}
        same == IF known # {} THEN known ELSE {i \in DOMAIN log : log[i].email = mails[m].email}
    IN IF same = {} THEN 0 ELSE CHOOSE i \in same : \A j \in same : i >= j

\* An event of mail m goes astray while the mail is not logged, or when a
\* later row of the address is there and the id does not lead to its own.
Strays(m, id) ==
    LET own == {i \in DOMAIN log : log[i].mail = m}
    IN \A i \in own :
          /\ id = None \/ log[i].id # id
          /\ \E j \in DOMAIN log : j > i /\ log[j].email = log[i].email

\* A row keeps the first id it is told.
Heard(x, id, status) == [x EXCEPT !.status = status, !.id = IF x.id = None THEN id ELSE x.id]

\* An event of mail m, with the provider's id or without; in any order.
DeliveryEvent(m, id, status) ==
    LET i == RowFor(m, id)
        known == IF i \in DOMAIN log /\ log[i].user # None THEN {log[i].user} ELSE ByEmail(mails[m].email)
    IN /\ mails' = [mails EXCEPT ![m].last = status]
       /\ log' = IF i = 0 THEN log
                 ELSE [log EXCEPT ![i] = Heard(log[i], id, status)]
       /\ users' = [u \in Users |-> IF u \in known THEN [users[u] EXCEPT !.mail = status] ELSE users[u]]
       /\ past' = IF Strays(m, id) THEN [past EXCEPT !.strayed = @ \cup {mails[m].email}] ELSE past
       /\ UNCHANGED <<firms, orgs, access, otp, used, req>>

-----------------------------------------------------------------------------
(* Companies are another part's: here they may only go.                    *)

RemoveCompany(o) ==
    /\ OrgExists(o)
    /\ orgs' = [orgs EXCEPT ![o] = [firm |-> Gone, active |-> FALSE]]
    /\ access' = {x \in access : x.org # o}
    /\ UNCHANGED <<users, firms, otp, log, mails, used, req, past>>

-----------------------------------------------------------------------------
Init ==
    /\ users = [u \in Users |-> None]
    /\ firms = {}
    /\ orgs \in [Orgs -> [firm : {None} \cup Firms, active : BOOLEAN]]
    /\ access = {}
    /\ otp = [e \in Emails |-> None]
    /\ log = <<>> /\ mails = <<>>
    /\ used = [token |-> 0, code |-> 0, row |-> 0]
    /\ req = [r \in Requests |-> Nothing]
    /\ past = [granted |-> [u \in Users |-> {}], crossed |-> {}, parked |-> {}, strayed |-> {}]

\* With access to everything no companies are named.
Choices == {<<"all", {}>>} \cup ({"selected"} \X SUBSET Orgs)

Ask(r) ==
    \/ \E e \in Emails :
          \/ StartRegister(r, e)
          \/ \E code \in 0..used.code : ReadOtp(r, e, code)
          \/ \E a \in Users, c \in Choices : StartInvite(r, a, e, c[1], c[2])
    \/ \E token \in 1..used.token : ReadInvite(r, token)
    \/ \E a, u \in Users :
          \/ StartResend(r, a, u)
          \/ StartDisable(r, a, u)
          \/ StartEnable(r, a, u)
          \/ StartRemove(r, a, u)
          \/ \E c \in Choices : StartAssign(r, a, u, c[1], c[2])

Serve(r) ==
    \/ Register(r)
    \/ CheckOtp(r)
    \/ RegisterVerified(r)
    \/ Invite(r)
    \/ Resend(r)
    \/ AcceptInvite(r)
    \/ SetUserCompanies(r)
    \/ Disable(r)
    \/ Enable(r)
    \/ Remove(r)
    \/ \E ok \in BOOLEAN : Send(r, ok)
    \/ RecordSend(r)
    \/ Aborts(r)

Outside ==
    \/ \E e \in Emails : RequestOtp(e) \/ OtpExpires(e)
    \/ \E u \in Users : InviteExpires(u)
    \/ \E m \in DOMAIN mails, status \in Reports :
          DeliveryEvent(m, m, status) \/ DeliveryEvent(m, None, status)
    \/ \E o \in Orgs : RemoveCompany(o)

Next == (\E r \in Requests : Ask(r) \/ Serve(r)) \/ Outside

Spec == Init /\ [][Next]_vars

-----------------------------------------------------------------------------
\* The shape of the tables: addresses are unique, every assignment is of a
\* user and a company that exist, and every invitation token is one person's.
TypeOK ==
    /\ \A e \in Emails : Cardinality(ByEmail(e)) <= 1
    /\ \A x \in access : Exists(x.user) /\ OrgExists(x.org)
    /\ \A u \in Users : Exists(u) =>
          /\ users[u].status \in {"invited", "active", "disabled"}
          /\ users[u].firm \in firms \cup {None}
          /\ \A v \in Users \ {u} : Exists(v) /\ users[u].invite = users[v].invite => users[u].invite = None

\* A disabled account becomes active again only when an admin enables it, or
\* when an acceptance of its invitation that began before the disabling
\* commits after it.
RevokedStaysOut ==
    [][ \A u \in Users :
          (Exists(u) /\ users[u].status = "disabled" /\ users'[u] # Gone /\ users'[u].status = "active") =>
             \E r \in Requests :
                /\ req[r].user = u /\ req'[r] = Nothing
                /\ \/ req[r].op = "enable"
                   \/ req[r].op = "accept" /\ req[r].row.status = "invited" ]_vars

\* An active account can sign in, unless it was disabled before its owner
\* ever chose a password: enabling it then skips the invitation, which is
\* what the check in enable_user is there to prevent.
OnlyParkedLackPassword ==
    \A u \in Users \ past.parked : Exists(u) /\ users[u].status = "active" => users[u].password

\* "Enabling would skip the invite flow": nobody is active without a password.
ActiveMeansPassword ==
    \A u \in Users : Exists(u) /\ users[u].status = "active" => users[u].password

\* Unless two assignments of one member overlapped, the member has exactly
\* what the last one named and still exists; and the guard of the routes of
\* one company admits exactly the active companies of the member's list.
AccessIsAsGranted ==
    \A u \in Users : Exists(u) =>
       /\ u \notin past.crossed /\ users[u].role # "admin" =>
             OrgsOf(u) = {o \in past.granted[u] : OrgExists(o)}
       /\ {o \in Orgs : MayEnter(u, o)} = {o \in AllowedCompanies(u) : orgs[o].active}

\* A row of the log says what the provider last said of its own mail, for
\* every address none of whose events went astray.
RowsFollowTheirMails ==
    \A i \in DOMAIN log :
       log[i].email \notin past.strayed =>
          log[i].status = IF log[i].mail = None THEN "failed" ELSE mails[log[i].mail].last

\* No firm is left without its admin: the two are created together or not at
\* all, however many sign-ups of one address race, and admins stay.
NoEmptyFirm ==
    \A f \in firms : \E u \in Users : Exists(u) /\ users[u].firm = f /\ users[u].role = "admin"
=============================================================================
