-------------------------- MODULE TeamAccessProofs --------------------------
(***************************************************************************)
(* Proofs about TeamAccess, for any users, addresses, firms, companies,    *)
(* reports and number of requests at the same time.                        *)
(***************************************************************************)
EXTENDS TeamAccess, FiniteSetTheorems, WellFoundedInduction, TLAPS

-----------------------------------------------------------------------------
(* The shape of the tables and of a request.                               *)

Ops == {"register", "verify", "invite", "resend", "accept", "assign", "disable", "enable", "remove"}
OnUser == {"resend", "accept", "assign", "disable", "enable", "remove"}
ByMail == {"register", "verify", "invite", "resend"}
Modes == {"all", "selected"}
Tidings == {None, "sent", "failed"} \cup Reports
Assignment == [id : Nat, user : Users, org : Orgs]
Code == [code : Nat, wrong : Nat]
LogRow == [user : Users \cup {None}, email : Emails, status : Tidings,
           id : Nat \cup {None}, mail : Nat \cup {None}]
Mail == [email : Emails, last : Tidings]
Request == [op : Ops \cup {None}, at : {"check", "commit", "send", "record", None},
            user : Users \cup {None}, email : Emails \cup {None}, firm : Firms \cup {None},
            row : Row \cup {None}, mode : Modes \cup {None}, orgs : SUBSET Orgs,
            rows : SUBSET Assignment, otp : Code \cup {None}, code : Nat \cup {None}]
Past == [granted : [Users -> SUBSET Orgs], crossed : SUBSET Users, parked : SUBSET Users,
         strayed : SUBSET Emails]

Tables ==
  /\ users \in [Users -> Row \cup {None, Gone}]
  /\ firms \subseteq Firms
  /\ access \subseteq Assignment
  /\ otp \in [Emails -> Code \cup {None}]
  /\ log \in Seq(LogRow)
  /\ mails \in Seq(Mail)
  /\ used \in [token : Nat, code : Nat, row : Nat]
  /\ req \in [Requests -> Request]
  /\ past \in Past

-----------------------------------------------------------------------------
(* The invariant.                                                          *)

\* What a request knows when it is at work.
WellFormed(q) ==
  /\ q.op \in ByMail => q.email \in Emails
  /\ q.op \in OnUser => q.user \in Users /\ q.row \in Row
  /\ q.op = "accept" => q.row.status = "invited"
  /\ q.op = "verify" => q.otp \in Code
  /\ q.op \in {"invite", "assign"} => q.mode \in Modes
  /\ q.op = "invite" /\ q.at \in {"send", "record"} => q.user \in Users

\* An id a request has read is never given to another user, and nobody is
\* about to enable a user who never chose a password, unless he was parked.
Informed(r) ==
  /\ WellFormed(req[r])
  /\ req[r].user \in Users => users[req[r].user] # None
  /\ req[r].op = "enable" /\ Exists(req[r].user) /\ ~ users[req[r].user].password =>
       req[r].user \in past.parked

\* Whoever has no password is invited, or was disabled before he accepted.
PasswordsOK ==
  \A u \in Users :
    Exists(u) /\ ~ users[u].password => users[u].status = "invited" \/ u \in past.parked

\* The log names users who exist.
LogOK ==
  \A i \in DOMAIN log : log[i].user = None \/ Exists(log[i].user)

TeamInv ==
  /\ Tables
  /\ \A r \in Requests : Informed(r)
  /\ PasswordsOK
  /\ LogOK

-----------------------------------------------------------------------------
(* Elementary facts.                                                       *)

LEMMA NothingIs ==
  /\ Nothing \in Request
  /\ WellFormed(Nothing)
  /\ Nothing.user = None /\ Nothing.op = None
  /\ None \notin Ops
  BY NoneAssumption, TeamAssumption
     DEF Nothing, Request, WellFormed, Ops, ByMail, OnUser, Assignment

LEMMA ExistsIsRow ==
  ASSUME Tables, NEW u \in Users
  PROVE  /\ Exists(u) <=> users[u] \in Row
         /\ users[u] \notin Row => users[u] \in {None, Gone}
  BY NoneAssumption DEF Tables, Exists

LEMMA LogRows ==
  ASSUME Tables, NEW i \in DOMAIN log
  PROVE  log[i] \in LogRow /\ log[i].user \in Users \cup {None}
  <1>1. log \in Seq(LogRow) /\ i \in 1 .. Len(log)
    BY DEF Tables
  <1>2. log[i] \in LogRow
    BY <1>1
  <1>3. QED BY <1>2 DEF LogRow

LEMMA InitHolds == Init => TeamInv
  <1> SUFFICES ASSUME Init PROVE TeamInv
    OBVIOUS
  <1>1. Tables
    BY NothingIs DEF Init, Tables, Assignment, Past
  <1>2. \A r \in Requests : Informed(r)
    BY NothingIs, TeamAssumption DEF Init, Informed, Ops
  <1>3. PasswordsOK /\ LogOK
    BY DEF Init, PasswordsOK, LogOK, Exists
  <1>4. QED BY <1>1, <1>2, <1>3 DEF TeamInv

\* No step takes an id back, brings a user back, or takes his password.
Grows ==
  /\ \A u \in Users :
       users[u] # None =>
         /\ users'[u] # None
         /\ Exists(u)' => Exists(u) /\ (users[u].password => users'[u].password)
  /\ past.parked \subseteq past.parked'

\* A request the step leaves alone stays informed.
LEMMA StaysInformed ==
  ASSUME TeamInv, Grows, NEW p \in Requests, req'[p] = req[p]
  PROVE  Informed(p)'
  <1>1. Informed(p)
    BY DEF TeamInv
  <1>2. req[p].user \in Users => users'[req[p].user] # None
    BY <1>1 DEF Informed, Grows
  <1>3. ASSUME req[p].op = "enable", users'[req[p].user] \notin {None, Gone},
               ~ users'[req[p].user].password
        PROVE  req[p].user \in past'.parked
    <2>1. req[p].user \in Users /\ users[req[p].user] # None
      BY <1>1, <1>3 DEF Informed, WellFormed, OnUser
    <2>2. Exists(req[p].user) /\ ~ users[req[p].user].password
      BY <1>3, <2>1 DEF Grows, Exists
    <2>3. QED BY <1>1, <1>3, <2>2 DEF Informed, Grows
  <1>4. WellFormed(req'[p])
    BY <1>1 DEF Informed
  <1>5. QED BY <1>2, <1>3, <1>4 DEF Informed, Exists, WellFormed

\* A step of one request keeps the invariant if it leaves the others alone
\* and the request informed.
LEMMA Step ==
  ASSUME TeamInv, Tables', Grows, NEW r \in Requests,
         \A p \in Requests : p # r => req'[p] = req[p],
         Informed(r)', PasswordsOK', LogOK'
  PROVE  TeamInv'
  <1>1. \A p \in Requests : Informed(p)'
    BY StaysInformed
  <1>2. QED BY <1>1 DEF TeamInv

\* A step of nobody's.
LEMMA OutsideStep ==
  ASSUME TeamInv, Tables', Grows, req' = req, PasswordsOK', LogOK'
  PROVE  TeamInv'
  <1>1. \A p \in Requests : Informed(p)'
    BY StaysInformed
  <1>2. QED BY <1>1 DEF TeamInv

\* A step that touches neither a user nor the log.
LEMMA QuietStep ==
  ASSUME TeamInv, Tables', UNCHANGED <<users, log>>, past'.parked = past.parked,
         NEW r \in Requests,
         \A p \in Requests : p # r => req'[p] = req[p],
         Informed(r)'
  PROVE  TeamInv'
  <1>1. Grows
    BY DEF Grows, Exists
  <1>2. PasswordsOK' /\ LogOK'
    BY DEF TeamInv, PasswordsOK, LogOK, Exists
  <1>3. QED BY <1>1, <1>2, Step

\* The request is over.
LEMMA EndsEffect ==
  ASSUME Tables, NEW r \in Requests, Ends(r)
  PROVE  /\ req' \in [Requests -> Request]
         /\ \A p \in Requests : p # r => req'[p] = req[p]
         /\ req'[r] = Nothing
         /\ Informed(r)'
  <1>1. /\ req' \in [Requests -> Request]
        /\ \A p \in Requests : p # r => req'[p] = req[p]
        /\ req'[r] = Nothing
    BY NothingIs DEF Ends, Tables
  <1>2. Informed(r)'
    BY <1>1, NothingIs, TeamAssumption DEF Informed, Ops
  <1>3. QED BY <1>1, <1>2

LEMMA FailsKeeps ==
  ASSUME TeamInv, NEW r \in Requests, Fails(r)
  PROVE  TeamInv'
  <1>1. Tables /\ Ends(r) /\ UNCHANGED <<users, firms, orgs, access, otp, log, mails, used, past>>
    BY DEF Fails, TeamInv
  <1>2. Tables'
    BY <1>1, EndsEffect DEF Tables
  <1>3. QED BY <1>1, <1>2, EndsEffect, QuietStep

-----------------------------------------------------------------------------
(* Requests begin.                                                         *)

LEMMA BeginKeeps ==
  ASSUME TeamInv, NEW r \in Requests, NEW q \in Request, Begin(r, q), WellFormed(q),
         q.user \in Users => users[q.user] # None,
         q.op = "enable" /\ Exists(q.user) /\ ~ users[q.user].password => q.user \in past.parked
  PROVE  TeamInv'
  <1>1. Tables
    BY DEF TeamInv
  <1>2. /\ req' \in [Requests -> Request]
        /\ req'[r] = q
        /\ \A p \in Requests : p # r => req'[p] = req[p]
        /\ UNCHANGED <<users, firms, orgs, access, otp, log, mails, used, past>>
    BY <1>1 DEF Begin, Tables
  <1>3. Tables'
    BY <1>1, <1>2 DEF Tables
  <1>4. Informed(r)'
    BY <1>2 DEF Informed, Exists
  <1>5. QED BY <1>2, <1>3, <1>4, QuietStep

\* What is read of a user who exists.
LEMMA LoadedIs ==
  ASSUME Tables, NEW u \in Users, Exists(u), NEW op \in OnUser
  PROVE  /\ Loaded(op, u) \in Request
         /\ Loaded(op, u).op = op /\ Loaded(op, u).user = u /\ Loaded(op, u).row = users[u]
         /\ users[u] \in Row /\ users[u] # None
  <1>1. users[u] \in Row /\ users[u] # None
    BY ExistsIsRow DEF Exists
  <1>2. QED BY ZenonT(40), <1>1, NothingIs DEF Loaded, Nothing, Request, OnUser, Ops

LEMMA AskSignUp ==
  ASSUME TeamInv, NEW r \in Requests, NEW e \in Emails,
         \/ StartRegister(r, e)
         \/ \E code \in 0 .. used.code : ReadOtp(r, e, code)
         \/ \E a \in Users, c \in Choices : StartInvite(r, a, e, c[1], c[2])
  PROVE  TeamInv'
  <1>1. Tables
    BY DEF TeamInv
  <1>2. CASE StartRegister(r, e)
    <2> DEFINE q == [Nothing EXCEPT !.op = "register", !.at = "commit", !.email = e]
    <2>1. Begin(r, q)
      BY <1>2 DEF StartRegister
    <2>2. q \in Request /\ q.user = None /\ q.op = "register" /\ q.email \in Emails
      BY NothingIs DEF Nothing, Request, Ops
    <2>3. WellFormed(q)
      BY <2>2 DEF WellFormed, OnUser
    <2> HIDE DEF q
    <2>4. QED BY <2>1, <2>2, <2>3, TeamAssumption, BeginKeeps
  <1>3. CASE \E code \in 0 .. used.code : ReadOtp(r, e, code)
    <2>1. PICK code \in 0 .. used.code : ReadOtp(r, e, code)
      BY <1>3
    <2> DEFINE q == [Nothing EXCEPT !.op = "verify", !.at = "check", !.email = e,
                                    !.otp = otp[e], !.code = code]
    <2>2. Begin(r, q) /\ otp[e] # None
      BY <2>1 DEF ReadOtp
    <2>3. otp[e] \in Code /\ code \in Nat
      BY <1>1, <2>2 DEF Tables
    <2>4. /\ q \in Request /\ q.user = None /\ q.op = "verify"
          /\ q.email \in Emails /\ q.otp \in Code
      BY <2>3, NothingIs DEF Nothing, Request, Ops
    <2>5. WellFormed(q)
      BY <2>4 DEF WellFormed, OnUser
    <2> HIDE DEF q
    <2>6. QED BY <2>2, <2>4, <2>5, TeamAssumption, BeginKeeps
  <1>4. CASE \E a \in Users, c \in Choices : StartInvite(r, a, e, c[1], c[2])
    <2>1. PICK a \in Users, c \in Choices : StartInvite(r, a, e, c[1], c[2])
      BY <1>4
    <2> DEFINE q == [Nothing EXCEPT !.op = "invite", !.at = "commit", !.email = e,
                                    !.firm = users[a].firm, !.mode = c[1], !.orgs = c[2]]
    <2>2. Begin(r, q) /\ Exists(a)
      BY <2>1 DEF StartInvite, Admin, SignedIn
    <2>3. users[a].firm \in Firms \cup {None}
      BY <1>1, <2>2, ExistsIsRow DEF Row
    <2>4. c[1] \in Modes /\ c[2] \in SUBSET Orgs
      BY DEF Choices, Modes
    <2>5. /\ q \in Request /\ q.user = None /\ q.op = "invite" /\ q.at = "commit"
          /\ q.email \in Emails /\ q.mode \in Modes
      BY <2>3, <2>4, NothingIs DEF Nothing, Request, Ops
    <2>6. WellFormed(q)
      BY <2>5 DEF WellFormed, OnUser
    <2> HIDE DEF q
    <2>7. QED BY <2>2, <2>5, <2>6, TeamAssumption, BeginKeeps
  <1>5. QED BY <1>2, <1>3, <1>4

\* A request on a user who exists, that knows what it has to.
LEMMA AskUser ==
  ASSUME TeamInv, NEW r \in Requests, NEW u \in Users, Exists(u), NEW op \in OnUser,
         Begin(r, Loaded(op, u)),
         op \notin ByMail /\ op # "assign",
         op = "accept" => users[u].status = "invited",
         op = "enable" => users[u].status # "invited"
  PROVE  TeamInv'
  <1>1. Tables
    BY DEF TeamInv
  <1> DEFINE q == Loaded(op, u)
  <1>2. /\ q \in Request
        /\ q.op = op /\ q.user = u /\ q.row = users[u]
        /\ users[u] \in Row /\ users[u] # None
    BY <1>1, LoadedIs
  <1> HIDE DEF q
  <1>3. WellFormed(q)
    BY <1>2 DEF WellFormed, OnUser, ByMail
  <1>4. op = "enable" /\ ~ users[u].password => u \in past.parked
    BY DEF TeamInv, PasswordsOK
  <1>5. Begin(r, q)
    BY DEF q
  <1>6. QED BY <1>2, <1>3, <1>4, <1>5, BeginKeeps

LEMMA AskManage ==
  ASSUME TeamInv, NEW r \in Requests, NEW a \in Users, NEW u \in Users,
         \/ StartResend(r, a, u)
         \/ StartDisable(r, a, u)
         \/ StartEnable(r, a, u)
         \/ StartRemove(r, a, u)
         \/ \E c \in Choices : StartAssign(r, a, u, c[1], c[2])
  PROVE  TeamInv'
  <1>1. Tables
    BY DEF TeamInv
  <1>2. Exists(u)
    BY DEF StartResend, StartDisable, StartEnable, StartRemove, StartAssign, Manages
  <1>3. users[u] \in Row /\ users[u] # None
    BY <1>1, <1>2, ExistsIsRow DEF Exists
  <1>4. CASE StartDisable(r, a, u)
    BY <1>2, <1>4, AskUser DEF StartDisable, OnUser, ByMail
  <1>5. CASE StartEnable(r, a, u)
    BY <1>2, <1>5, AskUser DEF StartEnable, OnUser, ByMail
  <1>6. CASE StartRemove(r, a, u)
    BY <1>2, <1>6, AskUser DEF StartRemove, OnUser, ByMail
  <1>7. CASE StartResend(r, a, u)
    <2> DEFINE q == [Loaded("resend", u) EXCEPT !.email = users[u].email]
    <2>1. Begin(r, q)
      BY <1>7 DEF StartResend
    <2>2. users[u].email \in Emails
      BY <1>3 DEF Row
    <2>3. /\ q \in Request /\ q.op = "resend" /\ q.user = u /\ q.row = users[u]
          /\ q.email \in Emails
      BY <1>1, <1>2, <2>2, LoadedIs DEF OnUser, Request
    <2> HIDE DEF q
    <2>4. WellFormed(q)
      BY <1>3, <2>3 DEF WellFormed
    <2>5. QED BY <1>3, <2>1, <2>3, <2>4, BeginKeeps
  <1>8. CASE \E c \in Choices : StartAssign(r, a, u, c[1], c[2])
    <2>1. PICK c \in Choices : StartAssign(r, a, u, c[1], c[2])
      BY <1>8
    <2> DEFINE p == Loaded("assign", u)
               q == [p EXCEPT !.mode = c[1], !.orgs = c[2], !.rows = RowsOf(u)]
    <2>2. Begin(r, q)
      BY <2>1 DEF StartAssign
    <2>3. c[1] \in Modes /\ c[2] \in SUBSET Orgs
      BY DEF Choices, Modes
    <2>4. RowsOf(u) \in SUBSET Assignment
      BY <1>1 DEF Tables, RowsOf
    <2>5. /\ q \in Request /\ q.op = "assign" /\ q.user = u /\ q.row = users[u]
          /\ q.mode \in Modes
      <3>1. p \in Request /\ p.op = "assign" /\ p.user = u /\ p.row = users[u]
        BY <1>1, <1>2, LoadedIs DEF OnUser
      <3> HIDE DEF p
      <3>2. QED BY ZenonT(40), <2>3, <2>4, <3>1 DEF Request
    <2> HIDE DEF q
    <2>6. WellFormed(q)
      BY <1>3, <2>5 DEF WellFormed, ByMail
    <2>7. QED BY <1>3, <2>2, <2>5, <2>6, BeginKeeps
  <1>9. QED BY <1>4, <1>5, <1>6, <1>7, <1>8

LEMMA AskKeeps ==
  ASSUME TeamInv, NEW r \in Requests, Ask(r)
  PROVE  TeamInv'
  <1>1. CASE \E token \in 1 .. used.token : ReadInvite(r, token)
    <2>1. PICK token \in 1 .. used.token : ReadInvite(r, token)
      BY <1>1
    <2>2. PICK u \in Users :
            Exists(u) /\ users[u].status = "invited" /\ Begin(r, Loaded("accept", u))
      BY <2>1 DEF ReadInvite
    <2>3. QED BY <2>2, AskUser DEF OnUser, ByMail
  <1>2. QED BY <1>1, AskSignUp, AskManage DEF Ask

-----------------------------------------------------------------------------
(* Signing up.                                                             *)

LEMMA FreshIs ==
  /\ \A u \in FreshUser : u \in Users /\ users[u] = None
  /\ \A f \in FreshFirm : f \in Firms
  BY DEF FreshUser, FreshFirm

LEMMA AccountIs ==
  ASSUME NEW f \in Firms \cup {None}, NEW e \in Emails, NEW mode \in Modes
  PROVE  /\ Account(f, e, "admin", "active", mode, TRUE, None) \in Row
         /\ Account(f, e, "admin", "active", mode, TRUE, None).password
         /\ \A n \in Nat : /\ Account(f, e, "team_member", "invited", mode, FALSE, n) \in Row
                           /\ Account(f, e, "team_member", "invited", mode, FALSE, n).status = "invited"
  BY DEF Account, Row, Modes

\* A user is created, who has a password or is invited.
LEMMA NewUser ==
  ASSUME TeamInv, NEW u \in Users, users[u] = None, NEW row \in Row,
         users' = [users EXCEPT ![u] = row], row.password \/ row.status = "invited",
         log' = log, past'.parked = past.parked
  PROVE  Grows /\ PasswordsOK' /\ LogOK' /\ users' \in [Users -> Row \cup {None, Gone}]
  <1>1. Tables
    BY DEF TeamInv
  <1>2. /\ users'[u] = row
        /\ \A v \in Users : v # u => users'[v] = users[v]
        /\ users' \in [Users -> Row \cup {None, Gone}]
    BY <1>1 DEF Tables
  <1>3. Grows
    BY <1>2 DEF Grows, Exists
  <1>4. PasswordsOK'
    BY <1>2 DEF PasswordsOK, TeamInv, Exists
  <1>5. LogOK'
    <2> SUFFICES ASSUME NEW i \in DOMAIN log, log[i].user # None
                 PROVE  users'[log[i].user] \notin {None, Gone}
      BY DEF LogOK, Exists
    <2>1. log[i].user \in Users
      BY <1>1, LogRows
    <2>2. users[log[i].user] \notin {None, Gone}
      BY DEF TeamInv, LogOK, Exists
    <2>3. QED BY <1>2, <2>1, <2>2
  <1>6. QED BY <1>2, <1>3, <1>4, <1>5

LEMMA SaveFirmKeeps ==
  ASSUME TeamInv, NEW r \in Requests, NEW Done,
         SaveFirm(r, Done), Done => otp' \in [Emails -> Code \cup {None}],
         req[r].email \in Emails
  PROVE  TeamInv'
  <1>1. Tables
    BY DEF TeamInv
  <1>2. CASE ByEmail(req[r].email) # {}
    BY <1>2, FailsKeeps DEF SaveFirm
  <1>3. CASE ByEmail(req[r].email) = {}
    <2>1. /\ CreateFirmAndAdmin(req[r].email) /\ Done /\ Ends(r)
          /\ UNCHANGED <<orgs, access, log, mails, used, past>>
      BY <1>3 DEF SaveFirm
    <2>2. PICK u \in FreshUser, f \in FreshFirm :
            /\ firms' = firms \cup {f}
            /\ users' = [users EXCEPT ![u] =
                           Account(f, req[r].email, "admin", "active", "all", TRUE, None)]
      BY <2>1 DEF CreateFirmAndAdmin
    <2>3. u \in Users /\ users[u] = None /\ f \in Firms
      BY FreshIs
    <2>4. Grows /\ PasswordsOK' /\ LogOK' /\ users' \in [Users -> Row \cup {None, Gone}]
      BY <2>1, <2>2, <2>3, AccountIs, NewUser DEF Modes
    <2>5. Tables'
      BY <1>1, <2>1, <2>2, <2>3, <2>4, EndsEffect DEF Tables
    <2>6. QED BY <1>1, <2>1, <2>4, <2>5, EndsEffect, Step
  <1>4. QED BY <1>2, <1>3

LEMMA SignUpKeeps ==
  ASSUME TeamInv, NEW r \in Requests, Register(r) \/ CheckOtp(r) \/ RegisterVerified(r)
  PROVE  TeamInv'
  <1>1. Tables /\ WellFormed(req[r]) /\ req[r] \in Request
    BY DEF TeamInv, Informed, Tables
  <1>2. CASE Register(r)
    <2>1. SaveFirm(r, otp' = otp) /\ req[r].email \in Emails
      BY <1>1, <1>2 DEF Register, At, WellFormed, ByMail
    <2>2. otp' = otp => otp' \in [Emails -> Code \cup {None}]
      BY <1>1 DEF Tables
    <2>3. QED BY <2>1, <2>2, SaveFirmKeeps
  <1>3. CASE RegisterVerified(r)
    <2>1. /\ SaveFirm(r, otp' = [otp EXCEPT ![req[r].email] = None])
          /\ req[r].email \in Emails
      BY <1>1, <1>3 DEF RegisterVerified, At, WellFormed, ByMail
    <2>2. otp' = [otp EXCEPT ![req[r].email] = None] => otp' \in [Emails -> Code \cup {None}]
      BY <1>1 DEF Tables
    <2>3. QED BY <2>1, <2>2, SaveFirmKeeps
  <1>4. CASE CheckOtp(r)
    <2> DEFINE q == req[r]
    <2>1. /\ q.op = "verify" /\ q.otp \in Code /\ q.email \in Emails
          /\ UNCHANGED <<users, firms, orgs, access, log, mails, used, past>>
      BY <1>1, <1>4 DEF CheckOtp, At, WellFormed, ByMail
    <2>2. CASE req' = [req EXCEPT ![r].at = "commit"] /\ otp' = otp
      <3> DEFINE p == [q EXCEPT !.at = "commit"]
      <3>1. p \in Request /\ p.op = "verify" /\ p.otp \in Code /\ p.email \in Emails
            /\ p.user = q.user
        BY <1>1, <2>1 DEF Request
      <3>2. WellFormed(p)
        BY <3>1 DEF WellFormed, OnUser
      <3>3. /\ req' \in [Requests -> Request] /\ req'[r] = p
            /\ \A x \in Requests : x # r => req'[x] = req[x]
        BY <1>1, <2>2, <3>1 DEF Tables
      <3> HIDE DEF p
      <3>4. Informed(r)'
        BY <2>1, <3>1, <3>2, <3>3 DEF Informed, TeamInv
      <3>5. Tables'
        BY <1>1, <2>1, <2>2, <3>3 DEF Tables
      <3>6. QED BY <2>1, <3>3, <3>4, <3>5, QuietStep
    <2>3. CASE Ends(r) /\ \E c \in Code \cup {None} : otp' = [otp EXCEPT ![q.email] = c]
      <3>1. otp' \in [Emails -> Code \cup {None}]
        BY <1>1, <2>1, <2>3 DEF Tables
      <3>2. Tables'
        BY <1>1, <2>1, <2>3, <3>1, EndsEffect DEF Tables
      <3>3. QED BY <1>1, <2>1, <2>3, <3>2, EndsEffect, QuietStep
    <2>4. [q.otp EXCEPT !.wrong = @ + 1] \in Code
      BY <2>1 DEF Code
    <2>5. QED BY <1>4, <2>2, <2>3, <2>4 DEF CheckOtp
  <1>5. QED BY <1>2, <1>3, <1>4

-----------------------------------------------------------------------------
(* Invitations.                                                            *)

\* The row of a user who exists changes; he keeps his password, and without
\* one he is invited or parked.
LEMMA UpdateUser ==
  ASSUME TeamInv, NEW u \in Users, Exists(u), NEW row \in Row,
         users' = [users EXCEPT ![u] = row],
         users[u].password => row.password,
         past.parked \subseteq past'.parked,
         ~ row.password => row.status = "invited" \/ u \in past'.parked,
         log' = log
  PROVE  Grows /\ PasswordsOK' /\ LogOK' /\ users' \in [Users -> Row \cup {None, Gone}]
  <1>1. Tables
    BY DEF TeamInv
  <1>2. /\ users'[u] = row
        /\ \A v \in Users : v # u => users'[v] = users[v]
        /\ users' \in [Users -> Row \cup {None, Gone}]
    BY <1>1 DEF Tables
  <1>3. row \notin {None, Gone}
    BY NoneAssumption
  <1>4. Grows
    BY <1>2, <1>3 DEF Grows, Exists
  <1>5. PasswordsOK'
    BY <1>2 DEF PasswordsOK, TeamInv, Exists
  <1>6. LogOK'
    <2> SUFFICES ASSUME NEW i \in DOMAIN log, log[i].user # None
                 PROVE  users'[log[i].user] \notin {None, Gone}
      BY DEF LogOK, Exists
    <2>1. log[i].user \in Users
      BY <1>1, LogRows
    <2>2. users[log[i].user] \notin {None, Gone}
      BY DEF TeamInv, LogOK, Exists
    <2>3. QED BY <1>2, <1>3, <2>1, <2>2
  <1>7. QED BY <1>2, <1>4, <1>5, <1>6

LEMMA NewRowsIs ==
  ASSUME Tables, NEW u \in Users, NEW chosen \in SUBSET Orgs
  PROVE  NewRows(u, chosen) \subseteq Assignment
  BY DEF NewRows, Assignment, Tables

\* A request goes on to its next step.
LEMMA GoesOn ==
  ASSUME Tables, NEW r \in Requests, NEW q \in Request, req' = [req EXCEPT ![r] = q]
  PROVE  /\ req' \in [Requests -> Request]
         /\ req'[r] = q
         /\ \A p \in Requests : p # r => req'[p] = req[p]
  BY DEF Tables

LEMMA InviteKeeps ==
  ASSUME TeamInv, NEW r \in Requests, Invite(r)
  PROVE  TeamInv'
  <1> DEFINE q == req[r]
  <1>1. Tables /\ WellFormed(q) /\ q \in Request
    BY DEF TeamInv, Informed, Tables
  <1>2. /\ q.op = "invite" /\ q.email \in Emails /\ q.mode \in Modes
        /\ q.firm \in Firms \cup {None} /\ q.orgs \in SUBSET Orgs
    BY <1>1 DEF Invite, At, WellFormed, ByMail, Request
  <1>3. CASE Fails(r)
    BY <1>3, FailsKeeps
  <1>4. CASE ~ Fails(r)
    <2>1. PICK u \in FreshUser :
            /\ users' = [users EXCEPT ![u] = Account(q.firm, q.email, "team_member", "invited", q.mode,
                                                     FALSE, used.token + 1)]
            /\ access' = access \cup NewRows(u, q.orgs)
            /\ past' = [past EXCEPT !.granted[u] = q.orgs]
            /\ req' = [req EXCEPT ![r].at = "send", ![r].user = u]
            /\ used' = [used EXCEPT !.token = @ + 1, !.row = @ + 1]
            /\ UNCHANGED <<firms, orgs, otp, log, mails>>
      BY <1>4 DEF Invite
    <2>2. u \in Users /\ users[u] = None
      BY FreshIs
    <2>3. used.token + 1 \in Nat /\ used' \in [token : Nat, code : Nat, row : Nat]
      <3>1. used \in [token : Nat, code : Nat, row : Nat]
        BY <1>1 DEF Tables
      <3>2. used.token + 1 \in Nat /\ used.row + 1 \in Nat
        BY <3>1
      <3>3. QED BY <2>1, <3>1, <3>2
    <2>4. past' \in Past /\ past'.parked = past.parked
      <3>1. past \in Past
        BY <1>1 DEF Tables
      <3> DEFINE granted == [past.granted EXCEPT ![u] = q.orgs]
      <3>2. past' = [past EXCEPT !.granted = granted]
        BY <2>1
      <3>3. granted \in [Users -> SUBSET Orgs]
        BY <1>2, <3>1 DEF Past
      <3> HIDE DEF granted
      <3>4. QED BY <3>1, <3>2, <3>3 DEF Past
    <2>5. /\ Account(q.firm, q.email, "team_member", "invited", q.mode, FALSE, used.token + 1) \in Row
          /\ Account(q.firm, q.email, "team_member", "invited", q.mode, FALSE, used.token + 1).status
               = "invited"
      <3> DEFINE n == used.token + 1
      <3>1. n \in Nat
        BY <2>3
      <3> HIDE DEF n
      <3>2. /\ Account(q.firm, q.email, "team_member", "invited", q.mode, FALSE, n) \in Row
            /\ Account(q.firm, q.email, "team_member", "invited", q.mode, FALSE, n).status = "invited"
        BY <1>2, <3>1, AccountIs
      <3>3. QED BY <3>2 DEF n
    <2>6. /\ Grows /\ PasswordsOK' /\ LogOK' /\ users' \in [Users -> Row \cup {None, Gone}]
          /\ users'[u] \in Row
      BY <1>1, <2>1, <2>2, <2>4, <2>5, NewUser DEF Tables
    <2> DEFINE p == [q EXCEPT !.at = "send", !.user = u]
    <2>7. /\ p \in Request /\ p.op = "invite" /\ p.user = u
          /\ p.email \in Emails /\ p.mode \in Modes
      BY ZenonT(40), <1>1, <1>2, <2>2 DEF Request
    <2>8. req' = [req EXCEPT ![r] = p]
      BY <1>1, <2>1 DEF Tables, Request
    <2> HIDE DEF p
    <2>9. /\ req' \in [Requests -> Request] /\ req'[r] = p
          /\ \A x \in Requests : x # r => req'[x] = req[x]
      BY <1>1, <2>7, <2>8, GoesOn
    <2>10. WellFormed(p)
      BY <2>2, <2>7 DEF WellFormed, OnUser
    <2>11. Informed(r)'
      BY <2>6, <2>7, <2>9, <2>10, NoneAssumption DEF Informed
    <2>12. access' \subseteq Assignment
      BY <1>1, <1>2, <2>1, <2>2, NewRowsIs DEF Tables
    <2>13. Tables'
      BY <1>1, <2>1, <2>3, <2>4, <2>6, <2>9, <2>12 DEF Tables
    <2>14. QED BY <2>6, <2>9, <2>11, <2>13, Step
  <1>5. QED BY <1>3, <1>4

LEMMA ResendKeeps ==
  ASSUME TeamInv, NEW r \in Requests, Resend(r)
  PROVE  TeamInv'
  <1> DEFINE q == req[r]
             u == req[r].user
  <1>1. Tables /\ Informed(r) /\ WellFormed(q) /\ q \in Request
    BY DEF TeamInv, Informed, Tables
  <1>2. q.op = "resend" /\ u \in Users /\ q.row \in Row /\ q.email \in Emails
    BY <1>1 DEF Resend, At, WellFormed, OnUser, ByMail
  <1>3. CASE Fails(r)
    BY <1>3, FailsKeeps
  <1>4. CASE ~ Fails(r)
    <2>1. /\ Exists(u)
          /\ users' = [users EXCEPT ![u] = [@ EXCEPT !.invite = used.token + 1, !.expired = FALSE]]
          /\ used' = [used EXCEPT !.token = @ + 1]
          /\ req' = [req EXCEPT ![r].at = "send"]
          /\ UNCHANGED <<firms, orgs, access, otp, log, mails, past>>
      BY <1>4 DEF Resend
    <2>2. users[u] \in Row
      BY <1>1, <1>2, <2>1, ExistsIsRow
    <2>3. used.token + 1 \in Nat /\ used' \in [token : Nat, code : Nat, row : Nat]
      BY SMTT(30), <1>1, <2>1 DEF Tables
    <2> DEFINE row == [users[u] EXCEPT !.invite = used.token + 1, !.expired = FALSE]
    <2>4. row \in Row /\ row.password = users[u].password /\ row.status = users[u].status
      BY <2>2, <2>3 DEF Row
    <2>5. users' = [users EXCEPT ![u] = row]
      BY <1>1, <1>2, <2>1, <2>2 DEF Tables, Row
    <2>6. ~ row.password => row.status = "invited" \/ u \in past'.parked
      BY <1>2, <2>1, <2>4 DEF TeamInv, PasswordsOK
    <2> HIDE DEF row
    <2>7. Grows /\ PasswordsOK' /\ LogOK' /\ users' \in [Users -> Row \cup {None, Gone}]
      BY <1>2, <2>1, <2>4, <2>5, <2>6, UpdateUser
    <2> DEFINE p == [q EXCEPT !.at = "send"]
    <2>8. /\ p \in Request /\ p.op = "resend" /\ p.user = u
          /\ p.email \in Emails /\ p.row \in Row
      BY <1>1, <1>2 DEF Request
    <2>9. req' = [req EXCEPT ![r] = p]
      BY <1>1, <2>1 DEF Tables, Request
    <2> HIDE DEF p
    <2>10. /\ req' \in [Requests -> Request] /\ req'[r] = p
          /\ \A x \in Requests : x # r => req'[x] = req[x]
      BY <1>1, <2>8, <2>9, GoesOn
    <2>11. WellFormed(p)
      BY <1>2, <2>8 DEF WellFormed
    <2>12. users'[u] # None
      BY <1>2, <2>1, <2>7 DEF Grows, Exists
    <2>13. Informed(r)'
      BY <2>8, <2>10, <2>11, <2>12 DEF Informed
    <2>14. Tables'
      BY <1>1, <2>1, <2>3, <2>7, <2>10 DEF Tables
    <2>15. QED BY <2>7, <2>10, <2>13, <2>14, Step
  <1>5. QED BY <1>3, <1>4

\* A request changes one user and is over.
LEMMA LastStep ==
  ASSUME TeamInv, NEW r \in Requests, Ends(r),
         Grows, PasswordsOK', LogOK',
         users' \in [Users -> Row \cup {None, Gone}],
         past' \in Past, used' = used,
         UNCHANGED <<firms, access, otp, log, mails>>
  PROVE  TeamInv'
  <1>1. Tables
    BY DEF TeamInv
  <1>2. Tables'
    BY <1>1, EndsEffect DEF Tables
  <1>3. QED BY <1>1, <1>2, EndsEffect, Step

LEMMA AcceptKeeps ==
  ASSUME TeamInv, NEW r \in Requests, AcceptInvite(r)
  PROVE  TeamInv'
  <1> DEFINE u == req[r].user
  <1>1. Tables /\ WellFormed(req[r])
    BY DEF TeamInv, Informed
  <1>2. u \in Users
    BY <1>1 DEF AcceptInvite, At, WellFormed, OnUser
  <1>3. CASE Fails(r)
    BY <1>3, FailsKeeps
  <1>4. CASE ~ Fails(r)
    <2>1. /\ Exists(u)
          /\ users' = [users EXCEPT ![u] = [@ EXCEPT !.password = TRUE, !.status = "active",
                                                          !.invite = None, !.expired = FALSE]]
          /\ Ends(r)
          /\ UNCHANGED <<firms, orgs, access, otp, log, mails, used, past>>
      BY <1>4 DEF AcceptInvite
    <2>2. users[u] \in Row
      BY <1>1, <1>2, <2>1, ExistsIsRow
    <2> DEFINE row == [users[u] EXCEPT !.password = TRUE, !.status = "active",
                                       !.invite = None, !.expired = FALSE]
    <2>3. row \in Row /\ row.password
      BY <2>2 DEF Row
    <2>4. users' = [users EXCEPT ![u] = row]
      BY <1>1, <1>2, <2>1, <2>2 DEF Tables, Row
    <2> HIDE DEF row
    <2>5. Grows /\ PasswordsOK' /\ LogOK' /\ users' \in [Users -> Row \cup {None, Gone}]
      BY <1>2, <2>1, <2>3, <2>4, UpdateUser
    <2>6. past' \in Past
      BY <1>1, <2>1 DEF Tables
    <2>7. QED BY <2>1, <2>5, <2>6, LastStep
  <1>5. QED BY <1>3, <1>4

LEMMA ExpiresKeeps ==
  ASSUME TeamInv, NEW u \in Users, InviteExpires(u)
  PROVE  TeamInv'
  <1>1. Tables
    BY DEF TeamInv
  <1>2. /\ Exists(u) /\ users' = [users EXCEPT ![u].expired = TRUE]
        /\ UNCHANGED <<firms, orgs, access, otp, log, mails, used, req, past>>
    BY DEF InviteExpires
  <1>3. users[u] \in Row
    BY <1>1, <1>2, ExistsIsRow
  <1> DEFINE row == [users[u] EXCEPT !.expired = TRUE]
  <1>4. row \in Row /\ row.password = users[u].password /\ row.status = users[u].status
    BY <1>3 DEF Row
  <1>5. users' = [users EXCEPT ![u] = row]
    BY <1>1, <1>2 DEF Tables
  <1>6. ~ row.password => row.status = "invited" \/ u \in past'.parked
    BY <1>2, <1>4 DEF TeamInv, PasswordsOK
  <1> HIDE DEF row
  <1>7. Grows /\ PasswordsOK' /\ LogOK' /\ users' \in [Users -> Row \cup {None, Gone}]
    BY <1>2, <1>4, <1>5, <1>6, UpdateUser
  <1>8. Tables'
    BY <1>1, <1>2, <1>7 DEF Tables
  <1>9. QED BY <1>2, <1>7, <1>8, OutsideStep

-----------------------------------------------------------------------------
(* Managing a user.                                                        *)

LEMMA AssignKeeps ==
  ASSUME TeamInv, NEW r \in Requests, SetUserCompanies(r)
  PROVE  TeamInv'
  <1> DEFINE q == req[r]
             u == req[r].user
  <1>1. Tables /\ WellFormed(q) /\ q \in Request
    BY DEF TeamInv, Informed, Tables
  <1>2. /\ q.op = "assign" /\ u \in Users /\ q.row \in Row /\ q.mode \in Modes
        /\ q.orgs \in SUBSET Orgs
    BY <1>1 DEF SetUserCompanies, At, WellFormed, OnUser, Request
  <1>3. CASE Fails(r)
    BY <1>3, FailsKeeps
  <1>4. CASE ~ Fails(r)
    <2>1. /\ q.mode # q.row.mode => Exists(u)
          /\ access' = Replaced(r)
          /\ users' = IF q.mode # q.row.mode THEN [users EXCEPT ![u].mode = q.mode] ELSE users
          /\ used' = [used EXCEPT !.row = @ + 1]
          /\ Ends(r)
          /\ UNCHANGED <<firms, orgs, otp, log, mails>>
      BY <1>4 DEF SetUserCompanies
    <2>2. past' = [past EXCEPT
                     !.granted[u] = q.orgs,
                     !.crossed = @ \cup {u : s \in {x \in Requests \ {r} :
                                                    At(x, "assign", "commit") /\ req[x].user = u}}]
      BY <1>4 DEF SetUserCompanies
    <2>3. past' \in Past /\ past'.parked = past.parked
      BY <1>1, <1>2, <2>2 DEF Tables, Past
    <2>4. Grows /\ PasswordsOK' /\ LogOK' /\ users' \in [Users -> Row \cup {None, Gone}]
      <3>1. CASE q.mode = q.row.mode
        BY <1>1, <2>1, <2>3, <3>1
           DEF Grows, PasswordsOK, LogOK, Exists, TeamInv, Tables
      <3>2. CASE q.mode # q.row.mode
        <4>1. Exists(u) /\ users[u] \in Row
          BY <1>1, <1>2, <2>1, <3>2, ExistsIsRow
        <4> DEFINE row == [users[u] EXCEPT !.mode = q.mode]
        <4>2. row \in Row /\ row.password = users[u].password /\ row.status = users[u].status
          BY <1>2, <4>1 DEF Row, Modes
        <4>3. users' = [users EXCEPT ![u] = row]
          BY <1>1, <2>1, <3>2 DEF Tables
        <4>4. ~ row.password => row.status = "invited" \/ u \in past'.parked
          BY <1>2, <2>3, <4>1, <4>2 DEF TeamInv, PasswordsOK
        <4> HIDE DEF row
        <4>5. QED BY <1>2, <2>1, <2>3, <4>1, <4>2, <4>3, <4>4, UpdateUser
      <3>3. QED BY <3>1, <3>2
    <2>5. access' \subseteq Assignment
      BY <1>1, <1>2, <2>1, NewRowsIs DEF Replaced, Tables
    <2>6. used' \in [token : Nat, code : Nat, row : Nat]
      BY <1>1, <2>1 DEF Tables
    <2>7. Tables'
      BY <1>1, <2>1, <2>3, <2>4, <2>5, <2>6, EndsEffect DEF Tables
    <2>8. QED BY <1>1, <2>1, <2>4, <2>7, EndsEffect, Step
  <1>5. QED BY <1>3, <1>4

LEMMA StatusKeeps ==
  ASSUME TeamInv, NEW r \in Requests, Disable(r) \/ Enable(r)
  PROVE  TeamInv'
  <1> DEFINE u == req[r].user
  <1>1. Tables /\ WellFormed(req[r]) /\ Informed(r)
    BY DEF TeamInv, Informed
  <1>2. PICK op \in {"disable", "enable"}, status \in {"active", "disabled"} :
          /\ SetStatus(r, op, status)
          /\ op = "disable" <=> status = "disabled"
    BY DEF Disable, Enable
  <1>3. req[r].op = op /\ u \in Users
    BY <1>1, <1>2 DEF SetStatus, At, WellFormed, OnUser
  <1>4. CASE Fails(r)
    BY <1>4, FailsKeeps
  <1>5. CASE ~ Fails(r)
    <2>1. /\ Exists(u)
          /\ users' = [users EXCEPT ![u].status = status]
          /\ past' = IF status = "disabled" /\ ~users[u].password
                     THEN [past EXCEPT !.parked = @ \cup {u}] ELSE past
          /\ Ends(r)
          /\ UNCHANGED <<firms, orgs, access, otp, log, mails, used>>
      BY <1>2, <1>5 DEF SetStatus
    <2>2. users[u] \in Row
      BY <1>1, <1>3, <2>1, ExistsIsRow
    <2> DEFINE row == [users[u] EXCEPT !.status = status]
    <2>3. row \in Row /\ row.password = users[u].password /\ row.status = status
      BY <2>2 DEF Row
    <2>4. users' = [users EXCEPT ![u] = row]
      BY <1>1, <2>1 DEF Tables
    <2>5. past' \in Past /\ past.parked \subseteq past'.parked
      BY <1>1, <1>3, <2>1 DEF Tables, Past
    <2>6. ~ users[u].password => u \in past'.parked
      <3>1. CASE status = "disabled"
        BY <1>1, <2>1, <3>1 DEF Tables, Past
      <3>2. CASE status = "active"
        BY <1>1, <1>2, <1>3, <2>1, <2>5, <3>2 DEF Informed
      <3>3. QED BY <3>1, <3>2
    <2> HIDE DEF row
    <2>7. Grows /\ PasswordsOK' /\ LogOK' /\ users' \in [Users -> Row \cup {None, Gone}]
      BY <1>3, <2>1, <2>3, <2>4, <2>5, <2>6, UpdateUser
    <2>8. QED BY <2>1, <2>5, <2>7, LastStep
  <1>6. QED BY <1>4, <1>5

LEMMA RemoveKeeps ==
  ASSUME TeamInv, NEW r \in Requests, Remove(r)
  PROVE  TeamInv'
  <1> DEFINE u == req[r].user
             kept(i) == IF log[i].user = u THEN [log[i] EXCEPT !.user = None] ELSE log[i]
  <1>1. Tables /\ Informed(r) /\ WellFormed(req[r])
    BY DEF TeamInv, Informed
  <1>2. u \in Users
    BY <1>1 DEF Remove, At, WellFormed, OnUser
  <1>3. /\ users' = [users EXCEPT ![u] = Gone]
        /\ access' = access \ RowsOf(u)
        /\ log' = [i \in DOMAIN log |-> kept(i)]
        /\ Ends(r)
        /\ UNCHANGED <<firms, orgs, otp, mails, used, past>>
    BY DEF Remove
  <1>4. /\ users'[u] = Gone
        /\ \A v \in Users : v # u => users'[v] = users[v]
        /\ users' \in [Users -> Row \cup {None, Gone}]
    BY <1>1, <1>2, <1>3 DEF Tables
  <1>5. Grows
    BY <1>3, <1>4, NoneAssumption DEF Grows, Exists
  <1>6. PasswordsOK'
    BY <1>3, <1>4 DEF PasswordsOK, TeamInv, Exists
  <1>7. \A i \in DOMAIN log : kept(i) \in LogRow /\ kept(i).user # u
                              /\ kept(i).user \in {None, log[i].user}
    <2> SUFFICES ASSUME NEW i \in DOMAIN log
                 PROVE  /\ kept(i) \in LogRow /\ kept(i).user # u
                        /\ kept(i).user \in {None, log[i].user}
      OBVIOUS
    <2>1. log[i] \in LogRow
      BY <1>1, LogRows
    <2>2. u # None
      BY <1>2, TeamAssumption
    <2>3. QED BY <2>1, <2>2 DEF LogRow
  <1> HIDE DEF kept
  <1>8. log' \in Seq(LogRow) /\ DOMAIN log' = DOMAIN log /\ \A i \in DOMAIN log : log'[i] = kept(i)
    <2>1. DOMAIN log = 1 .. Len(log) /\ Len(log) \in Nat
      BY <1>1 DEF Tables
    <2>2. log' = [i \in 1 .. Len(log) |-> kept(i)]
      BY <1>3, <2>1
    <2>3. QED BY <1>7, <2>1, <2>2
  <1>9. LogOK'
    <2> SUFFICES ASSUME NEW i \in DOMAIN log, log'[i].user # None
                 PROVE  users'[log'[i].user] \notin {None, Gone}
      BY <1>8 DEF LogOK, Exists
    <2>1. log'[i].user = log[i].user /\ log[i].user # u /\ log[i].user # None
      BY <1>7, <1>8
    <2>2. log[i].user \in Users
      BY <1>1, <2>1, LogRows
    <2>3. users[log[i].user] \notin {None, Gone}
      BY <2>1 DEF TeamInv, LogOK, Exists
    <2>4. QED BY <1>4, <2>1, <2>2, <2>3
  <1>10. Tables'
    BY <1>1, <1>3, <1>4, <1>8, EndsEffect DEF Tables
  <1>11. QED BY <1>1, <1>3, <1>5, <1>6, <1>9, <1>10, EndsEffect, Step

-----------------------------------------------------------------------------
(* Mails.                                                                  *)

LEMMA SendKeeps ==
  ASSUME TeamInv, NEW r \in Requests, NEW ok \in BOOLEAN, Send(r, ok)
  PROVE  TeamInv'
  <1> DEFINE q == req[r]
  <1>1. Tables /\ Informed(r) /\ WellFormed(q) /\ q \in Request
    BY DEF TeamInv, Informed, Tables
  <1>2. /\ q.op \in {"invite", "resend"} /\ q.at = "send"
        /\ UNCHANGED <<users, firms, orgs, access, otp, log, used, past>>
    BY DEF Send, Mailing
  <1>3. q.email \in Emails /\ q.user \in Users
    BY <1>1, <1>2 DEF WellFormed, ByMail, OnUser
  <1>4. PICK code \in Nat \cup {None} : req' = [req EXCEPT ![r].at = "record", ![r].code = code]
    <2>1. Len(mails) + 1 \in Nat
      BY <1>1 DEF Tables
    <2>2. QED BY <2>1 DEF Send
  <1>5. mails' \in Seq(Mail)
    <2>1. [email |-> q.email, last |-> "sent"] \in Mail
      BY <1>3 DEF Mail, Tidings
    <2>2. mails' = mails \/ mails' = Append(mails, [email |-> q.email, last |-> "sent"])
      BY DEF Send
    <2>3. mails \in Seq(Mail)
      BY <1>1 DEF Tables
    <2>4. QED BY <2>1, <2>2, <2>3
  <1> DEFINE p == [q EXCEPT !.at = "record", !.code = code]
  <1>6. /\ p \in Request /\ p.op = q.op /\ p.user = q.user /\ p.email = q.email
        /\ p.row = q.row /\ p.mode = q.mode /\ p.otp = q.otp
    BY ZenonT(40), <1>1, <1>4 DEF Request
  <1>7. req' = [req EXCEPT ![r] = p]
    BY <1>1, <1>4 DEF Tables, Request
  <1> HIDE DEF p
  <1>8. /\ req' \in [Requests -> Request] /\ req'[r] = p
        /\ \A x \in Requests : x # r => req'[x] = req[x]
    BY <1>1, <1>6, <1>7, GoesOn
  <1>9. WellFormed(p)
    BY <1>1, <1>2, <1>3, <1>6 DEF WellFormed
  <1>10. Informed(r)'
    BY <1>1, <1>2, <1>6, <1>8, <1>9 DEF Informed, Exists
  <1>11. Tables'
    BY <1>1, <1>2, <1>5, <1>8 DEF Tables
  <1>12. QED BY <1>2, <1>8, <1>10, <1>11, QuietStep

\* What became of a mail is written to the row of a user.
LEMMA MailIs ==
  ASSUME NEW row \in Row, NEW t \in Tidings
  PROVE  /\ [row EXCEPT !.mail = t] \in Row
         /\ [row EXCEPT !.mail = t].password = row.password
         /\ [row EXCEPT !.mail = t].status = row.status
  BY DEF Row, Tidings

LEMMA RecordSendKeeps ==
  ASSUME TeamInv, NEW r \in Requests, RecordSend(r)
  PROVE  TeamInv'
  <1> DEFINE q == req[r]
             u == req[r].user
             status == IF q.code = None THEN "failed" ELSE "sent"
             entry == [user |-> u, email |-> q.email, status |-> status, id |-> None, mail |-> q.code]
  <1>1. Tables /\ Informed(r) /\ WellFormed(q) /\ q \in Request
    BY DEF TeamInv, Informed, Tables
  <1>2. /\ q.op \in {"invite", "resend"} /\ q.at = "record" /\ Ends(r)
        /\ UNCHANGED <<firms, orgs, access, otp, mails, used, past>>
    BY DEF RecordSend, Mailing
  <1>3. q.email \in Emails /\ u \in Users /\ q.code \in Nat \cup {None}
    BY <1>1, <1>2 DEF WellFormed, ByMail, OnUser, Request
  <1>4. status \in Tidings /\ entry \in LogRow /\ entry.user = u
    BY <1>3 DEF Tidings, LogRow
  <1>5. CASE ~ Exists(u)
    <2>1. UNCHANGED <<users, log>>
      BY <1>5 DEF RecordSend
    <2>2. Tables'
      BY <1>1, <1>2, <2>1, EndsEffect DEF Tables
    <2>3. QED BY <1>1, <1>2, <2>1, <2>2, EndsEffect, QuietStep
  <1>6. CASE Exists(u)
    <2>1. users' = users \/ users' = [users EXCEPT ![u].mail = status]
      BY <1>6 DEF RecordSend
    <2>2. log' = Append(log, entry)
      BY <1>6 DEF RecordSend
    <2>3. users[u] \in Row
      BY <1>1, <1>3, <1>6, ExistsIsRow
    <2> DEFINE row == [users[u] EXCEPT !.mail = status]
    <2>4. row \in Row /\ row.password = users[u].password /\ row.status = users[u].status
      BY <1>4, <2>3, MailIs
    <2>5. users' = users \/ users' = [users EXCEPT ![u] = row]
      BY <2>1
    <2> HIDE DEF entry, status, row
    <2>6. /\ users' \in [Users -> Row \cup {None, Gone}]
          /\ \A v \in Users : v # u => users'[v] = users[v]
          /\ users'[u] \in {users[u], row}
      BY <1>1, <1>3, <2>4, <2>5 DEF Tables
    <2>7. \A v \in Users : /\ Exists(v)' <=> Exists(v)
                           /\ Exists(v) => /\ users'[v].password = users[v].password
                                           /\ users'[v].status = users[v].status
      BY <1>6, <2>4, <2>6, NoneAssumption DEF Exists
    <2>8. Grows
      BY <1>2, <2>6, <2>7, NoneAssumption, <2>4 DEF Grows
    <2>9. PasswordsOK'
      BY <1>2, <2>7 DEF PasswordsOK, TeamInv
    <2>10. log' \in Seq(LogRow)
      BY <1>1, <1>4, <2>2 DEF Tables
    <2>11. LogOK'
      <3> SUFFICES ASSUME NEW i \in DOMAIN log', log'[i].user # None
                   PROVE  users'[log'[i].user] \notin {None, Gone}
        BY DEF LogOK, Exists
      <3>1. log \in Seq(LogRow)
        BY <1>1 DEF Tables
      <3>2. CASE i = Len(log) + 1
        <4>1. log'[i] = entry
          BY <2>2, <3>1, <3>2
        <4>2. QED BY <1>3, <1>4, <1>6, <2>7, <4>1 DEF Exists
      <3>3. CASE i # Len(log) + 1
        <4>1. i \in DOMAIN log /\ log'[i] = log[i]
          BY <1>4, <2>2, <3>1, <3>3
        <4>2. log[i].user \in Users /\ Exists(log[i].user)
          BY <1>1, <4>1, LogRows DEF TeamInv, LogOK
        <4>3. QED BY <2>7, <4>1, <4>2 DEF Exists
      <3>4. QED BY <3>2, <3>3
    <2>12. Tables'
      BY <1>1, <1>2, <2>6, <2>10, EndsEffect DEF Tables
    <2>13. QED BY <1>1, <1>2, <2>8, <2>9, <2>11, <2>12, EndsEffect, Step
  <1>7. QED BY <1>5, <1>6

LEMMA DeliveryKeeps ==
  ASSUME TeamInv, NEW m \in DOMAIN mails, NEW id \in {m, None}, NEW status \in Reports,
         DeliveryEvent(m, id, status)
  PROVE  TeamInv'
  <1> DEFINE i == RowFor(m, id)
             known == IF i \in DOMAIN log /\ log[i].user # None THEN {log[i].user}
                      ELSE ByEmail(mails[m].email)
  <1>1. Tables
    BY DEF TeamInv
  <1>2. /\ mails' = [mails EXCEPT ![m].last = status]
        /\ log' = IF i = 0 THEN log
                  ELSE [log EXCEPT ![i] = Heard(log[i], id, status)]
        /\ users' = [u \in Users |-> IF u \in known THEN [users[u] EXCEPT !.mail = status] ELSE users[u]]
        /\ past' = IF Strays(m, id) THEN [past EXCEPT !.strayed = @ \cup {mails[m].email}] ELSE past
        /\ UNCHANGED <<firms, orgs, access, otp, used, req>>
    BY DEF DeliveryEvent
  <1>3. status \in Tidings /\ id \in Nat \cup {None}
    BY <1>1 DEF Tidings, Tables
  <1>4. mails[m] \in Mail /\ mails[m].email \in Emails
    <2>1. mails \in Seq(Mail) /\ m \in 1 .. Len(mails)
      BY <1>1 DEF Tables
    <2>2. mails[m] \in Mail
      BY <2>1
    <2>3. QED BY <2>2 DEF Mail
  <1>5. mails' \in Seq(Mail)
    <2>1. [mails[m] EXCEPT !.last = status] \in Mail
      BY <1>3, <1>4 DEF Mail
    <2>2. mails' = [mails EXCEPT ![m] = [mails[m] EXCEPT !.last = status]]
      BY <1>2
    <2> HIDE DEF i, known
    <2>3. QED BY <1>1, <2>1, <2>2 DEF Tables
  <1>6. past' \in Past /\ past'.parked = past.parked
    BY <1>1, <1>2, <1>4 DEF Tables, Past
  <1>7. \A u \in known : u \in Users /\ Exists(u)
    <2>1. CASE i \in DOMAIN log /\ log[i].user # None
      BY <1>1, <2>1, LogRows DEF TeamInv, LogOK
    <2>2. CASE ~ (i \in DOMAIN log /\ log[i].user # None)
      BY <2>2 DEF ByEmail
    <2>3. QED BY <2>1, <2>2
  <1>8. /\ log' \in Seq(LogRow) /\ DOMAIN log' = DOMAIN log
        /\ \A j \in DOMAIN log : log'[j].user = log[j].user
    <2> HIDE DEF known
    <2> DEFINE row == Heard(log[i], id, status)
               told(k) == IF i # 0 /\ k = i THEN row ELSE log[k]
    <2>1. \A k \in DOMAIN log : told(k) \in LogRow /\ told(k).user = log[k].user
      <3> SUFFICES ASSUME NEW k \in DOMAIN log
                   PROVE  told(k) \in LogRow /\ told(k).user = log[k].user
        OBVIOUS
      <3>1. log[k] \in LogRow
        BY <1>1, LogRows
      <3>2. k = i => row \in LogRow /\ row.user = log[i].user
        BY <1>3, <3>1 DEF LogRow, Heard
      <3> HIDE DEF i, row
      <3>3. QED BY <3>1, <3>2
    <2>2. log \in Seq(LogRow)
      BY <1>1 DEF Tables
    <2>3. log' = [k \in DOMAIN log |-> told(k)]
      <3> HIDE DEF i
      <3>1. log' = IF i = 0 THEN log ELSE [log EXCEPT ![i] = row]
        BY <1>2
      <3> HIDE DEF row
      <3>2. CASE i = 0
        <4>1. \A k \in DOMAIN log : told(k) = log[k]
          BY <3>2
        <4> HIDE DEF told
        <4>2. QED BY <2>2, <3>1, <3>2, <4>1
      <3>3. CASE i # 0
        <4>1. [log EXCEPT ![i] = row] = [k \in DOMAIN log |-> IF k = i THEN row ELSE log[k]]
          OBVIOUS
        <4>2. \A k \in DOMAIN log : told(k) = IF k = i THEN row ELSE log[k]
          BY <3>3
        <4> HIDE DEF told
        <4>3. QED BY <3>1, <3>3, <4>1, <4>2
      <3>4. QED BY <3>2, <3>3
    <2> HIDE DEF i, told
    <2>4. DOMAIN log = 1 .. Len(log) /\ Len(log) \in Nat
      BY <2>2
    <2>5. log' = [k \in 1 .. Len(log) |-> told(k)]
      BY <2>3, <2>4
    <2>6. QED BY <2>1, <2>4, <2>5
  <1> HIDE DEF i, known
  <1>9. \A u \in Users : /\ Exists(u)' <=> Exists(u)
                         /\ users[u] = None <=> users'[u] = None
                         /\ users'[u] \in Row \cup {None, Gone}
                         /\ Exists(u) => /\ users'[u].password = users[u].password
                                         /\ users'[u].status = users[u].status
    <2> SUFFICES ASSUME NEW u \in Users
                 PROVE  /\ Exists(u)' <=> Exists(u)
                        /\ users[u] = None <=> users'[u] = None
                        /\ users'[u] \in Row \cup {None, Gone}
                        /\ Exists(u) => /\ users'[u].password = users[u].password
                                        /\ users'[u].status = users[u].status
      OBVIOUS
    <2>1. CASE u \in known
      <3>1. Exists(u) /\ users[u] \in Row
        BY <1>1, <1>7, <2>1, ExistsIsRow
      <3>2. users'[u] = [users[u] EXCEPT !.mail = status]
        BY <1>2, <2>1
      <3>3. users'[u] \in Row
        BY <1>3, <3>1, <3>2, MailIs
      <3>4. Exists(u)' /\ users[u] # None /\ users'[u] # None
        BY <3>1, <3>3, NoneAssumption DEF Exists
      <3>5. QED BY <1>3, <3>1, <3>2, <3>3, <3>4, MailIs
    <2>2. CASE u \notin known
      BY <1>1, <1>2, <2>2 DEF Exists, Tables
    <2>3. QED BY <2>1, <2>2
  <1>10. Grows /\ PasswordsOK'
    BY <1>6, <1>9 DEF Grows, PasswordsOK, TeamInv
  <1>11. LogOK'
    <2> SUFFICES ASSUME NEW j \in DOMAIN log, log[j].user # None
                 PROVE  users'[log[j].user] \notin {None, Gone}
      BY <1>8 DEF LogOK, Exists
    <2>1. log[j].user \in Users /\ Exists(log[j].user)
      BY <1>1, LogRows DEF TeamInv, LogOK
    <2>2. QED BY <1>9, <2>1 DEF Exists
  <1>12. users' \in [Users -> Row \cup {None, Gone}]
    BY <1>2, <1>9
  <1>13. Tables'
    BY <1>1, <1>2, <1>5, <1>6, <1>8, <1>12 DEF Tables
  <1>14. QED BY <1>2, <1>10, <1>11, <1>13, OutsideStep

-----------------------------------------------------------------------------
(* The rest of the world.                                                  *)

LEMMA CodesKeep ==
  ASSUME TeamInv, NEW e \in Emails, RequestOtp(e) \/ OtpExpires(e)
  PROVE  TeamInv'
  <1>1. Tables
    BY DEF TeamInv
  <1>2. UNCHANGED <<users, firms, orgs, access, log, mails, req, past>>
    BY DEF RequestOtp, OtpExpires
  <1>3. otp' \in [Emails -> Code \cup {None}] /\ used' \in [token : Nat, code : Nat, row : Nat]
    <2>1. CASE RequestOtp(e)
      <3>1. used.code + 1 \in Nat
        BY <1>1 DEF Tables
      <3>2. [code |-> used.code + 1, wrong |-> 0] \in Code
        BY <3>1 DEF Code
      <3>3. QED BY <1>1, <2>1, <3>1, <3>2 DEF Tables, RequestOtp
    <2>2. CASE OtpExpires(e)
      BY <1>1, <2>2 DEF Tables, OtpExpires
    <2>3. QED BY <2>1, <2>2
  <1>4. Tables'
    BY <1>1, <1>2, <1>3 DEF Tables
  <1>5. Grows /\ PasswordsOK' /\ LogOK'
    BY <1>2 DEF Grows, PasswordsOK, LogOK, Exists, TeamInv
  <1>6. QED BY <1>2, <1>4, <1>5, OutsideStep

LEMMA RemoveCompanyKeeps ==
  ASSUME TeamInv, NEW o \in Orgs, RemoveCompany(o)
  PROVE  TeamInv'
  <1>1. Tables
    BY DEF TeamInv
  <1>2. access' \subseteq access /\ UNCHANGED <<users, firms, otp, log, mails, used, req, past>>
    BY DEF RemoveCompany
  <1>3. Tables'
    BY <1>1, <1>2 DEF Tables
  <1>4. Grows /\ PasswordsOK' /\ LogOK'
    BY <1>2 DEF Grows, PasswordsOK, LogOK, Exists, TeamInv
  <1>5. QED BY <1>2, <1>3, <1>4, OutsideStep

LEMMA NextKeeps ==
  ASSUME TeamInv, [Next]_vars
  PROVE  TeamInv'
  <1>1. ASSUME NEW r \in Requests, Serve(r) PROVE TeamInv'
    <2>1. CASE Aborts(r)
      BY <2>1, FailsKeeps DEF Aborts
    <2>2. CASE \E ok \in BOOLEAN : Send(r, ok)
      BY <2>2, SendKeeps
    <2>3. QED BY <1>1, <2>1, <2>2, SignUpKeeps, InviteKeeps, ResendKeeps, AcceptKeeps, AssignKeeps,
                 StatusKeeps, RemoveKeeps, RecordSendKeeps DEF Serve
  <1>2. ASSUME Outside PROVE TeamInv'
    <2>1. CASE \E m \in DOMAIN mails, status \in Reports :
                 DeliveryEvent(m, m, status) \/ DeliveryEvent(m, None, status)
      BY <2>1, DeliveryKeeps
    <2>2. QED BY <1>2, <2>1, CodesKeep, ExpiresKeeps, RemoveCompanyKeeps DEF Outside
  <1>3. CASE UNCHANGED vars
    <2>1. UNCHANGED <<users, firms, access, otp, log, mails, used, req, past>>
      BY <1>3 DEF vars
    <2>2. Tables' /\ Grows /\ PasswordsOK' /\ LogOK'
      BY <2>1 DEF Tables, Grows, PasswordsOK, LogOK, Exists, TeamInv
    <2>3. QED BY <2>1, <2>2, OutsideStep
  <1>4. QED BY <1>1, <1>2, <1>3, AskKeeps DEF Next

-----------------------------------------------------------------------------
(* The theorems.                                                           *)

\* The tables keep their shape and every request knows what it has to, in
\* every reachable state.
THEOREM TeamTypes == Spec => []TeamInv
  <1>1. TeamInv /\ [Next]_vars => TeamInv'
    BY NextKeeps
  <1>2. QED BY InitHolds, <1>1, PTL DEF Spec

\* Whoever is active can sign in, unless an admin disabled the account before
\* its owner ever chose a password (disable_user does not look at the
\* invitation that enable_user then looks for).
THEOREM OnlyParkedTheorem == Spec => []OnlyParkedLackPassword
  <1>1. TeamInv => OnlyParkedLackPassword
    BY DEF TeamInv, PasswordsOK, OnlyParkedLackPassword
  <1>2. QED BY <1>1, TeamTypes, PTL

-----------------------------------------------------------------------------
(* Who may come back.                                                      *)

\* A request at its last step that may make a disabled user active.
Readmits(r, u) ==
  /\ req[r].user = u /\ req'[r] = Nothing
  /\ req[r].op = "enable" \/ (req[r].op = "accept" /\ req[r].row.status = "invited")

\* One row is replaced, by one of the same status if it is u's.
LEMMA OneRow ==
  ASSUME Tables, NEW u \in Users, NEW v \in Users, NEW row,
         users' = [users EXCEPT ![v] = row], u = v => row.status = users[u].status
  PROVE  users'[u].status = users[u].status
  BY DEF Tables

\* Requests that only begin, fail or mail change no user's status.
LEMMA AskedStatus ==
  ASSUME TeamInv, NEW r \in Requests, Ask(r)
  PROVE  users' = users
  BY DEF Ask, StartRegister, ReadOtp, StartInvite, ReadInvite, StartResend, StartDisable,
         StartEnable, StartRemove, StartAssign, Begin

\* A disabled user whom a request being served makes active is readmitted.
LEMMA ServedStatus ==
  ASSUME TeamInv, NEW r \in Requests, Serve(r), NEW u \in Users,
         Exists(u), users[u].status = "disabled", users'[u] # Gone, users'[u].status = "active"
  PROVE  Readmits(r, u)
  <1> DEFINE q == req[r]
             v == req[r].user
  <1>1. Tables /\ WellFormed(q) /\ q \in Request
    BY DEF TeamInv, Informed, Tables
  <1>2. users[u] \in Row /\ users[u] # None /\ users'[u].status # users[u].status
    BY <1>1, ExistsIsRow DEF Exists
  <1>3. ~ Fails(r)
    BY <1>2 DEF Fails
  <1>4. ASSUME Register(r) \/ RegisterVerified(r) PROVE FALSE
    <2>1. PICK w \in FreshUser, f \in FreshFirm :
            users' = [users EXCEPT ![w] = Account(f, q.email, "admin", "active", "all", TRUE, None)]
      BY <1>3, <1>4 DEF SaveFirm, Register, RegisterVerified, CreateFirmAndAdmin
    <2>2. w \in Users /\ w # u
      BY <1>2, FreshIs
    <2>3. QED BY <1>1, <1>2, <2>1, <2>2, OneRow
  <1>5. ASSUME Invite(r) PROVE FALSE
    <2>1. PICK w \in FreshUser :
            users' = [users EXCEPT ![w] = Account(q.firm, q.email, "team_member", "invited", q.mode,
                                                  FALSE, used.token + 1)]
      BY <1>3, <1>5 DEF Invite
    <2>2. w \in Users /\ w # u
      BY <1>2, FreshIs
    <2>3. QED BY <1>1, <1>2, <2>1, <2>2, OneRow
  <1>6. ASSUME Resend(r) PROVE FALSE
    <2> DEFINE row == [users[v] EXCEPT !.invite = used.token + 1, !.expired = FALSE]
    <2>1. Exists(v) /\ users' = [users EXCEPT ![v] = row]
      BY <1>3, <1>6 DEF Resend
    <2>2. v \in Users
      BY <1>1, <1>6 DEF Resend, At, WellFormed, OnUser
    <2>3. users[v] \in Row
      BY <1>1, <2>1, <2>2, ExistsIsRow
    <2>4. row.status = users[v].status
      BY <2>3 DEF Row
    <2> HIDE DEF row
    <2>5. QED BY <1>1, <1>2, <2>1, <2>2, <2>4, OneRow
  <1>7. ASSUME AcceptInvite(r) PROVE Readmits(r, u)
    <2> DEFINE row == [users[v] EXCEPT !.password = TRUE, !.status = "active",
                                       !.invite = None, !.expired = FALSE]
    <2>1. Ends(r) /\ q.op = "accept" /\ users' = [users EXCEPT ![v] = row]
      BY <1>3, <1>7 DEF AcceptInvite, At
    <2>2. v \in Users /\ q.row.status = "invited"
      BY <1>1, <2>1 DEF WellFormed, OnUser
    <2> HIDE DEF row
    <2>3. v = u
      BY <1>1, <1>2, <2>1, <2>2, OneRow
    <2>4. req'[r] = Nothing
      BY <1>1, <2>1, EndsEffect
    <2>5. QED BY <2>1, <2>2, <2>3, <2>4 DEF Readmits
  <1>8. ASSUME SetUserCompanies(r) PROVE FALSE
    <2> DEFINE row == [users[v] EXCEPT !.mode = q.mode]
    <2>1. /\ users' = users \/ users' = [users EXCEPT ![v] = row]
          /\ users' # users => Exists(v)
      BY <1>3, <1>8 DEF SetUserCompanies
    <2>2. v \in Users
      BY <1>1, <1>8 DEF SetUserCompanies, At, WellFormed, OnUser
    <2>3. Exists(v) => row.status = users[v].status
      BY <1>1, <2>2, ExistsIsRow DEF Row
    <2> HIDE DEF row
    <2>4. QED BY <1>1, <1>2, <2>1, <2>2, <2>3, OneRow
  <1>9. ASSUME Disable(r) PROVE FALSE
    <2> DEFINE row == [users[v] EXCEPT !.status = "disabled"]
    <2>1. Exists(v) /\ users' = [users EXCEPT ![v] = row]
      BY <1>3, <1>9 DEF Disable, SetStatus
    <2>2. v \in Users
      BY <1>1, <1>9 DEF Disable, SetStatus, At, WellFormed, OnUser
    <2>3. users[v] \in Row
      BY <1>1, <2>1, <2>2, ExistsIsRow
    <2>4. row.status = "disabled"
      BY <2>3 DEF Row
    <2> HIDE DEF row
    <2>5. QED BY <1>1, <1>2, <2>1, <2>2, <2>4, OneRow
  <1>10. ASSUME Enable(r) PROVE Readmits(r, u)
    <2> DEFINE row == [users[v] EXCEPT !.status = "active"]
    <2>1. Ends(r) /\ q.op = "enable" /\ users' = [users EXCEPT ![v] = row]
      BY <1>3, <1>10 DEF Enable, SetStatus, At
    <2>2. v \in Users
      BY <1>1, <2>1 DEF WellFormed, OnUser
    <2> HIDE DEF row
    <2>3. v = u
      BY <1>1, <1>2, <2>1, <2>2, OneRow
    <2>4. req'[r] = Nothing
      BY <1>1, <2>1, EndsEffect
    <2>5. QED BY <2>1, <2>3, <2>4 DEF Readmits
  <1>11. ASSUME Remove(r) PROVE FALSE
    <2>1. users' = [users EXCEPT ![v] = Gone] /\ v \in Users
      BY <1>1, <1>11 DEF Remove, At, WellFormed, OnUser
    <2>2. u # v => users'[u] = users[u]
      BY <2>1, <1>1 DEF Tables
    <2>3. u = v => users'[u] = Gone
      BY <2>1, <1>1 DEF Tables
    <2>4. QED BY <1>2, <2>2, <2>3
  <1>12. ASSUME RecordSend(r) PROVE FALSE
    <2> DEFINE status == IF q.code = None THEN "failed" ELSE "sent"
               row == [users[v] EXCEPT !.mail = status]
    <2>1. /\ users' = users \/ users' = [users EXCEPT ![v] = row]
          /\ users' # users => Exists(v)
      BY <1>12 DEF RecordSend
    <2>2. v \in Users
      BY <1>1, <1>12 DEF RecordSend, Mailing, WellFormed, OnUser
    <2>3. Exists(v) => row.status = users[v].status
      BY <1>1, <2>2, ExistsIsRow DEF Row
    <2> HIDE DEF row
    <2>4. QED BY <1>1, <1>2, <2>1, <2>2, <2>3, OneRow
  <1>13. ~ CheckOtp(r) /\ ~ (\E ok \in BOOLEAN : Send(r, ok)) /\ ~ Aborts(r)
    BY <1>2 DEF CheckOtp, Send, Aborts, Fails
  <1>14. QED BY <1>4, <1>5, <1>6, <1>7, <1>8, <1>9, <1>10, <1>11, <1>12, <1>13 DEF Serve

\* Nothing outside the requests changes a user's status.
LEMMA OutsideStatus ==
  ASSUME TeamInv, Outside, NEW u \in Users, Exists(u)
  PROVE  users'[u].status = users[u].status
  <1>1. Tables
    BY DEF TeamInv
  <1>2. users[u] \in Row
    BY <1>1, ExistsIsRow
  <1>3. CASE users' = users
    BY <1>3
  <1>4. CASE \E v \in Users : InviteExpires(v)
    <2>1. PICK v \in Users : users' = [users EXCEPT ![v].expired = TRUE] /\ Exists(v)
      BY <1>4 DEF InviteExpires
    <2> DEFINE row == [users[v] EXCEPT !.expired = TRUE]
    <2>2. users' = [users EXCEPT ![v] = row]
      BY <2>1
    <2>3. row.status = users[v].status
      BY <1>1, <2>1, ExistsIsRow DEF Row
    <2> HIDE DEF row
    <2>4. QED BY <1>1, <2>2, <2>3, OneRow
  <1>5. CASE \E m \in DOMAIN mails : \E id, status : DeliveryEvent(m, id, status)
    <2>0. PICK m \in DOMAIN mails : \E id, status : DeliveryEvent(m, id, status)
      BY <1>5
    <2>1. PICK id, status : DeliveryEvent(m, id, status)
      BY <2>0
    <2> DEFINE i == RowFor(m, id)
               known == IF i \in DOMAIN log /\ log[i].user # None THEN {log[i].user}
                        ELSE ByEmail(mails[m].email)
    <2>2. users' = [w \in Users |-> IF w \in known THEN [users[w] EXCEPT !.mail = status] ELSE users[w]]
      BY <2>1 DEF DeliveryEvent
    <2> HIDE DEF known
    <2>3. users'[u] = users[u] \/ users'[u] = [users[u] EXCEPT !.mail = status]
      BY <2>2
    <2>4. QED BY <1>2, <2>3 DEF Row
  <1>6. QED BY <1>3, <1>4, <1>5 DEF Outside, RequestOtp, OtpExpires, RemoveCompany

LEMMA OnlyReadmitted ==
  ASSUME TeamInv, [Next]_vars
  PROVE  [ \A u \in Users :
             (Exists(u) /\ users[u].status = "disabled" /\ users'[u] # Gone /\ users'[u].status = "active") =>
                \E r \in Requests :
                   /\ req[r].user = u /\ req'[r] = Nothing
                   /\ \/ req[r].op = "enable"
                      \/ req[r].op = "accept" /\ req[r].row.status = "invited" ]_vars
  <1> SUFFICES ASSUME NEW u \in Users, Next,
                      Exists(u), users[u].status = "disabled", users'[u] # Gone, users'[u].status = "active"
               PROVE  \E r \in Requests : Readmits(r, u)
    BY DEF Readmits
  <1>1. users' # users /\ ~ Outside
    BY OutsideStatus
  <1>2. PICK r \in Requests : Serve(r)
    BY <1>1, AskedStatus DEF Next
  <1>3. QED BY <1>2, ServedStatus

\* Disabling is final for a session: only an admin's enabling brings the user
\* back, or an acceptance of the invitation that was read before (accept_invite
\* and disable_user commit without looking again).
THEOREM RevokedTheorem == Spec => RevokedStaysOut
  <1>1. TeamInv /\ [Next]_vars =>
          [ \A u \in Users :
              (Exists(u) /\ users[u].status = "disabled" /\ users'[u] # Gone /\ users'[u].status = "active") =>
                 \E r \in Requests :
                    /\ req[r].user = u /\ req'[r] = Nothing
                    /\ \/ req[r].op = "enable"
                       \/ req[r].op = "accept" /\ req[r].row.status = "invited" ]_vars
    BY OnlyReadmitted
  <1>2. QED BY <1>1, TeamTypes, PTL DEF Spec, RevokedStaysOut
-----------------------------------------------------------------------------
(* Who is there: people come with a sign-up or an invitation, go with a    *)
(* removal, and keep their address, role and firm in between.              *)

SamePeople ==
  \A u \in Users :
    /\ Exists(u)' <=> Exists(u)
    /\ Exists(u) => /\ users'[u].email = users[u].email
                    /\ users'[u].role = users[u].role
                    /\ users'[u].firm = users[u].firm

\* Nobody comes back, and nobody changes his role.
RolesStay ==
  \A u \in Users : users[u] # None /\ Exists(u)' => Exists(u) /\ users'[u].role = users[u].role

\* No invitation gets another token.
SameInvites ==
  \A u \in Users : Exists(u) => users'[u].invite \in {None, users[u].invite}

\* What a request that invites or removes has looked at.
Entitled(r) ==
  /\ req[r].op = "invite" => req[r].firm \in firms \cup {None}
  /\ req[r].op = "remove" /\ Exists(req[r].user) => users[req[r].user].role # "admin"

OneAddress ==
  \A u, v \in Users : Exists(u) /\ Exists(v) /\ users[u].email = users[v].email => u = v

OneToken ==
  \A u \in Users : Exists(u) /\ users[u].invite # None =>
    /\ users[u].invite \in Nat /\ users[u].invite <= used.token
    /\ \A v \in Users : Exists(v) /\ users[v].invite = users[u].invite => u = v

OfFirms == \A u \in Users : Exists(u) => users[u].firm \in firms \cup {None}

PeopleInv ==
  /\ OneAddress
  /\ OneToken
  /\ OfFirms
  /\ NoEmptyFirm
  /\ \A r \in Requests : Entitled(r)

LEMMA SameUsers ==
  ASSUME users' = users
  PROVE  SamePeople /\ SameInvites
  BY DEF SamePeople, SameInvites, Exists

LEMMA SameRoles == SamePeople => RolesStay
  BY DEF SamePeople, RolesStay

\* One row is written, of a user who exists.
LEMMA Edited ==
  ASSUME Tables, NEW v \in Users, Exists(v), NEW row \in Row,
         users' = [users EXCEPT ![v] = row],
         row.email = users[v].email, row.role = users[v].role, row.firm = users[v].firm
  PROVE  /\ SamePeople
         /\ \A u \in Users : u # v => users'[u] = users[u]
         /\ users'[v] = row
         /\ row.invite \in {None, users[v].invite} => SameInvites
  <1>1. users'[v] = row /\ \A u \in Users : u # v => users'[u] = users[u]
    BY DEF Tables
  <1>2. row \notin {None, Gone}
    BY NoneAssumption
  <1>3. QED BY <1>1, <1>2 DEF SamePeople, SameInvites, Exists

\* Requests in whose last step nobody comes or goes.
LEMMA ServedSame ==
  ASSUME TeamInv, NEW r \in Requests,
         \/ CheckOtp(r) \/ AcceptInvite(r) \/ SetUserCompanies(r) \/ Disable(r) \/ Enable(r)
         \/ (\E ok \in BOOLEAN : Send(r, ok)) \/ RecordSend(r) \/ Fails(r)
  PROVE  SamePeople /\ SameInvites
  <1> DEFINE q == req[r]
             v == req[r].user
  <1>1. Tables /\ WellFormed(q) /\ q \in Request
    BY DEF TeamInv, Informed, Tables
  <1>2. CASE users' = users
    BY <1>2, SameUsers
  <1>3. CASE AcceptInvite(r) /\ ~ Fails(r)
    <2> DEFINE row == [users[v] EXCEPT !.password = TRUE, !.status = "active",
                                       !.invite = None, !.expired = FALSE]
    <2>1. Exists(v) /\ users' = [users EXCEPT ![v] = row]
      BY <1>3 DEF AcceptInvite
    <2>2. v \in Users
      BY <1>1, <1>3 DEF AcceptInvite, At, WellFormed, OnUser
    <2>3. users[v] \in Row
      BY <1>1, <2>1, <2>2, ExistsIsRow
    <2>4. /\ row \in Row /\ row.email = users[v].email /\ row.role = users[v].role
          /\ row.firm = users[v].firm /\ row.invite = None
      BY <2>3 DEF Row
    <2> HIDE DEF row
    <2>5. QED BY <1>1, <2>1, <2>2, <2>4, Edited
  <1>4. CASE SetUserCompanies(r) /\ users' # users
    <2> DEFINE row == [users[v] EXCEPT !.mode = q.mode]
    <2>1. Exists(v) /\ users' = [users EXCEPT ![v] = row]
      BY <1>4 DEF SetUserCompanies, Fails
    <2>2. v \in Users /\ q.mode \in Modes
      BY <1>1, <1>4 DEF SetUserCompanies, At, WellFormed, OnUser
    <2>3. users[v] \in Row
      BY <1>1, <2>1, <2>2, ExistsIsRow
    <2>4. /\ row \in Row /\ row.email = users[v].email /\ row.role = users[v].role
          /\ row.firm = users[v].firm /\ row.invite = users[v].invite
      BY <2>2, <2>3 DEF Row, Modes
    <2> HIDE DEF row
    <2>5. QED BY <1>1, <2>1, <2>2, <2>4, Edited
  <1>5. CASE (Disable(r) \/ Enable(r)) /\ ~ Fails(r)
    <2>1. PICK op \in {"disable", "enable"}, status \in {"active", "disabled"} : SetStatus(r, op, status)
      BY <1>5 DEF Disable, Enable
    <2> DEFINE row == [users[v] EXCEPT !.status = status]
    <2>2. Exists(v) /\ users' = [users EXCEPT ![v] = row]
      BY <1>5, <2>1 DEF SetStatus
    <2>3. v \in Users
      BY <1>1, <2>1 DEF SetStatus, At, WellFormed, OnUser
    <2>4. users[v] \in Row
      BY <1>1, <2>2, <2>3, ExistsIsRow
    <2>5. /\ row \in Row /\ row.email = users[v].email /\ row.role = users[v].role
          /\ row.firm = users[v].firm /\ row.invite = users[v].invite
      BY <2>4 DEF Row
    <2> HIDE DEF row
    <2>6. QED BY <1>1, <2>2, <2>3, <2>5, Edited
  <1>6. CASE RecordSend(r) /\ users' # users
    <2> DEFINE status == IF q.code = None THEN "failed" ELSE "sent"
               row == [users[v] EXCEPT !.mail = status]
    <2>1. Exists(v) /\ users' = [users EXCEPT ![v] = row]
      BY <1>6 DEF RecordSend
    <2>2. v \in Users
      BY <1>1, <1>6 DEF RecordSend, Mailing, WellFormed, OnUser
    <2>3. users[v] \in Row
      BY <1>1, <2>1, <2>2, ExistsIsRow
    <2>4. /\ row \in Row /\ row.email = users[v].email /\ row.role = users[v].role
          /\ row.firm = users[v].firm /\ row.invite = users[v].invite
      BY <2>3 DEF Row
    <2> HIDE DEF row
    <2>5. QED BY <1>1, <2>1, <2>2, <2>4, Edited
  <1>7. Fails(r) \/ CheckOtp(r) \/ (\E ok \in BOOLEAN : Send(r, ok)) => users' = users
    BY DEF Fails, CheckOtp, Send
  <1>8. QED BY <1>2, <1>3, <1>4, <1>5, <1>6, <1>7

LEMMA OutsideSame ==
  ASSUME TeamInv, Outside
  PROVE  SamePeople /\ SameInvites
  <1>1. Tables
    BY DEF TeamInv
  <1>2. CASE users' = users
    BY <1>2, SameUsers
  <1>3. CASE \E v \in Users : InviteExpires(v)
    <2>1. PICK v \in Users : users' = [users EXCEPT ![v].expired = TRUE] /\ Exists(v)
      BY <1>3 DEF InviteExpires
    <2> DEFINE row == [users[v] EXCEPT !.expired = TRUE]
    <2>2. users' = [users EXCEPT ![v] = row]
      BY <2>1
    <2>3. users[v] \in Row
      BY <1>1, <2>1, ExistsIsRow
    <2>4. /\ row \in Row /\ row.email = users[v].email /\ row.role = users[v].role
          /\ row.firm = users[v].firm /\ row.invite = users[v].invite
      BY <2>3 DEF Row
    <2> HIDE DEF row
    <2>5. QED BY <1>1, <2>1, <2>2, <2>4, Edited
  <1>4. CASE \E m \in DOMAIN mails, status \in Reports :
               DeliveryEvent(m, m, status) \/ DeliveryEvent(m, None, status)
    <2>1. PICK m \in DOMAIN mails, status \in Reports :
                 DeliveryEvent(m, m, status) \/ DeliveryEvent(m, None, status)
      BY <1>4
    <2>2. PICK id \in {m, None} : DeliveryEvent(m, id, status)
      BY <2>1
    <2> DEFINE i == RowFor(m, id)
               known == IF i \in DOMAIN log /\ log[i].user # None THEN {log[i].user}
                        ELSE ByEmail(mails[m].email)
    <2>3. users' = [u \in Users |-> IF u \in known THEN [users[u] EXCEPT !.mail = status] ELSE users[u]]
      BY <2>2 DEF DeliveryEvent
    <2>4. \A u \in known : u \in Users /\ Exists(u)
      <3>1. CASE i \in DOMAIN log /\ log[i].user # None
        BY <1>1, <3>1, LogRows DEF TeamInv, LogOK
      <3>2. CASE ~ (i \in DOMAIN log /\ log[i].user # None)
        BY <3>2 DEF ByEmail
      <3>3. QED BY <3>1, <3>2
    <2> HIDE DEF known
    <2> SUFFICES ASSUME NEW u \in Users
                 PROVE  /\ Exists(u)' <=> Exists(u)
                        /\ Exists(u) => /\ users'[u].email = users[u].email
                                        /\ users'[u].role = users[u].role
                                        /\ users'[u].firm = users[u].firm
                                        /\ users'[u].invite \in {None, users[u].invite}
      BY DEF SamePeople, SameInvites
    <2>5. CASE u \in known
      <3> DEFINE row == [users[u] EXCEPT !.mail = status]
      <3>1. Exists(u) /\ users[u] \in Row
        BY <1>1, <2>4, <2>5, ExistsIsRow
      <3>2. /\ row \in Row /\ row.email = users[u].email /\ row.role = users[u].role
            /\ row.firm = users[u].firm /\ row.invite = users[u].invite
        BY <3>1 DEF Row
      <3>3. users'[u] = row
        BY <2>3, <2>5
      <3> HIDE DEF row
      <3>4. QED BY <3>1, <3>2, <3>3, NoneAssumption DEF Exists
    <2>6. CASE u \notin known
      BY <2>3, <2>6 DEF Exists
    <2>7. QED BY <2>5, <2>6
  <1>5. QED BY <1>2, <1>3, <1>4 DEF Outside, RequestOtp, OtpExpires, RemoveCompany

LEMMA PeopleInit == Init => PeopleInv
  BY NothingIs DEF Init, PeopleInv, OneAddress, OneToken, OfFirms, NoEmptyFirm, Entitled, Exists, Ops

\* A request that is at the same still has looked at what it had to.
LEMMA StaysEntitled ==
  ASSUME TeamInv, PeopleInv, RolesStay, firms \subseteq firms', NEW p \in Requests,
         req'[p].op \in {"invite", "remove"} =>
            /\ req'[p].op = req[p].op
            /\ req'[p].op = "invite" => req'[p].firm = req[p].firm
            /\ req'[p].op = "remove" => req'[p].user = req[p].user
  PROVE  Entitled(p)'
  <1>1. Entitled(p) /\ WellFormed(req[p]) /\ Informed(p)
    BY DEF PeopleInv, TeamInv, Informed
  <1>2. CASE req'[p].op = "invite"
    BY <1>1, <1>2 DEF Entitled
  <1>3. CASE req'[p].op = "remove"
    <2>1. req[p].op = "remove" /\ req'[p].user = req[p].user /\ req[p].user \in Users
      BY <1>1, <1>3 DEF WellFormed, OnUser
    <2>2. users[req[p].user] # None
      BY <1>1, <2>1 DEF Informed
    <2>3. Exists(req[p].user) => users[req[p].user].role # "admin"
      BY <1>1, <2>1 DEF Entitled
    <2>4. Exists(req[p].user)' => users'[req[p].user].role # "admin"
      BY <2>1, <2>2, <2>3 DEF RolesStay
    <2>5. QED BY <1>3, <2>1, <2>4 DEF Entitled, Exists
  <1>4. QED BY <1>2, <1>3 DEF Entitled

\* Nobody comes, goes or gets a token.
LEMMA QuietPeople ==
  ASSUME TeamInv, PeopleInv, SamePeople, SameInvites, firms' = firms,
         used'.token \in Nat /\ used.token <= used'.token /\ used.token \in Nat,
         \A r \in Requests : Entitled(r)'
  PROVE  PeopleInv'
  <1>1. OneAddress'
    BY DEF OneAddress, PeopleInv, SamePeople
  <1>2. OneToken'
    BY DEF OneToken, PeopleInv, SamePeople, SameInvites
  <1>3. OfFirms'
    BY DEF OfFirms, PeopleInv, SamePeople
  <1>4. NoEmptyFirm'
    BY DEF NoEmptyFirm, PeopleInv, SamePeople
  <1>5. QED BY <1>1, <1>2, <1>3, <1>4 DEF PeopleInv
\* What a request is when it has begun.
LEMMA Begun ==
  ASSUME Tables, NEW r \in Requests, NEW q, Begin(r, q)
  PROVE  /\ req'[r] = q
         /\ \A p \in Requests : p # r => req'[p] = req[p]
         /\ UNCHANGED <<users, firms, orgs, access, otp, log, mails, used, past>>
  BY DEF Begin, Tables

LEMMA AskPeople ==
  ASSUME TeamInv, PeopleInv, NEW r \in Requests, Ask(r)
  PROVE  PeopleInv'
  <1>1. Tables /\ used.token \in Nat
    BY DEF TeamInv, Tables
  <1>2. PICK q : Begin(r, q)
    BY DEF Ask, StartRegister, ReadOtp, StartInvite, ReadInvite, StartResend, StartDisable,
           StartEnable, StartRemove, StartAssign
  <1>3. /\ req'[r] = q
        /\ \A p \in Requests : p # r => req'[p] = req[p]
        /\ UNCHANGED <<users, firms, orgs, access, otp, log, mails, used, past>>
    BY <1>1, <1>2, Begun
  <1>4. SamePeople /\ SameInvites
    BY <1>3, SameUsers
  <1>5. Entitled(r)'
    <2>1. \A op \in OnUser, u \in Users : Loaded(op, u).op = op /\ Loaded(op, u).user = u
      BY DEF Loaded, Nothing
    <2>2. CASE \E e \in Emails, a \in Users, c \in Choices : StartInvite(r, a, e, c[1], c[2])
      <3>1. PICK e \in Emails, a \in Users, c \in Choices : StartInvite(r, a, e, c[1], c[2])
        BY <2>2
      <3>2. req'[r] = [Nothing EXCEPT !.op = "invite", !.at = "commit", !.email = e,
                                      !.firm = users[a].firm, !.mode = c[1], !.orgs = c[2]]
        BY <1>1, <3>1, Begun DEF StartInvite
      <3>3. req'[r].op = "invite" /\ req'[r].firm = users[a].firm
        BY <3>2 DEF Nothing
      <3>4. users[a].firm \in firms \cup {None}
        BY <3>1 DEF StartInvite, Admin, SignedIn, PeopleInv, OfFirms
      <3>5. QED BY <1>3, <3>3, <3>4 DEF Entitled
    <2>3. CASE \E a, u \in Users : StartRemove(r, a, u)
      <3>1. PICK a \in Users, u \in Users : StartRemove(r, a, u)
        BY <2>3
      <3>2. req'[r] = Loaded("remove", u) /\ users[u].role # "admin"
        BY <1>1, <3>1, Begun DEF StartRemove
      <3>3. req'[r].op = "remove" /\ req'[r].user = u
        BY <2>1, <3>2 DEF OnUser
      <3>4. QED BY <1>3, <3>2, <3>3 DEF Entitled
    <2>4. CASE req'[r].op \notin {"invite", "remove"}
      BY <2>4 DEF Entitled
    <2>5. CASE \E e \in Emails : StartRegister(r, e)
      <3>1. PICK e \in Emails : req'[r] = [Nothing EXCEPT !.op = "register", !.at = "commit", !.email = e]
        BY <1>1, <2>5, Begun DEF StartRegister
      <3>2. QED BY <2>4, <3>1 DEF Nothing
    <2>6. CASE \E e \in Emails, code \in 0 .. used.code : ReadOtp(r, e, code)
      <3>1. PICK e \in Emails, code \in 0 .. used.code :
              req'[r] = [Nothing EXCEPT !.op = "verify", !.at = "check", !.email = e, !.otp = otp[e], !.code = code]
        BY <1>1, <2>6, Begun DEF ReadOtp
      <3>2. QED BY <2>4, <3>1 DEF Nothing
    <2>7. CASE \E token \in 1 .. used.token : ReadInvite(r, token)
      <3>1. PICK u \in Users : req'[r] = Loaded("accept", u)
        BY <1>1, <2>7, Begun DEF ReadInvite
      <3>2. QED BY <2>1, <2>4, <3>1 DEF OnUser
    <2>8. CASE \E a, u \in Users : StartResend(r, a, u)
      <3>1. PICK u \in Users : req'[r] = [Loaded("resend", u) EXCEPT !.email = users[u].email]
        BY <1>1, <2>8, Begun DEF StartResend
      <3>2. QED BY <2>4, <3>1 DEF Loaded, Nothing
    <2>9. CASE \E a, u \in Users : StartDisable(r, a, u) \/ StartEnable(r, a, u)
      <3>1. PICK u \in Users : req'[r] = Loaded("disable", u) \/ req'[r] = Loaded("enable", u)
        BY <1>1, <2>9, Begun DEF StartDisable, StartEnable
      <3>2. QED BY <2>1, <2>4, <3>1 DEF OnUser
    <2>10. CASE \E a, u \in Users, c \in Choices : StartAssign(r, a, u, c[1], c[2])
      <3>1. PICK a \in Users, u \in Users, c \in Choices : StartAssign(r, a, u, c[1], c[2])
        BY <2>10
      <3> DEFINE new == [Loaded("assign", u) EXCEPT !.mode = c[1], !.orgs = c[2], !.rows = RowsOf(u)]
      <3>2. Begin(r, new)
        BY <3>1 DEF StartAssign
      <3>3. new.op = "assign"
        BY DEF Loaded, Nothing
      <3> HIDE DEF new
      <3>4. req'[r].op = "assign"
        BY <1>1, <3>2, <3>3, Begun
      <3>5. QED BY <2>4, <3>4
    <2>11. QED BY <2>2, <2>3, <2>5, <2>6, <2>7, <2>8, <2>9, <2>10 DEF Ask
  <1>6. \A p \in Requests : Entitled(p)'
    BY <1>3, <1>4, <1>5, SameRoles, StaysEntitled
  <1>7. QED BY <1>1, <1>3, <1>4, <1>6, QuietPeople

\* A request that goes on, or is over, is at what it was at.
LEMMA GoesOnEntitled ==
  ASSUME TeamInv, PeopleInv, RolesStay, firms \subseteq firms', NEW r \in Requests,
         \A p \in Requests : p # r => req'[p] = req[p],
         req'[r] # Nothing => /\ req'[r].op = req[r].op /\ req'[r].firm = req[r].firm
                              /\ req'[r].op = "remove" => req'[r].user = req[r].user
  PROVE  \A p \in Requests : Entitled(p)'
  <1>1. req'[r] = Nothing => req'[r].op \notin {"invite", "remove"}
    BY NoneAssumption DEF Nothing
  <1>2. QED BY <1>1, StaysEntitled

\* Somebody comes whose address nobody has; a firm that is new is his.
LEMMA Arrival ==
  ASSUME TeamInv, PeopleInv, NEW u \in Users, users[u] = None, NEW row \in Row,
         users' = [users EXCEPT ![u] = row], ByEmail(row.email) = {},
         firms \subseteq firms', row.firm \in firms' \cup {None},
         \A f \in firms' : f \in firms \/ (f = row.firm /\ row.role = "admin"),
         used'.token \in Nat, used.token \in Nat, used.token <= used'.token,
         row.invite = None \/ (row.invite = used.token + 1 /\ row.invite = used'.token)
  PROVE  RolesStay /\ OneAddress' /\ OneToken' /\ OfFirms' /\ NoEmptyFirm'
  <1>1. /\ users'[u] = row /\ \A v \in Users : v # u => users'[v] = users[v]
        /\ row \notin {None, Gone}
    BY NoneAssumption DEF TeamInv, Tables
  <1>2. /\ Exists(u)' /\ ~ Exists(u)
        /\ \A v \in Users : v # u => (Exists(v)' <=> Exists(v))
    BY <1>1 DEF Exists
  <1>3. \A v \in Users : Exists(v) => users[v].email # row.email
    BY DEF ByEmail
  <1>4. RolesStay
    BY <1>1, <1>2 DEF RolesStay
  <1>5. OneAddress'
    BY <1>1, <1>2, <1>3 DEF OneAddress, PeopleInv
  <1>6. OneToken'
    <2>1. \A v \in Users : Exists(v) /\ users[v].invite # None =>
            users[v].invite \in Nat /\ users[v].invite <= used.token
      BY DEF PeopleInv, OneToken
    <2>2. \A v \in Users : Exists(v) /\ users[v].invite # None => users[v].invite # row.invite
      BY <2>1
    <2>3. row.invite # None => row.invite \in Nat /\ row.invite <= used'.token
      OBVIOUS
    <2>4. QED BY <1>1, <1>2, <2>1, <2>2, <2>3 DEF OneToken, PeopleInv
  <1>7. OfFirms'
    BY <1>1, <1>2 DEF OfFirms, PeopleInv
  <1>8. NoEmptyFirm'
    BY <1>1, <1>2 DEF NoEmptyFirm, PeopleInv
  <1>9. QED BY <1>4, <1>5, <1>6, <1>7, <1>8

\* A sign-up that is not refused brings a firm and its admin.
LEMMA Founding ==
  ASSUME Tables, NEW r \in Requests, Register(r) \/ RegisterVerified(r), ~ Fails(r)
  PROVE  /\ Ends(r) /\ UNCHANGED <<orgs, access, log, mails, used, past>>
         /\ \E u \in Users, f \in Firms :
              /\ users[u] = None /\ firms' = firms \cup {f}
              /\ ByEmail(req[r].email) = {}
              /\ users' = [users EXCEPT ![u] = Account(f, req[r].email, "admin", "active", "all", TRUE, None)]
  <1>1. /\ CreateFirmAndAdmin(req[r].email) /\ Ends(r) /\ ByEmail(req[r].email) = {}
        /\ UNCHANGED <<orgs, access, log, mails, used, past>>
    BY DEF Register, RegisterVerified, SaveFirm
  <1>2. QED BY <1>1, FreshIs DEF CreateFirmAndAdmin

LEMMA FoundingPeople ==
  ASSUME TeamInv, PeopleInv, NEW r \in Requests, Register(r) \/ RegisterVerified(r), ~ Fails(r)
  PROVE  PeopleInv'
  <1>1. Tables /\ WellFormed(req[r]) /\ used.token \in Nat
    BY DEF TeamInv, Informed, Tables
  <1>2. req[r].email \in Emails
    BY <1>1 DEF Register, RegisterVerified, At, WellFormed, ByMail
  <1>3. PICK u \in Users, f \in Firms :
          /\ users[u] = None /\ firms' = firms \cup {f}
          /\ ByEmail(req[r].email) = {}
          /\ users' = [users EXCEPT ![u] = Account(f, req[r].email, "admin", "active", "all", TRUE, None)]
    BY <1>1, Founding
  <1> DEFINE row == Account(f, req[r].email, "admin", "active", "all", TRUE, None)
  <1>4. row \in Row
    BY <1>2, AccountIs DEF Modes
  <1>5. row.firm = f /\ row.email = req[r].email /\ row.role = "admin" /\ row.invite = None
    BY DEF Account
  <1>6. used' = used /\ Ends(r)
    BY <1>1, Founding
  <1> HIDE DEF row
  <1>7. /\ users' = [users EXCEPT ![u] = row] /\ users[u] = None
        /\ firms' = firms \cup {f} /\ ByEmail(row.email) = {}
    BY <1>3, <1>5 DEF row
  <1>8. /\ firms \subseteq firms' /\ row.firm \in firms' \cup {None}
        /\ \A g \in firms' : g \in firms \/ (g = row.firm /\ row.role = "admin")
    BY <1>5, <1>7
  <1>9. used.token \in Nat /\ used'.token \in Nat /\ used.token <= used'.token
    BY <1>1, <1>6
  <1>10. RolesStay /\ OneAddress' /\ OneToken' /\ OfFirms' /\ NoEmptyFirm'
    BY <1>4, <1>5, <1>7, <1>8, <1>9, Arrival
  <1>11. \A p \in Requests : Entitled(p)'
    BY <1>1, <1>6, <1>8, <1>10, EndsEffect, GoesOnEntitled
  <1>12. QED BY <1>10, <1>11 DEF PeopleInv

\* An invitation that is not refused brings a member.
LEMMA Inviting ==
  ASSUME TeamInv, NEW r \in Requests, Invite(r), ~ Fails(r)
  PROVE  /\ UNCHANGED <<firms, orgs, otp, log, mails>>
         /\ req[r].op = "invite" /\ req[r].at = "commit"
         /\ req[r].orgs \in SUBSET Orgs /\ \A o \in req[r].orgs : OrgExists(o)
         /\ ByEmail(req[r].email) = {}
         /\ used' = [used EXCEPT !.token = @ + 1, !.row = @ + 1]
         /\ \E u \in Users, row \in Row :
              /\ users[u] = None /\ users' = [users EXCEPT ![u] = row]
              /\ row.firm = req[r].firm /\ row.email = req[r].email
              /\ row.role = "team_member" /\ row.invite = used.token + 1
              /\ access' = access \cup NewRows(u, req[r].orgs)
              /\ past' = [past EXCEPT !.granted[u] = req[r].orgs]
              /\ req' = [req EXCEPT ![r] = [req[r] EXCEPT !.at = "send", !.user = u]]
  <1> DEFINE q == req[r]
  <1>1. Tables /\ WellFormed(q) /\ q \in Request
    BY DEF TeamInv, Informed, Tables
  <1>2. /\ q.op = "invite" /\ q.at = "commit" /\ q.email \in Emails /\ q.mode \in Modes
        /\ q.firm \in Firms \cup {None} /\ q.orgs \in SUBSET Orgs
    BY <1>1 DEF Invite, At, WellFormed, ByMail, Request
  <1>3. /\ ByEmail(q.email) = {} /\ \A o \in q.orgs : OrgExists(o)
        /\ used' = [used EXCEPT !.token = @ + 1, !.row = @ + 1]
        /\ UNCHANGED <<firms, orgs, otp, log, mails>>
    BY DEF Invite
  <1>4. PICK u \in FreshUser :
          /\ users' = [users EXCEPT ![u] = Account(q.firm, q.email, "team_member", "invited", q.mode,
                                                   FALSE, used.token + 1)]
          /\ access' = access \cup NewRows(u, q.orgs)
          /\ past' = [past EXCEPT !.granted[u] = q.orgs]
          /\ req' = [req EXCEPT ![r].at = "send", ![r].user = u]
    BY DEF Invite
  <1>5. u \in Users /\ users[u] = None
    BY FreshIs
  <1> DEFINE n == used.token + 1
             row == Account(q.firm, q.email, "team_member", "invited", q.mode, FALSE, n)
  <1>6. n \in Nat
    BY <1>1 DEF Tables
  <1>7. row.firm = q.firm /\ row.email = q.email /\ row.role = "team_member" /\ row.invite = n
    BY DEF Account
  <1>8. row \in Row
    <2> HIDE DEF n
    <2>1. QED BY <1>2, <1>6, AccountIs
  <1>9. req' = [req EXCEPT ![r] = [q EXCEPT !.at = "send", !.user = u]]
    BY <1>1, <1>4 DEF Tables, Request
  <1>10. users' = [users EXCEPT ![u] = row]
    BY <1>4
  <1> HIDE DEF row
  <1>11. QED BY <1>2, <1>3, <1>4, <1>5, <1>7, <1>8, <1>9, <1>10
LEMMA InvitingPeople ==
  ASSUME TeamInv, PeopleInv, NEW r \in Requests, Invite(r), ~ Fails(r)
  PROVE  PeopleInv'
  <1>1. Tables /\ req[r] \in Request /\ used \in [token : Nat, code : Nat, row : Nat]
    BY DEF TeamInv, Tables
  <1>2. /\ firms' = firms /\ req[r].op = "invite" /\ ByEmail(req[r].email) = {}
        /\ used' = [used EXCEPT !.token = @ + 1, !.row = @ + 1]
    BY Inviting
  <1>3. PICK u \in Users, row \in Row :
          /\ users[u] = None /\ users' = [users EXCEPT ![u] = row]
          /\ row.firm = req[r].firm /\ row.email = req[r].email
          /\ row.role = "team_member" /\ row.invite = used.token + 1
          /\ access' = access \cup NewRows(u, req[r].orgs)
          /\ past' = [past EXCEPT !.granted[u] = req[r].orgs]
          /\ req' = [req EXCEPT ![r] = [req[r] EXCEPT !.at = "send", !.user = u]]
    BY Inviting
  <1>4. row.firm \in firms' \cup {None}
    BY <1>2, <1>3 DEF PeopleInv, Entitled
  <1>5. /\ used.token \in Nat /\ used'.token \in Nat /\ used.token <= used'.token
        /\ used'.token = used.token + 1
    BY <1>1, <1>2
  <1>6. \A f \in firms' : f \in firms \/ (f = row.firm /\ row.role = "admin")
    BY <1>2
  <1>7. RolesStay /\ OneAddress' /\ OneToken' /\ OfFirms' /\ NoEmptyFirm'
    <2>1. firms \subseteq firms' /\ ByEmail(row.email) = {} /\ row.invite = used'.token
      BY <1>2, <1>3, <1>5
    <2>2. QED BY <1>3, <1>4, <1>5, <1>6, <2>1, Arrival
  <1>8. \A p \in Requests : Entitled(p)'
    <2> DEFINE q == [req[r] EXCEPT !.at = "send", !.user = u]
    <2>1. q.op = "invite" /\ q.firm = req[r].firm
      BY <1>1, <1>2 DEF Request
    <2> HIDE DEF q
    <2>2. req'[r] = q /\ \A p \in Requests : p # r => req'[p] = req[p]
      BY <1>1, <1>3 DEF Tables, q
    <2>3. QED BY <1>2, <1>7, <2>1, <2>2, GoesOnEntitled
  <1>9. QED BY <1>7, <1>8 DEF PeopleInv

\* A fresh token is all that a resend writes.
LEMMA ResendSame ==
  ASSUME TeamInv, NEW r \in Requests, Resend(r), ~ Fails(r)
  PROVE  /\ SamePeople /\ req[r].user \in Users /\ Exists(req[r].user)
         /\ users'[req[r].user].invite = used.token + 1
         /\ \A u \in Users : u # req[r].user => users'[u] = users[u]
         /\ firms' = firms /\ used.token \in Nat /\ used'.token = used.token + 1
         /\ req[r].op = "resend" /\ req' = [req EXCEPT ![r].at = "send"]
  <1> DEFINE q == req[r]
             v == req[r].user
             row == [users[v] EXCEPT !.invite = used.token + 1, !.expired = FALSE]
  <1>1. Tables /\ WellFormed(q) /\ q \in Request /\ used \in [token : Nat, code : Nat, row : Nat]
    BY DEF TeamInv, Informed, Tables
  <1>2. /\ Exists(v) /\ users' = [users EXCEPT ![v] = row]
        /\ used' = [used EXCEPT !.token = @ + 1]
        /\ req' = [req EXCEPT ![r].at = "send"]
        /\ firms' = firms
    BY DEF Resend
  <1>3. v \in Users /\ q.op = "resend"
    BY <1>1 DEF Resend, At, WellFormed, OnUser
  <1>4. users[v] \in Row
    BY <1>1, <1>2, <1>3, ExistsIsRow
  <1>5. used.token \in Nat /\ used.token + 1 \in Nat /\ used'.token = used.token + 1
    BY <1>1, <1>2
  <1>6. /\ row \in Row /\ row.email = users[v].email /\ row.role = users[v].role
        /\ row.firm = users[v].firm /\ row.invite = used.token + 1
    BY <1>4, <1>5 DEF Row
  <1> HIDE DEF row
  <1>7. /\ SamePeople /\ users'[v] = row
        /\ \A u \in Users : u # v => users'[u] = users[u]
    BY <1>1, <1>2, <1>3, <1>6, Edited
  <1>8. QED BY <1>2, <1>3, <1>5, <1>6, <1>7

\* A fresh token is nobody else's.
LEMMA ResendPeople ==
  ASSUME TeamInv, PeopleInv, NEW r \in Requests, Resend(r), ~ Fails(r)
  PROVE  PeopleInv'
  <1>1. Tables /\ req[r] \in Request
    BY DEF TeamInv, Tables
  <1>2. PICK v \in Users :
          /\ v = req[r].user /\ Exists(v) /\ users'[v].invite = used.token + 1
          /\ \A u \in Users : u # v => users'[u] = users[u]
    BY ResendSame
  <1>3. /\ SamePeople /\ firms' = firms /\ used.token \in Nat /\ used'.token = used.token + 1
        /\ req[r].op = "resend" /\ req' = [req EXCEPT ![r].at = "send"]
    BY ResendSame
  <1>4. OneAddress' /\ OfFirms' /\ NoEmptyFirm'
    BY <1>3 DEF PeopleInv, OneAddress, OfFirms, NoEmptyFirm, SamePeople
  <1>5. OneToken'
    <2>1. \A u \in Users : Exists(u)' <=> Exists(u)
      BY <1>3 DEF SamePeople
    <2>2. \A u \in Users : Exists(u) /\ users[u].invite # None =>
            users[u].invite \in Nat /\ users[u].invite <= used.token
      BY DEF PeopleInv, OneToken
    <2>3. \A u \in Users : Exists(u) /\ users[u].invite # None => users[u].invite # used.token + 1
      BY <1>3, <2>2
    <2>4. used.token + 1 # None
      BY <1>3, NoneAssumption
    <2>5. QED BY <1>2, <1>3, <2>1, <2>2, <2>3, <2>4 DEF OneToken, PeopleInv
  <1>6. \A p \in Requests : Entitled(p)'
    <2>1. /\ \A p \in Requests : p # r => req'[p] = req[p]
          /\ req'[r] = [req[r] EXCEPT !.at = "send"]
      BY <1>1, <1>3 DEF Tables
    <2>2. req'[r].op = req[r].op /\ req'[r].firm = req[r].firm
      BY <1>1, <2>1 DEF Request
    <2>3. QED BY <1>3, <2>1, <2>2, SameRoles, GoesOnEntitled
  <1>7. QED BY <1>4, <1>5, <1>6 DEF PeopleInv

\* Whoever is removed is no admin.
LEMMA RemovePeople ==
  ASSUME TeamInv, PeopleInv, NEW r \in Requests, Remove(r)
  PROVE  PeopleInv'
  <1> DEFINE v == req[r].user
  <1>1. Tables /\ WellFormed(req[r]) /\ used.token \in Nat
    BY DEF TeamInv, Informed, Tables
  <1>2. /\ users' = [users EXCEPT ![v] = Gone] /\ firms' = firms /\ used' = used /\ Ends(r)
        /\ req[r].op = "remove"
    BY DEF Remove, At
  <1>3. v \in Users
    BY <1>1, <1>2 DEF WellFormed, OnUser
  <1>4. /\ \A u \in Users : u # v => users'[u] = users[u]
        /\ \A u \in Users : Exists(u)' => Exists(u) /\ users'[u] = users[u]
    <2>1. users'[v] = Gone /\ \A u \in Users : u # v => users'[u] = users[u]
      BY <1>1, <1>2, <1>3 DEF Tables
    <2> HIDE DEF v
    <2>2. QED BY <2>1 DEF Exists
  <1>5. OneAddress' /\ OneToken' /\ OfFirms'
    BY <1>2, <1>4 DEF PeopleInv, OneAddress, OneToken, OfFirms
  <1>6. NoEmptyFirm'
    <2> SUFFICES ASSUME NEW f \in firms
                 PROVE  \E u \in Users : Exists(u)' /\ users'[u].firm = f /\ users'[u].role = "admin"
      BY <1>2 DEF NoEmptyFirm
    <2>1. PICK u \in Users : Exists(u) /\ users[u].firm = f /\ users[u].role = "admin"
      BY DEF PeopleInv, NoEmptyFirm
    <2>2. u # v
      BY <1>2, <2>1 DEF PeopleInv, Entitled
    <2>3. QED BY <1>4, <2>1, <2>2 DEF Exists
  <1>7. RolesStay
    BY <1>4 DEF RolesStay
  <1>8. \A p \in Requests : Entitled(p)'
    BY <1>1, <1>2, <1>7, EndsEffect, GoesOnEntitled
  <1>9. QED BY <1>5, <1>6, <1>8 DEF PeopleInv
\* What a request that is served, and neither begins nor fails, is at.
LEMMA ServedIsAt ==
  ASSUME TeamInv, NEW r \in Requests,
         \/ CheckOtp(r) \/ AcceptInvite(r) \/ SetUserCompanies(r) \/ Disable(r) \/ Enable(r)
         \/ (\E ok \in BOOLEAN : Send(r, ok)) \/ RecordSend(r) \/ Fails(r)
  PROVE  /\ \A p \in Requests : p # r => req'[p] = req[p]
         /\ req'[r] # Nothing => /\ req'[r].op = req[r].op /\ req'[r].firm = req[r].firm
                                 /\ req'[r].user = req[r].user /\ req'[r].email = req[r].email
                                 /\ req'[r].op # "assign" /\ ~ Ends(r)
         /\ firms' = firms /\ used'.token = used.token
  <1>1. Tables /\ req[r] \in Request /\ used \in [token : Nat, code : Nat, row : Nat]
    BY DEF TeamInv, Tables
  <1>2. firms' = firms /\ used'.token = used.token
    BY <1>1 DEF CheckOtp, AcceptInvite, SetUserCompanies, Disable, Enable, SetStatus, Send, RecordSend, Fails
  <1>3. CASE Ends(r)
    BY <1>1, <1>2, <1>3, EndsEffect
  <1>4. CASE ~ Ends(r)
    <2>1. CASE CheckOtp(r)
      <3>1. req' = [req EXCEPT ![r].at = "commit"] /\ req[r].op = "verify"
        BY <1>4, <2>1 DEF CheckOtp, At
      <3>2. /\ req'[r] = [req[r] EXCEPT !.at = "commit"]
            /\ \A p \in Requests : p # r => req'[p] = req[p]
        BY <1>1, <3>1 DEF Tables
      <3>3. QED BY <1>1, <1>2, <1>4, <3>1, <3>2 DEF Request
    <2>2. CASE \E ok \in BOOLEAN : Send(r, ok)
      <3>1. PICK code : req' = [req EXCEPT ![r].at = "record", ![r].code = code]
        BY <2>2 DEF Send
      <3>2. req[r].op \in {"invite", "resend"}
        BY <2>2 DEF Send, Mailing
      <3>3. /\ req'[r] = [req[r] EXCEPT !.at = "record", !.code = code]
            /\ \A p \in Requests : p # r => req'[p] = req[p]
        BY <1>1, <3>1 DEF Tables
      <3>4. QED BY <1>1, <1>2, <1>4, <3>2, <3>3 DEF Request
    <2>3. QED BY <1>4, <2>1, <2>2 DEF AcceptInvite, SetUserCompanies, Disable, Enable, SetStatus,
                                      RecordSend, Fails
  <1>5. QED BY <1>3, <1>4

LEMMA NextPeople ==
  ASSUME TeamInv, PeopleInv, [Next]_vars
  PROVE  PeopleInv'
  <1>1. Tables /\ used \in [token : Nat, code : Nat, row : Nat]
    BY DEF TeamInv, Tables
  <1>2. ASSUME NEW r \in Requests, Serve(r) PROVE PeopleInv'
    <2>1. CASE \/ CheckOtp(r) \/ AcceptInvite(r) \/ SetUserCompanies(r) \/ Disable(r) \/ Enable(r)
               \/ (\E ok \in BOOLEAN : Send(r, ok)) \/ RecordSend(r) \/ Fails(r)
      <3>1. SamePeople /\ SameInvites /\ RolesStay
        BY <2>1, ServedSame, SameRoles
      <3>2. firms' = firms /\ used'.token = used.token /\ used.token \in Nat
        BY <1>1, <2>1, ServedIsAt
      <3>3. \A p \in Requests : Entitled(p)'
        BY <2>1, <3>1, <3>2, ServedIsAt, GoesOnEntitled
      <3>4. QED BY <3>1, <3>2, <3>3, QuietPeople
    <2>2. QED BY <1>2, <2>1, FoundingPeople, InvitingPeople, ResendPeople, RemovePeople DEF Serve, Aborts
  <1>3. CASE Outside
    <2>1. SamePeople /\ SameInvites
      BY <1>3, OutsideSame
    <2>2. firms' = firms /\ req' = req
      BY <1>3 DEF Outside, RequestOtp, OtpExpires, InviteExpires, DeliveryEvent, RemoveCompany
    <2>3. used'.token = used.token /\ used.token \in Nat
      BY <1>1, <1>3 DEF Outside, RequestOtp, OtpExpires, InviteExpires, DeliveryEvent, RemoveCompany
    <2>4. \A p \in Requests : Entitled(p)'
      BY <2>1, <2>2, SameRoles, StaysEntitled
    <2>5. QED BY <2>1, <2>2, <2>3, <2>4, QuietPeople
  <1>4. CASE UNCHANGED vars
    <2>1. users' = users /\ firms' = firms /\ used' = used /\ req' = req
      BY <1>4 DEF vars
    <2>2. SamePeople /\ SameInvites
      BY <2>1, SameUsers
    <2>3. \A p \in Requests : Entitled(p)'
      BY <2>1, <2>2, SameRoles, StaysEntitled
    <2>4. QED BY <1>1, <2>1, <2>2, <2>3, QuietPeople
  <1>5. QED BY <1>2, <1>3, <1>4, AskPeople DEF Next

\* Signing up makes the firm and its first admin together, nobody may remove
\* an admin, and a role is for good: no firm is ever without one, however
\* many sign-ups of one address race.
THEOREM FirmTheorem == Spec => []NoEmptyFirm
  <1>1. Init => TeamInv /\ PeopleInv
    BY InitHolds, PeopleInit
  <1>2. TeamInv /\ PeopleInv /\ [Next]_vars => (TeamInv /\ PeopleInv)'
    BY NextKeeps, NextPeople
  <1>3. PeopleInv => NoEmptyFirm
    BY DEF PeopleInv
  <1>4. QED BY <1>1, <1>2, <1>3, PTL DEF Spec
-----------------------------------------------------------------------------
(* What each may see.                                                      *)

HasRow(u, o) == \E x \in access : x.user = u /\ x.org = o

\* A company that is gone is not active, and a row is of a user and a company
\* that exist.
RowsAreReal ==
  /\ \A o \in Orgs : orgs[o].active => OrgExists(o)
  /\ \A x \in access : Exists(x.user) /\ OrgExists(x.org)

\* A member has what the last assignment named.
AsGranted(u) ==
  Exists(u) /\ u \notin past.crossed /\ users[u].role # "admin" =>
    \A o \in Orgs : HasRow(u, o) <=> o \in past.granted[u] /\ OrgExists(o)

\* An assignment that crosses no other has read every row of its user.
ReadsAll(r) ==
  req[r].op = "assign" =>
    /\ req[r].at = "commit"
    /\ \A x \in req[r].rows : x.user = req[r].user
    /\ req[r].user \notin past.crossed =>
         \A x \in access : x.user = req[r].user => x \in req[r].rows

AccessInv ==
  /\ orgs \in [Orgs -> [firm : Firms \cup {None, Gone}, active : BOOLEAN]]
  /\ RowsAreReal
  /\ \A u \in Users : AsGranted(u)
  /\ \A r \in Requests : ReadsAll(r)

LEMMA AccessInit == Init => AccessInv
  <1> SUFFICES ASSUME Init PROVE AccessInv
    OBVIOUS
  <1>1. /\ orgs \in [Orgs -> [firm : Firms \cup {None, Gone}, active : BOOLEAN]]
        /\ \A o \in Orgs : OrgExists(o)
    BY NoneAssumption DEF Init, OrgExists
  <1>2. RowsAreReal
    BY <1>1 DEF Init, RowsAreReal
  <1>3. \A u \in Users : AsGranted(u)
    BY DEF Init, AsGranted, Exists
  <1>4. \A r \in Requests : ReadsAll(r)
    BY NoneAssumption DEF Init, ReadsAll, Nothing
  <1>5. QED BY <1>1, <1>2, <1>3, <1>4 DEF AccessInv

LEMMA AccessRows ==
  ASSUME Tables, NEW x \in access
  PROVE  x.user \in Users /\ x.org \in Orgs
  BY DEF Tables, Assignment

\* A request the step leaves alone has read every row, if its user got none
\* but by a crossing assignment.
LEMMA StaysReading ==
  ASSUME AccessInv, past.crossed \subseteq past'.crossed, NEW p \in Requests, req'[p] = req[p],
         req[p].op = "assign" /\ req[p].user \notin past'.crossed =>
            \A x \in access' : x.user = req[p].user => x \in access
  PROVE  ReadsAll(p)'
  BY DEF AccessInv, ReadsAll

LEMMA NotAssigning ==
  ASSUME NEW r \in Requests, req'[r].op # "assign"
  PROVE  ReadsAll(r)'
  BY DEF ReadsAll

LEMMA NothingAssigns == Nothing.op # "assign"
  BY NoneAssumption DEF Nothing

\* Neither a row nor a company changes, and nobody comes or goes.
LEMMA QuietAccess ==
  ASSUME TeamInv, AccessInv, SamePeople, UNCHANGED <<access, orgs>>,
         past'.granted = past.granted, past'.crossed = past.crossed,
         \A r \in Requests : req'[r] = req[r] \/ req'[r].op # "assign" \/ ReadsAll(r)'
  PROVE  AccessInv'
  <1>1. RowsAreReal'
    <2> SUFFICES ASSUME NEW x \in access PROVE users'[x.user] \notin {None, Gone}
      BY DEF RowsAreReal, AccessInv, OrgExists, Exists
    <2>1. Exists(x.user) /\ x.user \in Users
      BY AccessRows DEF AccessInv, RowsAreReal, TeamInv
    <2>2. QED BY <2>1 DEF SamePeople, Exists
  <1>2. \A u \in Users : AsGranted(u)'
    BY DEF AsGranted, HasRow, OrgExists, SamePeople, AccessInv
  <1>3. \A r \in Requests : ReadsAll(r)'
    BY StaysReading, NotAssigning
  <1>4. QED BY <1>1, <1>2, <1>3 DEF AccessInv
LEMMA AskAccess ==
  ASSUME TeamInv, AccessInv, NEW r \in Requests, Ask(r)
  PROVE  AccessInv'
  <1>1. Tables
    BY DEF TeamInv
  <1>2. PICK q : Begin(r, q)
    BY DEF Ask, StartRegister, ReadOtp, StartInvite, ReadInvite, StartResend, StartDisable,
           StartEnable, StartRemove, StartAssign
  <1>3. /\ req'[r] = q
        /\ \A p \in Requests : p # r => req'[p] = req[p]
        /\ UNCHANGED <<users, firms, orgs, access, otp, log, mails, used, past>>
    BY <1>1, <1>2, Begun
  <1>4. SamePeople
    BY <1>3, SameUsers
  <1>5. req'[r].op # "assign" \/ ReadsAll(r)'
    <2>1. \A op \in OnUser, u \in Users : Loaded(op, u).op = op
      BY DEF Loaded, Nothing
    <2>2. CASE \E a, u \in Users, c \in Choices : StartAssign(r, a, u, c[1], c[2])
      <3>1. PICK a \in Users, u \in Users, c \in Choices : StartAssign(r, a, u, c[1], c[2])
        BY <2>2
      <3> DEFINE new == [Loaded("assign", u) EXCEPT !.mode = c[1], !.orgs = c[2], !.rows = RowsOf(u)]
      <3>2. Begin(r, new)
        BY <3>1 DEF StartAssign
      <3>3. new.at = "commit" /\ new.user = u /\ new.rows = RowsOf(u)
        BY DEF Loaded, Nothing
      <3> HIDE DEF new
      <3>4. req'[r].at = "commit" /\ req'[r].user = u /\ req'[r].rows = RowsOf(u)
        BY <1>1, <3>2, <3>3, Begun
      <3>5. \A x \in access : x \in RowsOf(u) <=> x.user = u
        BY DEF RowsOf
      <3>6. RowsOf(u) \subseteq access
        BY DEF RowsOf
      <3>7. access' = access
        BY <1>3
      <3>8. QED BY <3>4, <3>5, <3>6, <3>7 DEF ReadsAll
    <2>3. CASE \E e \in Emails : StartRegister(r, e)
      <3>1. PICK e \in Emails : req'[r] = [Nothing EXCEPT !.op = "register", !.at = "commit", !.email = e]
        BY <1>1, <2>3, Begun DEF StartRegister
      <3>2. QED BY <3>1 DEF Nothing
    <2>4. CASE \E e \in Emails, code \in 0 .. used.code : ReadOtp(r, e, code)
      <3>1. PICK e \in Emails, code \in 0 .. used.code :
              req'[r] = [Nothing EXCEPT !.op = "verify", !.at = "check", !.email = e, !.otp = otp[e], !.code = code]
        BY ZenonT(40), <1>1, <2>4, Begun DEF ReadOtp
      <3>2. QED BY <3>1 DEF Nothing
    <2>5. CASE \E e \in Emails, a \in Users, c \in Choices : StartInvite(r, a, e, c[1], c[2])
      <3>1. PICK e \in Emails, a \in Users, c \in Choices : StartInvite(r, a, e, c[1], c[2])
        BY <2>5
      <3>2. req'[r] = [Nothing EXCEPT !.op = "invite", !.at = "commit", !.email = e,
                                      !.firm = users[a].firm, !.mode = c[1], !.orgs = c[2]]
        BY <1>1, <3>1, Begun DEF StartInvite
      <3>3. QED BY <3>2 DEF Nothing
    <2>6. CASE \E a, u \in Users : StartResend(r, a, u)
      <3>1. PICK u \in Users : req'[r] = [Loaded("resend", u) EXCEPT !.email = users[u].email]
        BY <1>1, <2>6, Begun DEF StartResend
      <3>2. QED BY <3>1 DEF Loaded, Nothing
    <2>7. CASE \/ \E token \in 1 .. used.token : ReadInvite(r, token)
               \/ \E a, u \in Users : StartDisable(r, a, u) \/ StartEnable(r, a, u) \/ StartRemove(r, a, u)
      <3>1. PICK u \in Users, op \in {"accept", "disable", "enable", "remove"} : req'[r] = Loaded(op, u)
        BY <1>1, <2>7, Begun DEF ReadInvite, StartDisable, StartEnable, StartRemove
      <3>2. QED BY <2>1, <3>1 DEF OnUser
    <2>8. QED BY <2>2, <2>3, <2>4, <2>5, <2>6, <2>7 DEF Ask
  <1>6. QED BY <1>3, <1>4, <1>5, QuietAccess

\* Whoever founds a firm is an admin.
LEMMA FoundingAccess ==
  ASSUME TeamInv, AccessInv, NEW r \in Requests, Register(r) \/ RegisterVerified(r), ~ Fails(r)
  PROVE  AccessInv'
  <1>1. Tables /\ WellFormed(req[r])
    BY DEF TeamInv, Informed
  <1>2. req[r].email \in Emails
    BY <1>1 DEF Register, RegisterVerified, At, WellFormed, ByMail
  <1>3. PICK u \in Users, f \in Firms :
          /\ users[u] = None /\ firms' = firms \cup {f}
          /\ ByEmail(req[r].email) = {}
          /\ users' = [users EXCEPT ![u] = Account(f, req[r].email, "admin", "active", "all", TRUE, None)]
    BY <1>1, Founding
  <1> DEFINE row == Account(f, req[r].email, "admin", "active", "all", TRUE, None)
  <1>4. row \in Row /\ row.role = "admin"
    BY <1>2, AccountIs DEF Modes, Account
  <1> HIDE DEF row
  <1>5. /\ users'[u] = row /\ users[u] = None
        /\ \A v \in Users : v # u => users'[v] = users[v]
    BY <1>1, <1>3 DEF Tables, row
  <1>6. Ends(r) /\ UNCHANGED <<orgs, access, past>>
    BY <1>1, Founding
  <1>7. /\ \A v \in Users : v # u => (Exists(v)' <=> Exists(v))
        /\ Exists(u)' /\ ~ Exists(u)
    BY <1>4, <1>5, NoneAssumption DEF Exists
  <1>8. RowsAreReal'
    <2> SUFFICES ASSUME NEW x \in access PROVE users'[x.user] \notin {None, Gone}
      BY <1>6 DEF RowsAreReal, AccessInv, OrgExists, Exists
    <2>1. Exists(x.user) /\ x.user \in Users
      BY <1>1, AccessRows DEF AccessInv, RowsAreReal
    <2>2. QED BY <1>7, <2>1 DEF Exists
  <1>9. \A v \in Users : AsGranted(v)'
    BY <1>4, <1>5, <1>6, <1>7 DEF AsGranted, HasRow, OrgExists, AccessInv
  <1>10. \A p \in Requests : ReadsAll(p)'
    <2>1. \A p \in Requests : p # r => req'[p] = req[p]
      BY <1>1, <1>6, EndsEffect
    <2>2. req'[r].op # "assign"
      BY <1>1, <1>6, EndsEffect, NothingAssigns
    <2>3. QED BY <1>6, <2>1, <2>2, StaysReading, NotAssigning
  <1>11. QED BY <1>6, <1>8, <1>9, <1>10 DEF AccessInv

LEMMA NewRowsAre ==
  ASSUME NEW u, NEW chosen
  PROVE  /\ \A x \in NewRows(u, chosen) : x.user = u /\ x.org \in chosen
         /\ \A o \in chosen : \E x \in NewRows(u, chosen) : x.org = o
  <1>1. \A x \in NewRows(u, chosen) : x.user = u /\ x.org \in chosen
    BY DEF NewRows
  <1>2. ASSUME NEW o \in chosen PROVE \E x \in NewRows(u, chosen) : x.org = o
    <2> DEFINE x == [id |-> used.row + 1, user |-> u, org |-> o]
    <2>1. x \in NewRows(u, chosen) /\ x.org = o
      BY DEF NewRows
    <2> HIDE DEF x
    <2>2. QED BY <2>1
  <1>3. QED BY <1>1, <1>2

\* The invited has what the invitation names.
LEMMA InvitingAccess ==
  ASSUME TeamInv, AccessInv, NEW r \in Requests, Invite(r), ~ Fails(r)
  PROVE  AccessInv'
  <1> DEFINE chosen == req[r].orgs
  <1>1. Tables /\ req[r] \in Request /\ past \in Past
    BY DEF TeamInv, Tables
  <1>2. /\ orgs' = orgs /\ req[r].op = "invite"
        /\ chosen \in SUBSET Orgs /\ \A o \in chosen : OrgExists(o)
    BY Inviting
  <1>3. PICK u \in Users, row \in Row :
          /\ users[u] = None /\ users' = [users EXCEPT ![u] = row]
          /\ row.firm = req[r].firm /\ row.email = req[r].email
          /\ row.role = "team_member" /\ row.invite = used.token + 1
          /\ access' = access \cup NewRows(u, req[r].orgs)
          /\ past' = [past EXCEPT !.granted[u] = req[r].orgs]
          /\ req' = [req EXCEPT ![r] = [req[r] EXCEPT !.at = "send", !.user = u]]
    BY Inviting
  <1>4. /\ users'[u] = row
        /\ \A v \in Users : v # u => users'[v] = users[v]
    BY <1>1, <1>3 DEF Tables
  <1>5. /\ \A v \in Users : v # u => (Exists(v)' <=> Exists(v))
        /\ Exists(u)' /\ ~ Exists(u)
    BY <1>3, <1>4, NoneAssumption DEF Exists
  <1>6. /\ past'.granted[u] = chosen /\ past'.crossed = past.crossed
        /\ \A v \in Users : v # u => past'.granted[v] = past.granted[v]
    BY <1>1, <1>3 DEF Past
  <1>7. /\ \A x \in NewRows(u, chosen) : x.user = u /\ x.org \in chosen
        /\ \A o \in chosen : \E x \in NewRows(u, chosen) : x.org = o
    BY NewRowsAre
  <1>8. \A x \in access : x.user \in Users /\ x.user # u /\ Exists(x.user) /\ OrgExists(x.org)
    BY <1>1, <1>5, AccessRows DEF AccessInv, RowsAreReal
  <1>9. access' = access \cup NewRows(u, chosen)
    BY <1>3
  <1> HIDE DEF chosen
  <1>10. RowsAreReal'
    <2>1. \A o \in Orgs : orgs'[o].active => orgs'[o].firm # Gone
      BY <1>2 DEF AccessInv, RowsAreReal, OrgExists
    <2>2. \A x \in access' : users'[x.user] \notin {None, Gone} /\ orgs'[x.org].firm # Gone
      <3> SUFFICES ASSUME NEW x \in access'
                   PROVE  users'[x.user] \notin {None, Gone} /\ orgs'[x.org].firm # Gone
        OBVIOUS
      <3>1. CASE x \in access
        BY <1>2, <1>4, <1>8, <3>1 DEF Exists, OrgExists
      <3>2. CASE x \in NewRows(u, chosen)
        BY <1>2, <1>5, <1>7, <3>2 DEF Exists, OrgExists
      <3>3. QED BY <1>9, <3>1, <3>2
    <2>3. QED BY <2>1, <2>2 DEF RowsAreReal, OrgExists, Exists
  <1>11. ASSUME NEW v \in Users PROVE AsGranted(v)'
    <2>1. CASE v = u
      <3>1. \A o \in Orgs : HasRow(u, o)' <=> o \in chosen
        BY <1>7, <1>8, <1>9 DEF HasRow
      <3>2. \A o \in chosen : OrgExists(o)'
        BY <1>2 DEF OrgExists
      <3>3. QED BY <1>6, <2>1, <3>1, <3>2 DEF AsGranted
    <2>2. CASE v # u
      <3>1. \A o \in Orgs : /\ HasRow(v, o)' <=> HasRow(v, o)
                            /\ OrgExists(o)' <=> OrgExists(o)
        BY <1>2, <1>7, <1>9, <2>2 DEF HasRow, OrgExists
      <3>2. AsGranted(v)
        BY DEF AccessInv
      <3>3. QED BY <1>4, <1>5, <1>6, <2>2, <3>1, <3>2 DEF AsGranted
    <2>3. QED BY <2>1, <2>2
  <1>12. ASSUME NEW p \in Requests PROVE ReadsAll(p)'
    <2>1. CASE p = r
      <3>1. req'[r] = [req[r] EXCEPT !.at = "send", !.user = u]
        BY <1>1, <1>3 DEF Tables
      <3>2. req'[r].op = "invite"
        BY <1>1, <1>2, <3>1 DEF Request
      <3>3. QED BY <2>1, <3>2, NotAssigning
    <2>2. CASE p # r
      <3>1. req'[p] = req[p]
        BY <1>1, <1>3, <2>2 DEF Tables
      <3>2. req[p].op = "assign" => req[p].user # u
        BY <1>3 DEF TeamInv, Informed, WellFormed, OnUser
      <3>3. QED BY <1>6, <1>7, <1>9, <3>1, <3>2, StaysReading
    <2>3. QED BY <2>1, <2>2
  <1>13. QED BY <1>2, <1>10, <1>11, <1>12 DEF AccessInv

\* The assigned has what the assignment names, if it read all he had.
LEMMA AssigningAccess ==
  ASSUME TeamInv, AccessInv, NEW r \in Requests, SetUserCompanies(r), ~ Fails(r)
  PROVE  AccessInv'
  <1> DEFINE u == req[r].user
             chosen == req[r].orgs
             others == {x \in Requests \ {r} : At(x, "assign", "commit") /\ req[x].user = u}
  <1>1. Tables /\ req[r] \in Request /\ past \in Past /\ WellFormed(req[r])
    BY DEF TeamInv, Tables, Informed
  <1>2. /\ req[r].op = "assign" /\ u \in Users /\ chosen \in SUBSET Orgs
        /\ Ends(r) /\ UNCHANGED <<firms, orgs>>
        /\ \A o \in chosen : OrgExists(o)
        /\ chosen # {} => Exists(u)
        /\ access' = (access \ req[r].rows) \cup NewRows(u, chosen)
    BY <1>1 DEF SetUserCompanies, At, WellFormed, OnUser, Request, Replaced
  <1>3. past' = [past EXCEPT !.granted[u] = chosen, !.crossed = @ \cup {u : s \in others}]
    BY DEF SetUserCompanies
  <1> HIDE DEF others
  <1>4. /\ past'.granted[u] = chosen
        /\ \A v \in Users : v # u => past'.granted[v] = past.granted[v]
        /\ past'.crossed = past.crossed \cup {u : s \in others}
    BY <1>1, <1>2, <1>3 DEF Past
  <1>5. SamePeople
    BY ServedSame
  <1>6. /\ \A x \in NewRows(u, chosen) : x.user = u /\ x.org \in chosen
        /\ \A o \in chosen : \E x \in NewRows(u, chosen) : x.org = o
    BY NewRowsAre
  <1>7. \A x \in access : x.user \in Users /\ Exists(x.user) /\ OrgExists(x.org)
    BY <1>1, AccessRows DEF AccessInv, RowsAreReal
  <1>8. /\ \A x \in req[r].rows : x.user = u
        /\ u \notin past.crossed => \A x \in access : x.user = u => x \in req[r].rows
    BY <1>2 DEF AccessInv, ReadsAll
  <1>9. RowsAreReal'
    <2>1. \A o \in Orgs : orgs'[o].active => orgs'[o].firm # Gone
      BY <1>2 DEF AccessInv, RowsAreReal, OrgExists
    <2>2. ASSUME NEW x \in access'
          PROVE  users'[x.user] \notin {None, Gone} /\ orgs'[x.org].firm # Gone
      <3>1. x.user \in Users /\ Exists(x.user) /\ OrgExists(x.org)
        <4>1. CASE x \in access
          BY <1>7, <4>1
        <4>2. CASE x \in NewRows(u, chosen)
          BY <1>2, <1>6, <4>2
        <4>3. QED BY <1>2, <4>1, <4>2
      <3>2. QED BY <1>2, <1>5, <3>1 DEF SamePeople, Exists, OrgExists
    <2>3. QED BY <2>1, <2>2 DEF RowsAreReal, OrgExists, Exists
  <1>10. ASSUME NEW v \in Users PROVE AsGranted(v)'
    <2>1. CASE v = u
      <3>1. v \notin past'.crossed => \A o \in Orgs : HasRow(v, o)' <=> o \in chosen
        BY <1>2, <1>4, <1>6, <1>8, <2>1 DEF HasRow
      <3>2. \A o \in chosen : OrgExists(o)'
        BY <1>2 DEF OrgExists
      <3>3. QED BY <1>4, <2>1, <3>1, <3>2 DEF AsGranted
    <2>2. CASE v # u
      <3>1. \A o \in Orgs : /\ HasRow(v, o)' <=> HasRow(v, o)
                            /\ OrgExists(o)' <=> OrgExists(o)
        <4>1. \A x \in access' : x.user = v => x \in access
          BY <1>2, <1>6, <2>2
        <4>2. \A x \in access : x.user = v => x \in access'
          BY <1>2, <1>8, <2>2
        <4>3. QED BY <1>2, <4>1, <4>2 DEF HasRow, OrgExists
      <3>2. AsGranted(v) /\ past.crossed \subseteq past'.crossed
        BY <1>4 DEF AccessInv
      <3>3. past'.granted[v] = past.granted[v]
        BY <1>4, <2>2
      <3>4. /\ Exists(v)' <=> Exists(v)
            /\ Exists(v) => users'[v].role = users[v].role
        BY <1>5 DEF SamePeople
      <3>5. QED BY <3>1, <3>2, <3>3, <3>4 DEF AsGranted
    <2>3. QED BY <2>1, <2>2
  <1>11. ASSUME NEW p \in Requests PROVE ReadsAll(p)'
    <2>1. CASE p = r
      BY <1>1, <1>2, <2>1, EndsEffect, NothingAssigns, NotAssigning
    <2>2. CASE p # r
      <3>1. req'[p] = req[p]
        BY <1>1, <1>2, <2>2, EndsEffect
      <3>2. req[p].op = "assign" /\ req[p].user = u => u \in past'.crossed
        BY <1>4, <2>2 DEF others, AccessInv, ReadsAll, At
      <3>3. QED BY <1>2, <1>4, <1>6, <3>1, <3>2, StaysReading
    <2>3. QED BY <2>1, <2>2
  <1>12. QED BY <1>2, <1>9, <1>10, <1>11 DEF AccessInv
\* The rows of a user go with the user.
LEMMA RemovingAccess ==
  ASSUME TeamInv, AccessInv, NEW r \in Requests, Remove(r)
  PROVE  AccessInv'
  <1>1. Tables /\ WellFormed(req[r])
    BY DEF TeamInv, Informed
  <1>2. PICK u \in Users :
          /\ users' = [users EXCEPT ![u] = Gone]
          /\ access' = {x \in access : x.user # u}
    BY <1>1 DEF Remove, At, WellFormed, OnUser, RowsOf
  <1>3. Ends(r) /\ UNCHANGED <<orgs, past>>
    BY DEF Remove
  <1>4. /\ users'[u] = Gone
        /\ \A v \in Users : v # u => users'[v] = users[v]
    BY <1>1, <1>2 DEF Tables
  <1>5. \A x \in access' : x \in access /\ x.user \in Users /\ x.user # u
    BY <1>1, <1>2, AccessRows
  <1>6. RowsAreReal'
    <2> SUFFICES ASSUME NEW x \in access' PROVE users'[x.user] \notin {None, Gone} /\ OrgExists(x.org)
      BY <1>3 DEF RowsAreReal, AccessInv, OrgExists, Exists
    <2>1. QED BY <1>4, <1>5 DEF AccessInv, RowsAreReal, Exists
  <1>7. ASSUME NEW v \in Users PROVE AsGranted(v)'
    <2>1. CASE v = u
      BY <1>4, <2>1 DEF AsGranted, Exists
    <2>2. CASE v # u
      <3>1. \A o \in Orgs : /\ HasRow(v, o)' <=> HasRow(v, o)
                            /\ OrgExists(o)' <=> OrgExists(o)
        BY <1>2, <1>3, <2>2 DEF HasRow, OrgExists
      <3>2. AsGranted(v)
        BY DEF AccessInv
      <3>3. QED BY <1>3, <1>4, <2>2, <3>1, <3>2 DEF AsGranted, Exists
    <2>3. QED BY <2>1, <2>2
  <1>8. ASSUME NEW p \in Requests PROVE ReadsAll(p)'
    <2>1. CASE p = r
      BY <1>1, <1>3, <2>1, EndsEffect, NothingAssigns, NotAssigning
    <2>2. CASE p # r
      BY <1>1, <1>3, <1>5, <2>2, EndsEffect, StaysReading
    <2>3. QED BY <2>1, <2>2
  <1>9. QED BY <1>3, <1>6, <1>7, <1>8 DEF AccessInv

\* The rows of a company go with the company.
LEMMA CompanyAccess ==
  ASSUME TeamInv, AccessInv, NEW c \in Orgs, RemoveCompany(c)
  PROVE  AccessInv'
  <1>1. Tables
    BY DEF TeamInv
  <1>2. /\ orgs' = [orgs EXCEPT ![c] = [firm |-> Gone, active |-> FALSE]]
        /\ access' = {x \in access : x.org # c}
        /\ UNCHANGED <<users, req, past>>
    BY DEF RemoveCompany
  <1>3. /\ orgs'[c].firm = Gone /\ ~ orgs'[c].active
        /\ \A o \in Orgs : o # c => orgs'[o] = orgs[o]
        /\ orgs' \in [Orgs -> [firm : Firms \cup {None, Gone}, active : BOOLEAN]]
    BY <1>2 DEF AccessInv
  <1>4. \A x \in access' : x \in access /\ x.org \in Orgs /\ x.org # c
    BY <1>1, <1>2, AccessRows
  <1>5. RowsAreReal'
    BY <1>2, <1>3, <1>4 DEF RowsAreReal, AccessInv, OrgExists, Exists
  <1>6. ASSUME NEW u \in Users PROVE AsGranted(u)'
    <2>1. \A o \in Orgs : HasRow(u, o)' <=> HasRow(u, o) /\ o # c
      BY <1>2 DEF HasRow
    <2>2. \A o \in Orgs : OrgExists(o)' <=> OrgExists(o) /\ o # c
      BY <1>3 DEF OrgExists
    <2>3. AsGranted(u)
      BY DEF AccessInv
    <2>4. QED BY <1>2, <2>1, <2>2, <2>3 DEF AsGranted, Exists
  <1>7. \A p \in Requests : ReadsAll(p)'
    BY <1>2, <1>4, StaysReading
  <1>8. QED BY <1>3, <1>5, <1>6, <1>7 DEF AccessInv

LEMMA NextAccess ==
  ASSUME TeamInv, AccessInv, [Next]_vars
  PROVE  AccessInv'
  <1>1. Tables
    BY DEF TeamInv
  <1>2. ASSUME NEW r \in Requests, Serve(r) PROVE AccessInv'
    <2>1. CASE \/ CheckOtp(r) \/ AcceptInvite(r) \/ Disable(r) \/ Enable(r)
               \/ (\E ok \in BOOLEAN : Send(r, ok)) \/ RecordSend(r) \/ Fails(r)
      <3>1. /\ UNCHANGED <<access, orgs>>
            /\ past'.granted = past.granted /\ past'.crossed = past.crossed
        BY <1>1, <2>1 DEF CheckOtp, AcceptInvite, Disable, Enable, SetStatus, Send, RecordSend, Fails,
                          Tables, Past
      <3>2. \A p \in Requests : req'[p] = req[p] \/ req'[p].op # "assign"
        BY <2>1, ServedIsAt, NothingAssigns
      <3>3. QED BY <2>1, <3>1, <3>2, ServedSame, QuietAccess
    <2>2. CASE Resend(r) /\ ~ Fails(r)
      <3>1. /\ UNCHANGED <<access, orgs, past>> /\ req' = [req EXCEPT ![r].at = "send"]
            /\ req[r].op = "resend" /\ req[r] \in Request /\ SamePeople
        <4>1. UNCHANGED <<access, orgs, past>> /\ req' = [req EXCEPT ![r].at = "send"] /\ req[r].op = "resend"
          BY <2>2 DEF Resend, At
        <4>2. QED BY <1>1, <2>2, <4>1, ResendSame DEF Tables
      <3>2. \A p \in Requests : req'[p] = req[p] \/ req'[p].op # "assign"
        <4>1. req'[r] = [req[r] EXCEPT !.at = "send"] /\ \A p \in Requests : p # r => req'[p] = req[p]
          BY <1>1, <3>1 DEF Tables
        <4>2. QED BY <3>1, <4>1 DEF Request
      <3>3. QED BY <3>1, <3>2, QuietAccess
    <2>3. QED BY <1>2, <2>1, <2>2, FoundingAccess, InvitingAccess, AssigningAccess, RemovingAccess
              DEF Serve, Aborts
  <1>3. CASE Outside
    <2>1. CASE \E o \in Orgs : RemoveCompany(o)
      BY <2>1, CompanyAccess
    <2>2. CASE ~ \E o \in Orgs : RemoveCompany(o)
      <3>1. /\ UNCHANGED <<access, orgs, req>>
            /\ past'.granted = past.granted /\ past'.crossed = past.crossed
        BY <1>1, <1>3, <2>2 DEF Outside, RequestOtp, OtpExpires, InviteExpires, DeliveryEvent, Tables, Past
      <3>2. QED BY <1>3, <3>1, OutsideSame, QuietAccess
    <2>3. QED BY <2>1, <2>2
  <1>4. CASE UNCHANGED vars
    <2>1. UNCHANGED <<users, access, orgs, req, past>>
      BY <1>4 DEF vars
    <2>2. QED BY <2>1, SameUsers, QuietAccess
  <1>5. QED BY <1>2, <1>3, <1>4, AskAccess DEF Next
\* What the invariant says of what each may see.
LEMMA AccessHolds ==
  ASSUME TeamInv, AccessInv
  PROVE  AccessIsAsGranted
  <1>1. Tables /\ past \in Past
    BY DEF TeamInv, Tables
  <1> SUFFICES ASSUME NEW u \in Users, Exists(u)
               PROVE  /\ u \notin past.crossed /\ users[u].role # "admin" =>
                            OrgsOf(u) = {o \in past.granted[u] : OrgExists(o)}
                      /\ {o \in Orgs : MayEnter(u, o)} = {o \in AllowedCompanies(u) : orgs[o].active}
    BY DEF AccessIsAsGranted
  <1>2. OrgsOf(u) = {o \in Orgs : HasRow(u, o)}
    BY <1>1, AccessRows DEF OrgsOf, RowsOf, HasRow
  <1>3. ASSUME u \notin past.crossed, users[u].role # "admin"
        PROVE  OrgsOf(u) = {o \in past.granted[u] : OrgExists(o)}
    <2>1. \A o \in Orgs : HasRow(u, o) <=> o \in past.granted[u] /\ OrgExists(o)
      BY <1>3 DEF AccessInv, AsGranted
    <2>2. past.granted[u] \subseteq Orgs
      BY <1>1 DEF Past
    <2>3. QED BY <1>2, <2>1, <2>2
  <1>4. ASSUME NEW o \in Orgs, orgs[o].active
        PROVE  MayEnter(u, o) <=> o \in AllowedCompanies(u)
    <2>1. OrgExists(o)
      BY <1>4 DEF AccessInv, RowsAreReal
    <2>2. o \in OrgsOf(u) <=> HasRow(u, o)
      BY <1>2
    <2>3. QED BY <1>4, <2>1, <2>2 DEF MayEnter, AllowedCompanies
  <1>5. AllowedCompanies(u) \subseteq Orgs
    BY <1>2 DEF AllowedCompanies
  <1>6. \A o \in Orgs : MayEnter(u, o) => orgs[o].active
    BY DEF MayEnter
  <1>7. QED BY <1>3, <1>4, <1>5, <1>6

\* Unless two assignments of one member overlapped (set_user_companies deletes
\* the rows it read and not those there are), the member has exactly what the
\* last one named; and the guard of the routes of one company agrees with the
\* list of the views across companies.
THEOREM AccessTheorem == Spec => []AccessIsAsGranted
  <1>1. Init => TeamInv /\ AccessInv
    BY InitHolds, AccessInit
  <1>2. TeamInv /\ AccessInv /\ [Next]_vars => (TeamInv /\ AccessInv)'
    BY NextKeeps, NextAccess
  <1>3. TeamInv /\ AccessInv => AccessIsAsGranted
    BY AccessHolds
  <1>4. QED BY <1>1, <1>2, <1>3, PTL DEF Spec

\* Addresses and tokens are one person's, users are of firms and assignments
\* of users and companies that exist: what the unique indexes and the foreign
\* keys are for, and what every lookup by address or token relies on.
THEOREM TypeCorrect == Spec => []TypeOK
  <1>1. Init => TeamInv /\ PeopleInv /\ AccessInv
    BY InitHolds, PeopleInit, AccessInit
  <1>2. TeamInv /\ PeopleInv /\ AccessInv /\ [Next]_vars => (TeamInv /\ PeopleInv /\ AccessInv)'
    BY NextKeeps, NextPeople, NextAccess
  <1>3. TeamInv /\ PeopleInv /\ AccessInv => TypeOK
    <2> SUFFICES ASSUME TeamInv, PeopleInv, AccessInv PROVE TypeOK
      OBVIOUS
    <2>1. ASSUME NEW e \in Emails PROVE Cardinality(ByEmail(e)) <= 1
      <3>1. CASE ByEmail(e) = {}
        BY <3>1, FS_EmptySet
      <3>2. CASE ByEmail(e) # {}
        <4>1. PICK u : u \in ByEmail(e)
          BY <3>2
        <4>2. ByEmail(e) = {u}
          BY <4>1 DEF ByEmail, PeopleInv, OneAddress
        <4>3. QED BY SMTT(30), <4>2, FS_Singleton
      <3>3. QED BY <3>1, <3>2
    <2>2. \A x \in access : Exists(x.user) /\ OrgExists(x.org)
      BY DEF AccessInv, RowsAreReal
    <2>3. ASSUME NEW u \in Users, Exists(u)
          PROVE  /\ users[u].status \in {"invited", "active", "disabled"}
                 /\ users[u].firm \in firms \cup {None}
                 /\ \A v \in Users \ {u} :
                       Exists(v) /\ users[u].invite = users[v].invite => users[u].invite = None
      <3>1. users[u] \in Row
        BY <2>3, ExistsIsRow DEF TeamInv
      <3>2. users[u].status \in {"invited", "active", "disabled"}
        BY <3>1 DEF Row
      <3>3. QED BY <2>3, <3>2 DEF PeopleInv, OfFirms, OneToken
    <2>4. QED BY <2>1, <2>2, <2>3 DEF TypeOK
  <1>4. QED BY <1>1, <1>2, <1>3, PTL DEF Spec
-----------------------------------------------------------------------------
(* Mails and the rows of the log.                                          *)

\* A set of places in a sequence has a last one.
LEMMA HasLast ==
  ASSUME NEW n \in Nat, NEW T \in SUBSET (1 .. n), T # {}
  PROVE  \E i \in T : \A j \in T : i >= j
  <1> DEFINE D == {n - j : j \in T}
  <1>1. D \subseteq Nat /\ D # {}
    <2>1. \A j \in T : j \in Nat /\ j <= n
      OBVIOUS
    <2>2. \A j \in T : n - j \in Nat
      BY <2>1
    <2>3. QED BY <2>2
  <1>2. PICK d \in D : \A c \in D : ~ (<<c, d>> \in OpToRel(<, Nat))
    BY <1>1, NatLessThanWellFounded, WFMin
  <1>3. \A c \in D : ~ (c < d)
    BY <1>1, <1>2 DEF OpToRel
  <1>4. PICK i \in T : d = n - i
    BY <1>2
  <1>5. ASSUME NEW j \in T PROVE i >= j
    <2>1. n - j \in D
      OBVIOUS
    <2>2. ~ (n - j < n - i) /\ i \in Nat /\ j \in Nat
      BY <1>3, <1>4, <2>1
    <2>3. QED BY <2>2
  <1>6. QED BY <1>4, <1>5

\* What a row says of its mail: it is the mail of its address, and so is the
\* one whose id it has; unless an event of that address went astray, the two
\* are one and the row says what the mail said last.
RowOK(x) ==
  /\ x.mail # None => x.mail \in DOMAIN mails /\ mails[x.mail].email = x.email
  /\ x.id # None => x.id \in DOMAIN mails /\ mails[x.id].email = x.email
  /\ x.email \notin past.strayed =>
        /\ x.id \in {None, x.mail}
        /\ x.status = IF x.mail = None THEN "failed" ELSE mails[x.mail].last

OwnRows == \A i, j \in DOMAIN log : log[i].mail = log[j].mail /\ log[i].mail # None => i = j

\* A mail that was handed over and is not logged yet.
Unrecorded(r) == Mailing(r) /\ req[r].at = "record" /\ req[r].code # None

RecordOK(r) ==
  Unrecorded(r) =>
    /\ req[r].code \in DOMAIN mails /\ mails[req[r].code].email = req[r].email
    /\ \A i \in DOMAIN log : log[i].mail # req[r].code
    /\ mails[req[r].code].last = "sent" \/ req[r].email \in past.strayed

OwnMails ==
  \A r, p \in Requests : Unrecorded(r) /\ Unrecorded(p) /\ req[r].code = req[p].code => r = p

MailInv ==
  /\ \A i \in DOMAIN log : RowOK(log[i])
  /\ OwnRows
  /\ \A r \in Requests : RecordOK(r)
  /\ OwnMails

LEMMA MailInit == Init => MailInv
  <1> SUFFICES ASSUME Init PROVE MailInv
    OBVIOUS
  <1>1. DOMAIN log = {}
    BY DEF Init
  <1>2. \A r \in Requests : ~ Unrecorded(r)
    BY NoneAssumption DEF Init, Unrecorded, Mailing, Nothing
  <1>3. QED BY <1>1, <1>2 DEF MailInv, OwnRows, RecordOK, OwnMails

\* Neither a mail nor the log changes, and no mail is handed over.
LEMMA QuietMail ==
  ASSUME MailInv, UNCHANGED <<log, mails>>, past'.strayed = past.strayed,
         \A r \in Requests : req'[r] = req[r] \/ ~ Unrecorded(r)'
  PROVE  MailInv'
  <1>1. (\A i \in DOMAIN log : RowOK(log[i]))'
    BY DEF MailInv, RowOK
  <1>2. OwnRows'
    BY DEF MailInv, OwnRows
  <1>3. ASSUME NEW r \in Requests PROVE RecordOK(r)' /\ (Unrecorded(r)' => Unrecorded(r) /\ req'[r] = req[r])
    BY DEF MailInv, RecordOK, Unrecorded, Mailing
  <1>4. OwnMails'
    BY <1>3 DEF MailInv, OwnMails
  <1>5. QED BY <1>1, <1>2, <1>3, <1>4 DEF MailInv
LEMMA RowFields ==
  ASSUME Tables, NEW i \in DOMAIN log
  PROVE  /\ log[i].mail \in Nat \cup {None} /\ log[i].id \in Nat \cup {None}
         /\ log[i].email \in Emails /\ log[i] \in LogRow
  BY LogRows DEF LogRow

\* Removing a user takes his name off his rows and leaves the rest of them.
LEMMA RemovingMail ==
  ASSUME TeamInv, MailInv, NEW r \in Requests, Remove(r)
  PROVE  MailInv'
  <1> DEFINE u == req[r].user
             kept(i) == IF log[i].user = u THEN [log[i] EXCEPT !.user = None] ELSE log[i]
  <1>1. Tables /\ Ends(r) /\ mails' = mails /\ past' = past
    BY DEF TeamInv, Remove
  <1>2. log' = [i \in DOMAIN log |-> kept(i)]
    BY DEF Remove
  <1>3. \A i \in DOMAIN log :
          /\ kept(i).mail = log[i].mail /\ kept(i).id = log[i].id
          /\ kept(i).email = log[i].email /\ kept(i).status = log[i].status
    BY <1>1, RowFields DEF LogRow
  <1> HIDE DEF kept
  <1>4. /\ DOMAIN log' = DOMAIN log
        /\ \A i \in DOMAIN log :
             /\ log'[i].mail = log[i].mail /\ log'[i].id = log[i].id
             /\ log'[i].email = log[i].email /\ log'[i].status = log[i].status
    BY <1>2, <1>3
  <1>5. (\A i \in DOMAIN log : RowOK(log[i]))'
    BY <1>1, <1>4 DEF MailInv, RowOK
  <1>6. OwnRows'
    BY <1>4 DEF MailInv, OwnRows
  <1>7. ASSUME NEW p \in Requests
        PROVE  RecordOK(p)' /\ (Unrecorded(p)' => Unrecorded(p) /\ req'[p] = req[p])
    <2>1. p = r => ~ Unrecorded(p)'
      BY <1>1, EndsEffect, NothingIs, NoneAssumption DEF Unrecorded, Mailing
    <2>2. p # r => req'[p] = req[p]
      BY <1>1, EndsEffect
    <2>3. QED BY <1>1, <1>4, <2>1, <2>2 DEF MailInv, RecordOK, Unrecorded, Mailing
  <1>8. OwnMails'
    BY <1>7 DEF MailInv, OwnMails
  <1>9. QED BY <1>5, <1>6, <1>7, <1>8 DEF MailInv

\* A mail that is handed over is the request's own until it is logged.
LEMMA SendingMail ==
  ASSUME TeamInv, MailInv, NEW r \in Requests, NEW ok \in BOOLEAN, Send(r, ok)
  PROVE  MailInv'
  <1> DEFINE q == req[r]
             n == Len(mails)
  <1>1. Tables /\ q \in Request /\ mails \in Seq(Mail) /\ n \in Nat /\ DOMAIN mails = 1 .. n
    BY DEF TeamInv, Tables
  <1>2. q.op \in {"invite", "resend"} /\ log' = log /\ past' = past
    BY DEF Send, Mailing
  <1>3. CASE ~ ok
    <2>1. mails' = mails /\ req' = [req EXCEPT ![r].at = "record", ![r].code = None]
      BY <1>3 DEF Send
    <2>2. /\ req'[r] = [q EXCEPT !.at = "record", !.code = None]
          /\ \A p \in Requests : p # r => req'[p] = req[p]
      BY <1>1, <2>1 DEF Tables
    <2>3. req'[r].code = None
      BY <1>1, <2>2 DEF Request
    <2>4. QED BY <1>2, <2>1, <2>2, <2>3, QuietMail DEF Unrecorded
  <1>4. CASE ok
    <2> DEFINE mail == [email |-> q.email, last |-> "sent"]
    <2>1. /\ mails' = Append(mails, mail)
          /\ req' = [req EXCEPT ![r].at = "record", ![r].code = n + 1]
      BY <1>4 DEF Send
    <2>2. /\ req'[r] = [q EXCEPT !.at = "record", !.code = n + 1]
          /\ \A p \in Requests : p # r => req'[p] = req[p]
      BY <1>1, <2>1 DEF Tables
    <2>3. req'[r].code = n + 1 /\ req'[r].email = q.email
      BY <1>1, <2>2 DEF Request
    <2>4. /\ DOMAIN mails' = 1 .. n + 1 /\ mails'[n + 1] = mail
          /\ \A m \in 1 .. n : mails'[m] = mails[m]
      <3> HIDE DEF mail
      <3>1. QED BY <1>1, <2>1
    <2>5. /\ n + 1 \in DOMAIN mails' /\ DOMAIN mails \subseteq DOMAIN mails'
          /\ \A m \in DOMAIN mails : mails'[m] = mails[m] /\ m # n + 1
      BY <1>1, <2>4
    <2>6. mails'[n + 1].email = q.email /\ mails'[n + 1].last = "sent"
      BY <2>4
    <2> HIDE DEF n, mail
    <2>7. (\A i \in DOMAIN log : RowOK(log[i]))'
      <3> SUFFICES ASSUME NEW i \in DOMAIN log PROVE RowOK(log[i])'
        BY <1>2
      <3>1. RowOK(log[i])
        BY DEF MailInv
      <3>2. QED BY <1>2, <2>5, <3>1 DEF RowOK
    <2>8. OwnRows'
      BY <1>2 DEF MailInv, OwnRows
    <2>9. \A i \in DOMAIN log : log[i].mail # n + 1
      <3> SUFFICES ASSUME NEW i \in DOMAIN log, log[i].mail = n + 1 PROVE FALSE
        OBVIOUS
      <3>1. n + 1 # None
        BY <1>1, NoneAssumption
      <3>2. n + 1 \in DOMAIN mails
        BY <3>1 DEF MailInv, RowOK
      <3>3. QED BY <2>5, <3>2
    <2>10. ASSUME NEW p \in Requests
           PROVE  /\ RecordOK(p)'
                  /\ p # r => (Unrecorded(p)' <=> Unrecorded(p)) /\ (Unrecorded(p) => req[p].code # n + 1)
      <3>1. CASE p = r
        BY <1>2, <2>3, <2>5, <2>6, <2>9, <3>1 DEF RecordOK
      <3>2. CASE p # r
        <4>1. req'[p] = req[p] /\ RecordOK(p)
          BY <2>2, <3>2 DEF MailInv
        <4>2. QED BY <1>2, <2>5, <4>1 DEF RecordOK, Unrecorded, Mailing
      <3>3. QED BY <3>1, <3>2
    <2>11. OwnMails'
      <3> SUFFICES ASSUME NEW p \in Requests, NEW s \in Requests, Unrecorded(p)', Unrecorded(s)',
                          req'[p].code = req'[s].code, p # s
                   PROVE  FALSE
        BY DEF OwnMails
      <3>1. CASE p = r \/ s = r
        BY <2>2, <2>3, <2>10, <3>1
      <3>2. CASE p # r /\ s # r
        BY <2>2, <2>10, <3>2 DEF MailInv, OwnMails
      <3>3. QED BY <3>1, <3>2
    <2>12. QED BY <2>7, <2>8, <2>10, <2>11 DEF MailInv
  <1>5. QED BY <1>3, <1>4

\* A mail is logged once, by the request that sent it.
LEMMA RecordingMail ==
  ASSUME TeamInv, MailInv, NEW r \in Requests, RecordSend(r)
  PROVE  MailInv'
  <1> DEFINE q == req[r]
             status == IF q.code = None THEN "failed" ELSE "sent"
             entry == [user |-> q.user, email |-> q.email, status |-> status, id |-> None, mail |-> q.code]
             n == Len(log)
  <1>1. /\ Tables /\ q \in Request /\ n \in Nat /\ DOMAIN log = 1 .. n
        /\ log \in Seq(LogRow)
    BY DEF TeamInv, Tables
  <1>2. Ends(r) /\ mails' = mails /\ past' = past /\ Mailing(r) /\ q.at = "record"
    BY DEF RecordSend
  <1>3. /\ ~ Unrecorded(r)'
        /\ \A p \in Requests : p # r => req'[p] = req[p]
    BY <1>1, <1>2, EndsEffect, NothingIs, NoneAssumption DEF Unrecorded, Mailing
  <1>4. CASE ~ Exists(q.user)
    <2>1. log' = log
      BY <1>4 DEF RecordSend
    <2>2. QED BY <1>2, <1>3, <2>1, QuietMail
  <1>5. CASE Exists(q.user)
    <2>1. log' = Append(log, entry)
      BY <1>5 DEF RecordSend
    <2>2. entry.email = q.email /\ entry.status = status /\ entry.id = None /\ entry.mail = q.code
      OBVIOUS
    <2> HIDE DEF entry
    <2>3. /\ DOMAIN log' = 1 .. n + 1 /\ log'[n + 1] = entry
          /\ \A i \in 1 .. n : log'[i] = log[i]
      BY <1>1, <2>1
    <2>4. /\ DOMAIN log' = DOMAIN log \cup {n + 1} /\ n + 1 \notin DOMAIN log /\ log'[n + 1] = entry
          /\ \A i \in DOMAIN log : log'[i] = log[i]
      BY <1>1, <2>3
    <2> HIDE DEF n
    <2>5. q.code # None =>
             /\ q.code \in DOMAIN mails /\ mails[q.code].email = q.email
             /\ \A i \in DOMAIN log : log[i].mail # q.code
             /\ mails[q.code].last = "sent" \/ q.email \in past.strayed
      BY <1>2 DEF MailInv, RecordOK, Unrecorded
    <2>6. (\A i \in DOMAIN log : RowOK(log[i]))'
      <3> SUFFICES ASSUME NEW i \in DOMAIN log' PROVE RowOK(log[i])'
        OBVIOUS
      <3>1. CASE i \in DOMAIN log
        BY <1>2, <2>4, <3>1 DEF MailInv, RowOK
      <3>2. CASE i = n + 1
        <4>1. log'[i] = entry
          BY <2>4, <3>2
        <4>2. QED BY <1>2, <2>2, <2>5, <4>1 DEF RowOK
      <3>3. QED BY <2>4, <3>1, <3>2
    <2>7. OwnRows'
      BY <2>2, <2>4, <2>5 DEF MailInv, OwnRows
    <2>8. ASSUME NEW p \in Requests
          PROVE  RecordOK(p)' /\ (Unrecorded(p)' => Unrecorded(p) /\ req'[p] = req[p])
      <3>1. CASE p = r
        BY <1>3, <3>1 DEF RecordOK
      <3>2. CASE p # r
        <4>1. req'[p] = req[p] /\ RecordOK(p) /\ (Unrecorded(p)' <=> Unrecorded(p))
          BY <1>3, <3>2 DEF MailInv, Unrecorded, Mailing
        <4>2. Unrecorded(p) => q.code # req[p].code
          BY <1>2, <3>2 DEF MailInv, OwnMails, Unrecorded
        <4>3. Unrecorded(p) => \A i \in DOMAIN log' : log'[i].mail # req[p].code
          BY <2>2, <2>4, <4>1, <4>2 DEF RecordOK
        <4>4. QED BY <1>2, <4>1, <4>3 DEF RecordOK
      <3>3. QED BY <3>1, <3>2
    <2>9. OwnMails'
      BY <2>8 DEF MailInv, OwnMails
    <2>10. QED BY <2>6, <2>7, <2>8, <2>9 DEF MailInv
  <1>6. QED BY <1>4, <1>5

\* The row an event goes to is of the address of its mail.
LEMMA RowForIs ==
  ASSUME TeamInv, MailInv, NEW m \in DOMAIN mails, NEW id \in {m, None}, RowFor(m, id) # 0
  PROVE  RowFor(m, id) \in DOMAIN log /\ log[RowFor(m, id)].email = mails[m].email
  <1> DEFINE known == {i \in DOMAIN log : id # None /\ log[i].id = id}
             same == IF known # {} THEN known ELSE {i \in DOMAIN log : log[i].email = mails[m].email}
  <1>1. Tables /\ log \in Seq(LogRow) /\ Len(log) \in Nat /\ DOMAIN log = 1 .. Len(log)
    BY DEF TeamInv, Tables
  <1>2. \A i \in same : i \in DOMAIN log /\ log[i].email = mails[m].email
    BY DEF MailInv, RowOK
  <1>3. RowFor(m, id) = CHOOSE i \in same : \A j \in same : i >= j
    BY DEF RowFor
  <1>4. same # {}
    BY DEF RowFor
  <1>5. \E i \in same : \A j \in same : i >= j
    <2>1. same \in SUBSET (1 .. Len(log))
      BY <1>1, <1>2
    <2> HIDE DEF same
    <2>2. QED BY <1>1, <1>4, <2>1, HasLast
  <1>6. RowFor(m, id) \in same
    <2> HIDE DEF same
    <2>1. QED BY <1>3, <1>5
  <1>7. QED BY <1>2, <1>6

\* An event that does not go astray, of an address none of whose events did,
\* goes to the row of its mail.
LEMMA RowForOwn ==
  ASSUME TeamInv, MailInv, NEW m \in DOMAIN mails, NEW id \in {m, None},
         ~ Strays(m, id), mails[m].email \notin past.strayed
  PROVE  RowFor(m, id) # 0 /\ log[RowFor(m, id)].mail = m
  <1> DEFINE known == {i \in DOMAIN log : id # None /\ log[i].id = id}
             same == IF known # {} THEN known ELSE {i \in DOMAIN log : log[i].email = mails[m].email}
  <1>1. /\ Tables /\ log \in Seq(LogRow) /\ Len(log) \in Nat /\ DOMAIN log = 1 .. Len(log)
        /\ DOMAIN log \subseteq Nat \ {0}
    BY DEF TeamInv, Tables
  <1>2. m \in Nat /\ m # None
    BY NoneAssumption DEF TeamInv, Tables
  <1>3. PICK k \in DOMAIN log :
          /\ log[k].mail = m
          /\ \/ id # None /\ log[k].id = id
             \/ \A j \in DOMAIN log : j > k => log[j].email # log[k].email
    BY DEF Strays
  <1>4. log[k].email = mails[m].email
    BY <1>2, <1>3 DEF MailInv, RowOK
  <1>5. \A i \in known : i = k
    <2> SUFFICES ASSUME NEW i \in known PROVE i = k
      OBVIOUS
    <2>1. log[i].id = m /\ i \in DOMAIN log
      OBVIOUS
    <2>2. log[i].email = mails[m].email
      BY <1>2, <2>1 DEF MailInv, RowOK
    <2>3. log[i].mail = m
      BY <1>2, <2>1, <2>2 DEF MailInv, RowOK
    <2>4. QED BY <1>2, <1>3, <2>1, <2>3 DEF MailInv, OwnRows
  <1>6. k \in same /\ \A j \in same : k >= j
    <2>1. CASE known # {}
      BY <1>1, <1>5, <2>1
    <2>2. CASE known = {}
      <3>1. \A j \in DOMAIN log : j > k => log[j].email # log[k].email
        BY <1>3, <2>2
      <3>2. same = {i \in DOMAIN log : log[i].email = mails[m].email}
        BY <2>2
      <3> HIDE DEF same
      <3>3. \A j \in same : k >= j
        BY <1>1, <1>4, <3>1, <3>2
      <3>4. QED BY <1>4, <3>2, <3>3
    <2>3. QED BY <2>1, <2>2
  <1>7. RowFor(m, id) = CHOOSE i \in same : \A j \in same : i >= j
    BY <1>6 DEF RowFor
  <1>8. same \subseteq Nat
    BY <1>1
  <1> HIDE DEF same
  <1>9. RowFor(m, id) = k
    <2>1. \A i \in same : (\A j \in same : i >= j) => i = k
      BY <1>6, <1>8
    <2>2. QED BY <1>6, <1>7, <2>1
  <1>10. QED BY <1>1, <1>3, <1>9

\* An event writes the row of its mail, or strays.
LEMMA DeliveredMail ==
  ASSUME TeamInv, MailInv, NEW m \in DOMAIN mails, NEW id \in {m, None}, NEW status \in Reports,
         DeliveryEvent(m, id, status)
  PROVE  MailInv'
  <1> DEFINE i == RowFor(m, id)
             e == mails[m].email
             row == Heard(log[i], id, status)
  <1>1. /\ Tables /\ past \in Past /\ mails \in Seq(Mail) /\ log \in Seq(LogRow)
        /\ m \in Nat /\ m # None
    BY NoneAssumption DEF TeamInv, Tables
  <1>2. /\ mails' = [mails EXCEPT ![m].last = status]
        /\ log' = IF i = 0 THEN log ELSE [log EXCEPT ![i] = row]
        /\ past' = IF Strays(m, id) THEN [past EXCEPT !.strayed = @ \cup {e}] ELSE past
        /\ req' = req
    BY DEF DeliveryEvent
  <1>3. /\ DOMAIN mails' = DOMAIN mails
        /\ \A n \in DOMAIN mails : /\ mails'[n].email = mails[n].email
                                   /\ n # m => mails'[n].last = mails[n].last
        /\ mails'[m].last = status
    <2>1. mails[m] \in Mail
      BY <1>1
    <2>2. mails'[m] = [mails[m] EXCEPT !.last = status] /\ DOMAIN mails' = DOMAIN mails
      BY <1>2
    <2>3. mails'[m].email = mails[m].email /\ mails'[m].last = status
      BY <2>1, <2>2 DEF Mail
    <2>4. \A n \in DOMAIN mails : n # m => mails'[n] = mails[n]
      BY <1>2
    <2>5. QED BY <2>2, <2>3, <2>4
  <1>4. /\ past.strayed \subseteq past'.strayed
        /\ Strays(m, id) => e \in past'.strayed
    BY <1>1, <1>2 DEF Past
  <1>5. i # 0 => i \in DOMAIN log /\ log[i].email = e
    BY RowForIs
  <1>6. e \notin past'.strayed => i # 0 /\ log[i].mail = m
    BY <1>4, RowForOwn
  <1>7. i # 0 => /\ row.mail = log[i].mail /\ row.email = log[i].email /\ row.status = status
                 /\ row.id = IF log[i].id = None THEN id ELSE log[i].id
    <2> SUFFICES ASSUME i # 0
                 PROVE  /\ row.mail = log[i].mail /\ row.email = log[i].email /\ row.status = status
                        /\ row.id = IF log[i].id = None THEN id ELSE log[i].id
      OBVIOUS
    <2>1. log[i] \in LogRow
      BY <1>1, <1>5, RowFields
    <2> HIDE DEF i
    <2>2. QED BY <2>1 DEF LogRow, Heard
  <1> HIDE DEF i, row, e
  <1>8. /\ DOMAIN log' = DOMAIN log
        /\ \A k \in DOMAIN log : k # i => log'[k] = log[k]
        /\ i # 0 => log'[i] = row
    BY <1>2, <1>5
  <1>9. \A k \in DOMAIN log : log'[k].mail = log[k].mail /\ log'[k].email = log[k].email
    <2> SUFFICES ASSUME NEW k \in DOMAIN log
                 PROVE  log'[k].mail = log[k].mail /\ log'[k].email = log[k].email
      OBVIOUS
    <2>1. CASE k = i
      <3>1. i # 0
        BY <1>1, <2>1
      <3>2. QED BY <1>7, <1>8, <2>1, <3>1
    <2>2. CASE k # i
      BY <1>8, <2>2
    <2>3. QED BY <2>1, <2>2
  <1>10. ASSUME NEW k \in DOMAIN log PROVE RowOK(log[k])'
    <2>1. RowOK(log[k])
      BY DEF MailInv
    <2>2. log'[k].id # None => log'[k].id \in DOMAIN mails /\ mails[log'[k].id].email = log[k].email
      <3>1. CASE k # i
        BY <1>8, <2>1, <3>1 DEF RowOK
      <3>2. CASE k = i
        <4>1. i # 0
          BY <1>1, <3>2
        <4>2. log'[k].id = IF log[k].id = None THEN id ELSE log[k].id
          BY <1>7, <1>8, <3>2, <4>1
        <4>3. QED BY <1>5, <2>1, <3>2, <4>1, <4>2 DEF RowOK, e
      <3>3. QED BY <3>1, <3>2
    <2>3. ASSUME log[k].email \notin past'.strayed
          PROVE  /\ log'[k].id \in {None, log[k].mail}
                 /\ log'[k].status = IF log[k].mail = None THEN "failed" ELSE mails'[log[k].mail].last
      <3>1. /\ log[k].id \in {None, log[k].mail}
            /\ log[k].status = IF log[k].mail = None THEN "failed" ELSE mails[log[k].mail].last
        BY <1>4, <2>1, <2>3 DEF RowOK
      <3>2. CASE log[k].mail = m
        <4>1. log[k].email = e
          BY <1>1, <2>1, <3>2 DEF RowOK, e
        <4>2. i # 0 /\ log[i].mail = m
          BY <1>6, <2>3, <4>1
        <4>3. k = i
          BY <1>1, <1>5, <3>2, <4>2 DEF MailInv, OwnRows
        <4>4. log'[k].id \in {None, m} /\ log'[k].status = status
          BY <1>7, <1>8, <3>1, <3>2, <4>2, <4>3
        <4>5. QED BY <1>1, <1>3, <3>2, <4>4
      <3>3. CASE log[k].mail # m
        <4>1. k # i
          BY <1>1, <1>5, <1>6, <2>3, <3>3
        <4>2. log'[k] = log[k]
          BY <1>8, <4>1
        <4>3. log[k].mail # None => mails'[log[k].mail].last = mails[log[k].mail].last
          BY <1>3, <2>1, <3>3 DEF RowOK
        <4>4. QED BY <3>1, <4>2, <4>3
      <3>4. QED BY <3>2, <3>3
    <2>4. QED BY <1>3, <1>9, <2>1, <2>2, <2>3 DEF RowOK
  <1>11. OwnRows'
    BY <1>8, <1>9 DEF MailInv, OwnRows
  <1>12. ASSUME NEW p \in Requests PROVE RecordOK(p)'
    <2> SUFFICES ASSUME Unrecorded(p)
                 PROVE  /\ req[p].code \in DOMAIN mails' /\ mails'[req[p].code].email = req[p].email
                        /\ \A k \in DOMAIN log' : log'[k].mail # req[p].code
                        /\ mails'[req[p].code].last = "sent" \/ req[p].email \in past'.strayed
      BY <1>2 DEF RecordOK, Unrecorded, Mailing
    <2>1. /\ req[p].code \in DOMAIN mails /\ mails[req[p].code].email = req[p].email
          /\ \A k \in DOMAIN log : log[k].mail # req[p].code
          /\ mails[req[p].code].last = "sent" \/ req[p].email \in past.strayed
      BY DEF MailInv, RecordOK
    <2>2. \A k \in DOMAIN log' : log'[k].mail # req[p].code
      BY <1>8, <1>9, <2>1
    <2>3. CASE req[p].code = m
      <3>1. Strays(m, id)
        BY <2>1, <2>3 DEF Strays
      <3>2. QED BY <1>3, <1>4, <2>1, <2>2, <2>3, <3>1 DEF e
    <2>4. CASE req[p].code # m
      BY <1>3, <1>4, <2>1, <2>2, <2>4
    <2>5. QED BY <2>3, <2>4
  <1>13. OwnMails'
    BY <1>2 DEF MailInv, OwnMails, Unrecorded, Mailing
  <1>14. QED BY <1>8, <1>10, <1>11, <1>12, <1>13 DEF MailInv

\* No request begins by writing the log of a mail.
LEMMA AskIsAt ==
  ASSUME Tables, NEW r \in Requests, Ask(r)
  PROVE  req'[r].at # "record"
  <1>1. CASE \E a, u \in Users, c \in Choices : StartAssign(r, a, u, c[1], c[2])
    <2>1. PICK a \in Users, u \in Users, c \in Choices : StartAssign(r, a, u, c[1], c[2])
      BY <1>1
    <2>2. req'[r] = [Loaded("assign", u) EXCEPT !.mode = c[1], !.orgs = c[2], !.rows = RowsOf(u)]
      BY <2>1, Begun DEF StartAssign
    <2>3. QED BY <2>2 DEF Loaded, Nothing
  <1>2. CASE \E e \in Emails : StartRegister(r, e)
    <2>1. PICK e \in Emails : req'[r] = [Nothing EXCEPT !.op = "register", !.at = "commit", !.email = e]
      BY <1>2, Begun DEF StartRegister
    <2>2. QED BY <2>1 DEF Nothing
  <1>3. CASE \E e \in Emails, code \in 0 .. used.code : ReadOtp(r, e, code)
    <2>1. PICK e \in Emails, code \in 0 .. used.code :
            req'[r] = [Nothing EXCEPT !.op = "verify", !.at = "check", !.email = e, !.otp = otp[e], !.code = code]
      BY <1>3, Begun DEF ReadOtp
    <2>2. QED BY <2>1 DEF Nothing
  <1>4. CASE \E e \in Emails, a \in Users, c \in Choices : StartInvite(r, a, e, c[1], c[2])
    <2>1. PICK e \in Emails, a \in Users, c \in Choices : StartInvite(r, a, e, c[1], c[2])
      BY <1>4
    <2>2. req'[r] = [Nothing EXCEPT !.op = "invite", !.at = "commit", !.email = e,
                                    !.firm = users[a].firm, !.mode = c[1], !.orgs = c[2]]
      BY <2>1, Begun DEF StartInvite
    <2>3. QED BY <2>2 DEF Nothing
  <1>5. CASE \E a, u \in Users : StartResend(r, a, u)
    <2>1. PICK u \in Users : req'[r] = [Loaded("resend", u) EXCEPT !.email = users[u].email]
      BY <1>5, Begun DEF StartResend
    <2>2. QED BY <2>1 DEF Loaded, Nothing
  <1>6. CASE \/ \E token \in 1 .. used.token : ReadInvite(r, token)
             \/ \E a, u \in Users : StartDisable(r, a, u) \/ StartEnable(r, a, u) \/ StartRemove(r, a, u)
    <2>1. PICK u \in Users, op \in {"accept", "disable", "enable", "remove"} : req'[r] = Loaded(op, u)
      BY <1>6, Begun DEF ReadInvite, StartDisable, StartEnable, StartRemove
    <2>2. QED BY <2>1 DEF Loaded, Nothing
  <1>7. QED BY <1>1, <1>2, <1>3, <1>4, <1>5, <1>6 DEF Ask

LEMMA NextMail ==
  ASSUME TeamInv, MailInv, [Next]_vars
  PROVE  MailInv'
  <1>1. Tables
    BY DEF TeamInv
  <1>2. ASSUME NEW r \in Requests, Serve(r) PROVE MailInv'
    <2>1. CASE Remove(r) \/ RecordSend(r) \/ \E ok \in BOOLEAN : Send(r, ok)
      BY <2>1, RemovingMail, RecordingMail, SendingMail
    <2>2. CASE ~ (Remove(r) \/ RecordSend(r) \/ \E ok \in BOOLEAN : Send(r, ok))
      <3>1. UNCHANGED <<log, mails>>
        BY <1>2, <2>2 DEF Serve, Register, RegisterVerified, SaveFirm, CheckOtp, Invite, Resend,
                          AcceptInvite, SetUserCompanies, Disable, Enable, SetStatus, Aborts, Fails
      <3>2. past'.strayed = past.strayed
        BY <1>1, <1>2, <2>2 DEF Serve, Register, RegisterVerified, SaveFirm, CheckOtp, Invite, Resend,
                          AcceptInvite, SetUserCompanies, Disable, Enable, SetStatus, Aborts, Fails,
                          Tables, Past
      <3>3. /\ \A p \in Requests : p # r => req'[p] = req[p]
            /\ Ends(r) \/ req'[r].at \in {"send", "commit"}
        <4>1. CASE Ends(r)
          BY <1>1, <4>1, EndsEffect
        <4>2. CASE Invite(r) /\ ~ Fails(r)
          <5>1. PICK u : req' = [req EXCEPT ![r] = [req[r] EXCEPT !.at = "send", !.user = u]]
            BY <4>2, Inviting
          <5>2. /\ req'[r] = [req[r] EXCEPT !.at = "send", !.user = u]
                /\ \A p \in Requests : p # r => req'[p] = req[p]
            BY <1>1, <5>1 DEF Tables
          <5>3. req[r] \in Request
            BY <1>1 DEF Tables
          <5>4. QED BY <5>2, <5>3 DEF Request
        <4>3. CASE (Resend(r) \/ CheckOtp(r)) /\ ~ Ends(r)
          <5>1. PICK at \in {"send", "commit"} : req' = [req EXCEPT ![r].at = at]
            BY <4>3 DEF Resend, CheckOtp, Fails
          <5>2. /\ req'[r] = [req[r] EXCEPT !.at = at]
                /\ \A p \in Requests : p # r => req'[p] = req[p]
            BY <1>1, <5>1 DEF Tables
          <5>3. req[r] \in Request
            BY <1>1 DEF Tables
          <5>4. QED BY <5>2, <5>3 DEF Request
        <4>4. QED BY <1>2, <2>2, <4>1, <4>2, <4>3
                  DEF Serve, Register, RegisterVerified, SaveFirm, AcceptInvite, SetUserCompanies,
                      Disable, Enable, SetStatus, Aborts, Fails
      <3>4. \A p \in Requests : req'[p] = req[p] \/ ~ Unrecorded(p)'
        BY <1>1, <3>3, EndsEffect, NothingIs, NoneAssumption DEF Unrecorded, Mailing
      <3>5. QED BY <3>1, <3>2, <3>4, QuietMail
    <2>3. QED BY <2>1, <2>2
  <1>3. CASE Outside
    <2>1. CASE \E m \in DOMAIN mails, status \in Reports :
                 DeliveryEvent(m, m, status) \/ DeliveryEvent(m, None, status)
      BY <2>1, DeliveredMail
    <2>2. CASE ~ \E m \in DOMAIN mails, status \in Reports :
                   DeliveryEvent(m, m, status) \/ DeliveryEvent(m, None, status)
      <3>1. UNCHANGED <<log, mails, past, req>>
        BY <1>3, <2>2 DEF Outside, RequestOtp, OtpExpires, InviteExpires, RemoveCompany
      <3>2. QED BY <3>1, QuietMail
    <2>3. QED BY <2>1, <2>2
  <1>4. CASE UNCHANGED vars
    BY <1>4, QuietMail DEF vars
  <1>5. ASSUME NEW r \in Requests, Ask(r) PROVE MailInv'
    <2>1. PICK q : Begin(r, q)
      BY <1>5 DEF Ask, StartRegister, ReadOtp, StartInvite, ReadInvite, StartResend, StartDisable,
             StartEnable, StartRemove, StartAssign
    <2>2. /\ UNCHANGED <<log, mails, past>>
          /\ \A p \in Requests : p # r => req'[p] = req[p]
      BY <1>1, <2>1, Begun
    <2>3. req'[r].at # "record"
      BY <1>1, <1>5, AskIsAt
    <2>4. QED BY <2>2, <2>3, QuietMail DEF Unrecorded
  <1>6. QED BY <1>2, <1>3, <1>4, <1>5 DEF Next

\* For every address none of whose events went astray (an event finds its row
\* by the provider's id, which the row does not have before its first event,
\* or as the latest of the address), the log says of each mail what the
\* provider said last.
THEOREM MailsTheorem == Spec => []RowsFollowTheirMails
  <1>1. Init => TeamInv /\ MailInv
    BY InitHolds, MailInit
  <1>2. TeamInv /\ MailInv /\ [Next]_vars => (TeamInv /\ MailInv)'
    BY NextKeeps, NextMail
  <1>3. MailInv => RowsFollowTheirMails
    BY DEF MailInv, RowOK, RowsFollowTheirMails
  <1>4. QED BY <1>1, <1>2, <1>3, PTL DEF Spec
=============================================================================
