SPECIFICATION MCSpec
CONSTANTS
    None = None
    Gone = Gone
    u1 = u1
    u2 = u2
    f1 = f1
    e1 = e1
    e2 = e2
    o1 = o1
    o2 = o2
    Users = {u1, u2, u3}
    Emails = {e1, e2}
    Firms = {f1, f2, f3}
    Orgs = {o1, o2}
    Requests = {r1, r2}
    MaxTokens = 2
    MaxCodes = 2
    MaxRows = 3
    MaxMails = 2
    MaxWrong = 1
    Reports = {"bounced"}
INVARIANTS OnlyParkedLackPassword AccessIsAsGranted RowsFollowTheirMails
PROPERTY RevokedStaysOut
SYMMETRY Same
