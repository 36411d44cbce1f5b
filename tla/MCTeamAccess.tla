---------------------------- MODULE MCTeamAccess ----------------------------
(* Four beginnings of a firm with its admin and two companies: somebody    *)
(* signs up, somebody is invited, an invitation whose mail came back, and  *)
(* a member whose access changes.  Counters that start at their bound and  *)
(* ids that are used up keep the rest of the operations out of a scene.    *)
EXTENDS TeamAccess, TLC

CONSTANTS u1, u2, f1, e1, e2, o1, o2

Founder == Account(f1, e1, "admin", "active", "all", TRUE, None)

Member == Account(f1, e2, "team_member", "active", "selected", TRUE, None)

Invitee == [Account(f1, e2, "team_member", "invited", "all", FALSE, 1) EXCEPT !.mail = "bounced"]

Scenes ==
    {[second |-> None, access |-> {}, orgs |-> {}, used |-> [token |-> MaxTokens, code |-> 0, row |-> MaxRows]],
     [second |-> None, access |-> {}, orgs |-> {o1},
      used |-> [token |-> MaxTokens - 1, code |-> MaxCodes, row |-> MaxRows - 1]],
     [second |-> Invitee, access |-> {}, orgs |-> {},
      used |-> [token |-> 1, code |-> MaxCodes, row |-> MaxRows]],
     [second |-> Member, orgs |-> Orgs, access |-> {[id |-> 1, user |-> u2, org |-> o1]},
      used |-> [token |-> MaxTokens, code |-> MaxCodes, row |-> 1]]}

MCInit ==
    \E scene \in Scenes :
       /\ users = [u \in Users |-> IF u = u1 THEN Founder ELSE IF u = u2 THEN scene.second
                                  ELSE IF scene.used.code = 0 THEN None ELSE Gone]
       /\ firms = {f1}
       /\ orgs = [o \in Orgs |-> [firm |-> IF o \in scene.orgs THEN f1 ELSE Gone, active |-> o = o1 /\ o \in scene.orgs]]
       /\ access = scene.access
       /\ otp = [e \in Emails |-> None]
       /\ log = IF scene.second = Invitee
                THEN <<[user |-> u2, email |-> e2, status |-> "bounced", id |-> None, mail |-> 1]>> ELSE <<>>
       /\ mails = IF scene.second = Invitee THEN <<[email |-> e2, last |-> "bounced"]>> ELSE <<>>
       /\ used = scene.used
       /\ req = [r \in Requests |-> Nothing]
       /\ past = [granted |-> [u \in Users |-> {x.org : x \in {y \in scene.access : y.user = u}}],
                  crossed |-> {}, parked |-> {}, strayed |-> {}]

Same == Permutations(Requests)

MCSpec == MCInit /\ [][Next]_vars
=============================================================================
