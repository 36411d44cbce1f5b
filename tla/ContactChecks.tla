---------------------------- MODULE ContactChecks ----------------------------
(***************************************************************************)
(* The three checks of the contact list: contacts whose names are alike,   *)
(* contacts without the defaults their role needs, and contacts nothing    *)
(* was booked for lately.  A contact is a record                           *)
(*   id, name, archived, customer, supplier, vat,                          *)
(*   salesAccount, salesTax, purchaseAccount, purchaseTax                  *)
(* org.pieces gives the trigrams of a name, org.similar the similarity of  *)
(* two names in percent (the rapidfuzz library).                           *)
(***************************************************************************)
EXTENDS DocumentSets

Active(c) == ~c.archived /\ c.name # "" /\ c.id # ""

HasRole(c) == c.customer \/ c.supplier

\* Only contacts whose names share a trigram are compared.
Blocked(a, b, org) ==
    \/ a.name = b.name
    \/ org.pieces[a.name] \cap org.pieces[b.name] # {}

\* The similarity of the names, raised by the same VAT number and cut by a
\* different one.
ContactConfidence(a, b, org) ==
    LET similarity == NameSimilarity(a, b, org)
    IN IF a.vat = "" \/ b.vat = "" THEN similarity
       ELSE IF a.vat = b.vat THEN Lower({100, similarity + 10})
       ELSE (40 * similarity) \div 100

DuplicateContacts(contacts, org, set) ==
    UNION {IF Blocked(p[1], p[2], org) /\ NameSimilarity(p[1], p[2], org) >= set.contactSimilarity
           THEN {[Flag(p[1], "duplicate_contact") EXCEPT
                    !.partner = p[2].id,
                    !.sure = ContactConfidence(p[1], p[2], org)]}
           ELSE {} :
           p \in {q \in contacts \X contacts : q[1] # q[2] /\ Active(q[1]) /\ Active(q[2])}}

\* The defaults missing for the roles the contact plays.
MissingDefaults(c) ==
    {field \in {"salesAccount", "salesTax"} : c.customer /\ c[field] = ""}
      \cup {field \in {"purchaseAccount", "purchaseTax"} : c.supplier /\ c[field] = ""}

DefaultFlags(contacts) ==
    UNION {FlagIf(Active(c) /\ HasRole(c) /\ MissingDefaults(c) # {}, c, "contact_defaults") :
           c \in contacts}

\* The day of the latest document of a contact; None when it never had one.
LastActivity(c, docs) ==
    LET days == {d.date : d \in {e \in DocsOf(docs) : e.contact = c.id}}
    IN IF days = {} THEN None ELSE CHOOSE x \in days : \A y \in days : y <= x

Inactive(c, docs, today, set) ==
    /\ Active(c) /\ HasRole(c)
    /\ \/ LastActivity(c, docs) = None
       \/ today - LastActivity(c, docs) >= set.inactiveDays

InactiveFlags(contacts, docs, today, set) ==
    UNION {FlagIf(Inactive(c, docs, today, set), c, "inactive_contact") : c \in contacts}

\* run_contact_checks: the three rules in turn.
ContactFlags(contacts, docs, org, today, set) ==
    DuplicateContacts(contacts, org, set)
      \cup DefaultFlags(contacts)
      \cup InactiveFlags(contacts, docs, today, set)
=============================================================================
