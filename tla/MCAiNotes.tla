----------------------------- MODULE MCAiNotes -----------------------------
(* Instances of AiNotes for TLC. *)
EXTENDS AiNotes

\* Two audits are interchangeable: no value depends on which one it was.
AuditSymmetry == Permutations(Audits)

\* Where a contact has a row, at most one transaction has one and there is no
\* third audit; a fault, a sweep or opening, and the third audit are not met all
\* at once.
MCFew ==
  /\ (\E d \in Apart : rowOf[d].at # "none") =>
       audits < MaxAudits /\ Cardinality({d \in Transactions : rowOf[d].at # "none"}) <= 1
  /\ audits = MaxAudits => asks + faults <= 1
=============================================================================
