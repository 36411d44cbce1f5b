---------------------------- MODULE AuditOutcome ----------------------------
(***************************************************************************)
(* What the rest of the backend relies on about an audit: the list of      *)
(* audits, the health score and the retention of old audits read nothing   *)
(* but the row and the results.  No queue, no worker, no hash: a row comes *)
(* into being in progress, results come in, it is completed once it has    *)
(* those of the documents, and it may still fail; then it is over.         *)
(*                                                                         *)
(* AuditRun implements this (KeepsPromise there).                          *)
(***************************************************************************)
CONSTANTS
  Batches,   \* identifiers of audit batches
  AllParts,  \* the parts the results of an audit come in
  None       \* no row

VARIABLES
  company,   \* the company has not been removed
  status,    \* status[b]: audit_batch.status
  results    \* results[b]: the parts that are committed

vars == <<company, status, results>>

Init ==
  /\ company = TRUE
  /\ status = [b \in Batches |-> None]
  /\ results = [b \in Batches |-> {}]

Start(b) ==
  /\ company
  /\ status[b] = None
  /\ status' = [status EXCEPT ![b] = "in_progress"]
  /\ UNCHANGED <<company, results>>

\* Results keep coming after an audit was declared completed, never after
\* it failed.
Deliver(b) ==
  /\ company
  /\ status[b] \in {"in_progress", "completed"}
  /\ \E part \in AllParts : results' = [results EXCEPT ![b] = @ \cup {part}]
  /\ UNCHANGED <<company, status>>

Complete(b) ==
  /\ status[b] = "in_progress"
  /\ "documents" \in results[b]
  /\ status' = [status EXCEPT ![b] = "completed"]
  /\ UNCHANGED <<company, results>>

Fail(b) ==
  /\ status[b] \in {"in_progress", "completed"}
  /\ status' = [status EXCEPT ![b] = "failed"]
  /\ UNCHANGED <<company, results>>

Remove ==
  /\ company
  /\ company' = FALSE
  /\ status' = [b \in Batches |-> None]
  /\ results' = [b \in Batches |-> {}]

Next ==
  \/ \E b \in Batches : Start(b) \/ Deliver(b) \/ Complete(b) \/ Fail(b)
  \/ Remove

Spec == Init /\ [][Next]_vars
=============================================================================
