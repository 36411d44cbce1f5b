------------------------------ MODULE AuditRun ------------------------------
(***************************************************************************)
(* The life of the historical audits of one company.                       *)
(*                                                                         *)
(* A dispatch (an API process, or a Celery task after a sync or a          *)
(* reconcile) commits an audit_batch row, seeds a Redis hash and sends a   *)
(* message.  A Celery worker runs historical_audit_task for it: progress   *)
(* and outcome go to the hash, the outcome also to the row, the results    *)
(* to health_check_result in several transactions, most of them after the  *)
(* batch was declared completed.  Any step may raise, which marks both     *)
(* failed.  Messages are acknowledged when the task ends: the broker gives *)
(* the message of a dead worker to another one, and the same batch runs    *)
(* again; that of a process which dies under its worker is acknowledged,   *)
(* task_reject_on_worker_lost being off.  Every write of the hash is two   *)
(* commands, HSET and EXPIRE.  A client streams the hash until it sees a   *)
(* terminal status or none.                                                *)
(*                                                                         *)
(* The broker, Redis' expiry and the process pool are the environment.     *)
(* What the results say is the subject of TrappedRows.                     *)
(***************************************************************************)
EXTENDS Naturals

CONSTANTS
  Batches,    \* identifiers of audit batches
  Scope,      \* Scope[b]: the scope argument the task of b is sent with
  Workers,    \* processes of the Celery worker
  Watched,    \* bound: the batches whose progress a client streams
  MaxFaults,  \* bound: exceptions, crashes, kills and failed writes
  None        \* no row, no hash, no batch

ASSUME ScopeAssumption == Scope \in [Batches -> {"full", "duplicates"}]
ASSUME FaultAssumption == MaxFaults \in Nat

Outcomes == {"completed", "failed"}
Statuses == {"in_progress"} \cup Outcomes

ASSUME NoneAssumption == None \notin Batches \cup Statuses \cup {"untold"}

VARIABLES
  company,   \* the company has not been removed
  dispatch,  \* dispatch[b]: how far the dispatch of b has come
  row,       \* row[b]: audit_batch.status
  meta,      \* meta[b]: status in the Redis hash; "untold" when the hash has none
  ttl,       \* ttl[b]: the hash has an expiry
  owes,      \* owes[w]: w wrote a hash without expiry and has yet to set one
  message,   \* message[b]: where the broker has the message
  task,      \* task[w]: what worker w is running, and the step it is at
  saved,     \* saved[b]: which results of b are committed
  watch,     \* watch[b]: what the progress stream of a client has come to
  faults,
  causes,    \* observer: causes[b]: what left b without an outcome
  undying    \* observer: batches whose hash was written by a process that got
             \* no further than the HSET

vars == <<company, dispatch, row, meta, ttl, owes, message, task, saved, watch,
          faults, causes, undying>>
hashVars == <<meta, ttl, undying>>

Parts(s) == IF s = "full" THEN {"documents", "contacts", "accruals", "cleared"}
                          ELSE {"documents", "cleared"}

Steps == {"fetch", "load", "report", "persist", "finish", "count", "contacts",
          "accruals", "clear", "prewarm", "fail", "mark"}
Rest == [step |-> "rest", batch |-> None]
Task == [step : Steps, batch : Batches]
Causes == {"broke_off", "killed", "not_marked"}

TypeOK ==
  /\ company \in BOOLEAN
  /\ dispatch \in [Batches -> {"new", "inserted", "written", "seeded", "over"}]
  /\ row \in [Batches -> Statuses \cup {None}]
  /\ meta \in [Batches -> Statuses \cup {"untold", None}]
  /\ ttl \in [Batches -> BOOLEAN]
  /\ owes \in [Workers -> BOOLEAN]
  /\ message \in [Batches -> {"none", "queued", "taken", "lost"}]
  /\ task \in [Workers -> Task \cup {Rest}]
  /\ saved \in [Batches -> SUBSET Parts("full")]
  /\ watch \in [Batches -> Outcomes \cup {"closed", "open", "expired"}]
  /\ faults \in 0 .. MaxFaults
  /\ causes \in [Batches -> SUBSET Causes]
  /\ undying \subseteq Batches

Init ==
  /\ company = TRUE
  /\ dispatch = [b \in Batches |-> "new"]
  /\ row = [b \in Batches |-> None]
  /\ meta = [b \in Batches |-> None]
  /\ ttl = [b \in Batches |-> FALSE]
  /\ owes = [w \in Workers |-> FALSE]
  /\ message = [b \in Batches |-> "none"]
  /\ task = [w \in Workers |-> Rest]
  /\ saved = [b \in Batches |-> {}]
  /\ watch = [b \in Batches |-> "closed"]
  /\ faults = 0
  /\ causes = [b \in Batches |-> {}]
  /\ undying = {}

Fault == faults < MaxFaults /\ faults' = faults + 1
Blame(b, cause) == causes' = [causes EXCEPT ![b] = @ \cup {cause}]
Runs(w, b) == task[w].batch = b
Running(b) == \E w \in Workers : Runs(w, b)

-----------------------------------------------------------------------------
(***************************************************************************)
(* Dispatch.                                                               *)
(***************************************************************************)

\* The row comes first; without its company it is refused.
InsertBatch(b) ==
  /\ dispatch[b] = "new"
  /\ company
  /\ dispatch' = [dispatch EXCEPT ![b] = "inserted"]
  /\ row' = [row EXCEPT ![b] = "in_progress"]
  /\ UNCHANGED <<company, hashVars, owes, message, task, saved, watch, faults, causes>>

SeedMeta(b) ==
  /\ dispatch[b] = "inserted"
  /\ dispatch' = [dispatch EXCEPT ![b] = "written"]
  /\ meta' = [meta EXCEPT ![b] = "in_progress"]
  /\ UNCHANGED <<company, row, ttl, owes, message, task, saved, watch, faults, causes,
                 undying>>

\* EXPIRE: whatever the hash says, and if there is none it does nothing.
LastsUntilOutcome(b) == [ttl EXCEPT ![b] = meta[b] \in Outcomes]   \* slip: only at the end
Lasts(b) == [ttl EXCEPT ![b] = meta[b] # None]
ExpireLater(b) == ttl' = Lasts(b) /\ undying' = undying \ {b}

SeedExpiry(b) ==
  /\ dispatch[b] = "written"
  /\ dispatch' = [dispatch EXCEPT ![b] = "seeded"]
  /\ ExpireLater(b)
  /\ UNCHANGED <<company, row, meta, owes, message, task, saved, watch, faults, causes>>

Enqueue(b) ==
  /\ dispatch[b] = "seeded"
  /\ dispatch' = [dispatch EXCEPT ![b] = "over"]
  /\ message' = [message EXCEPT ![b] = "queued"]
  /\ UNCHANGED <<company, row, hashVars, owes, task, saved, watch, faults, causes>>

\* Redis or the broker is out of reach, or the process dies.
BreakOff(b) ==
  /\ dispatch[b] \in {"inserted", "written", "seeded"}
  /\ Fault
  /\ Blame(b, "broke_off")
  /\ dispatch' = [dispatch EXCEPT ![b] = "over"]
  /\ undying' = undying \cup IF dispatch[b] = "written" THEN {b} ELSE {}
  /\ UNCHANGED <<company, row, meta, ttl, owes, message, task, saved, watch>>

-----------------------------------------------------------------------------
(***************************************************************************)
(* The task, one action per transaction, write or read it makes.           *)
(***************************************************************************)
Goto(w, step) == task' = [task EXCEPT ![w].step = step]

\* The task returned or raised: its message is acknowledged.
Leave(w) == task' = [task EXCEPT ![w] = Rest]
Nack(b) == message' = [message EXCEPT ![b] = "lost"]   \* slip: not acknowledged
Ack(b) == message' = [message EXCEPT ![b] = "none"]

\* HSET: a status goes into the hash; a stage alone leaves the status as it is.
\* The EXPIRE after it matters if the hash has no expiry yet.
Tell(w, status) ==
  /\ meta' = [meta EXCEPT ![task[w].batch] = status]
  /\ owes' = [owes EXCEPT ![w] = ~ttl[task[w].batch]]
  /\ UNCHANGED <<ttl, undying>>
TellStage(w) ==
  LET status == meta[task[w].batch]
  IN  Tell(w, IF status = None THEN "untold" ELSE status)

\* The EXPIRE.
Touch(w) ==
  /\ owes[w]
  /\ ExpireLater(task[w].batch)
  /\ owes' = [owes EXCEPT ![w] = FALSE]
  /\ UNCHANGED <<company, dispatch, row, meta, message, task, saved, watch, faults, causes>>

\* It does not follow: the process died, or Redis did not answer.
BreaksOff(w) ==
  /\ owes' = [owes EXCEPT ![w] = FALSE]
  /\ undying' = undying \cup IF owes[w] THEN {task[w].batch} ELSE {}
  /\ UNCHANGED <<meta, ttl>>

Take(w, b) ==
  /\ task[w] = Rest
  /\ message[b] = "queued"
  /\ message' = [message EXCEPT ![b] = "taken"]
  /\ task' = [task EXCEPT ![w] = [step |-> "fetch", batch |-> b]]
  /\ UNCHANGED <<company, dispatch, row, hashVars, owes, saved, watch, faults, causes>>

Fetch(w) ==
  /\ task[w].step = "fetch"
  /\ TellStage(w)
  /\ Goto(w, "load")
  /\ UNCHANGED <<company, dispatch, row, message, saved, watch, faults, causes>>

\* "Company vanished mid-audit".
Load(w) ==
  /\ task[w].step = "load"
  /\ Goto(w, IF company THEN "report" ELSE "fail")
  /\ UNCHANGED <<company, dispatch, row, hashVars, owes, message, saved, watch, faults, causes>>

\* The stages shaping, auditing and persisting.
Report(w) ==
  /\ task[w].step = "report"
  /\ TellStage(w)
  /\ Goto(w, "persist")
  /\ UNCHANGED <<company, dispatch, row, message, saved, watch, faults, causes>>

\* A transaction commits a part of the results.  Without the company there
\* is nothing to update; an insert is refused by the foreign key.
Save(w, part, next) ==
  LET b == task[w].batch
  IN  /\ IF company THEN saved' = [saved EXCEPT ![b] = @ \cup {part}] /\ Goto(w, next)
         ELSE saved' = saved /\ (Goto(w, next) \/ Goto(w, "fail"))
      /\ UNCHANGED <<company, dispatch, row, hashVars, owes, message, watch, faults, causes>>

Persist(w) == task[w].step = "persist" /\ Save(w, "documents", "finish")

\* The hash says completed ...
FinishMeta(w) ==
  /\ task[w].step = "finish"
  /\ Tell(w, "completed")
  /\ Goto(w, "count")
  /\ UNCHANGED <<company, dispatch, row, message, saved, watch, faults, causes>>

SetRow(b, status) ==
  row' = [row EXCEPT ![b] = IF @ = None THEN None ELSE status]

\* ... and then the row.  A run of the duplicate checks has neither contact
\* checks nor accruals.
FinishRow(w) ==
  /\ task[w].step = "count"
  /\ SetRow(task[w].batch, "completed")
  /\ Goto(w, IF Scope[task[w].batch] = "full" THEN "contacts" ELSE "clear")
  /\ UNCHANGED <<company, dispatch, hashVars, owes, message, saved, watch, faults, causes>>

Contacts(w) == task[w].step = "contacts" /\ Save(w, "contacts", "accruals")
Accruals(w) == task[w].step = "accruals" /\ Save(w, "accruals", "clear")
Reconcile(w) == task[w].step = "clear" /\ Save(w, "cleared", "prewarm")

Prewarm(w) ==
  /\ task[w].step = "prewarm"
  /\ Leave(w)
  /\ Ack(task[w].batch)
  /\ UNCHANGED <<company, dispatch, row, hashVars, owes, saved, watch, faults, causes>>

\* An exception, the soft time limit among them, at any step of the try block.
Raise(w) ==
  /\ task[w].step \in Steps \ {"fail", "mark"}
  /\ Fault
  /\ Goto(w, "fail")
  /\ BreaksOff(w)
  /\ UNCHANGED <<company, dispatch, row, message, saved, watch, causes>>

FailMeta(w) ==
  /\ task[w].step = "fail"
  /\ Tell(w, "failed")
  /\ Goto(w, "mark")
  /\ UNCHANGED <<company, dispatch, row, message, saved, watch, faults, causes>>

RowUntouched(b) == row' = row                 \* slip: the handler leaves the row
RowFailed(b) == SetRow(b, "failed")

FailRow(w) ==
  /\ task[w].step = "mark"
  /\ RowFailed(task[w].batch)
  /\ Leave(w)
  /\ Ack(task[w].batch)
  /\ UNCHANGED <<company, dispatch, hashVars, owes, saved, watch, faults, causes>>

\* The handler cannot reach Redis, and raises itself, or cannot reach the
\* database, which it logs.  The message is acknowledged all the same.
HandlerFails(w) ==
  /\ task[w].step \in {"fail", "mark"}
  /\ Fault
  /\ Blame(task[w].batch, "not_marked")
  /\ Leave(w)
  /\ Ack(task[w].batch)
  /\ BreaksOff(w)
  /\ UNCHANGED <<company, dispatch, row, saved, watch>>

\* The pool kills the process at the hard limit, or loses it, and acknowledges
\* the message.
HardLimit(w) ==
  /\ task[w] # Rest
  /\ Fault
  /\ Blame(task[w].batch, "killed")
  /\ Leave(w)
  /\ Ack(task[w].batch)
  /\ BreaksOff(w)
  /\ UNCHANGED <<company, dispatch, row, saved, watch>>

HeldEarly == "none"                           \* slip: acknowledged on receipt
Held == "lost"

\* The whole worker dies; its message stays unacknowledged.
Crash(w) ==
  /\ task[w] # Rest
  /\ Fault
  /\ Leave(w)
  /\ message' = [message EXCEPT ![task[w].batch] = Held]
  /\ BreaksOff(w)
  /\ UNCHANGED <<company, dispatch, row, saved, watch, causes>>

\* The visibility timeout: the broker delivers the message again.
Redeliver(b) ==
  /\ message[b] = "lost"
  /\ message' = [message EXCEPT ![b] = "queued"]
  /\ UNCHANGED <<company, dispatch, row, hashVars, owes, task, saved, watch, faults, causes>>

-----------------------------------------------------------------------------
(***************************************************************************)
(* The rest of the system.                                                 *)
(***************************************************************************)

\* Deleting the company deletes its batches and results with it.
RemoveCompany ==
  /\ company
  /\ company' = FALSE
  /\ row' = [b \in Batches |-> None]
  /\ saved' = [b \in Batches |-> {}]
  /\ UNCHANGED <<dispatch, hashVars, owes, message, task, watch, faults, causes>>

\* The hash lives an hour after its last EXPIRE; a run takes ten minutes.
Expire(b) ==
  /\ ttl[b]
  /\ ~Running(b)
  /\ meta' = [meta EXCEPT ![b] = None]
  /\ ttl' = [ttl EXCEPT ![b] = FALSE]
  /\ UNCHANGED <<company, dispatch, row, owes, message, task, saved, watch, faults, causes,
                 undying>>

Open(b) ==
  /\ b \in Watched
  /\ watch[b] = "closed"
  /\ meta[b] # None
  /\ watch' = [watch EXCEPT ![b] = "open"]
  /\ UNCHANGED <<company, dispatch, row, hashVars, owes, message, task, saved, faults, causes>>

Poll(b) ==
  /\ watch[b] = "open"
  /\ meta[b] \in Outcomes \cup {None}
  /\ watch' = [watch EXCEPT ![b] = IF meta[b] = None THEN "expired" ELSE meta[b]]
  /\ UNCHANGED <<company, dispatch, row, hashVars, owes, message, task, saved, faults, causes>>

-----------------------------------------------------------------------------
Dispatching(b) == InsertBatch(b) \/ SeedMeta(b) \/ SeedExpiry(b) \/ Enqueue(b)

Proceed(w) ==
  \/ Fetch(w) \/ Load(w) \/ Report(w) \/ Persist(w) \/ FinishMeta(w) \/ FinishRow(w)
  \/ Contacts(w) \/ Accruals(w) \/ Reconcile(w) \/ Prewarm(w) \/ FailMeta(w) \/ FailRow(w)

Work(w) == Touch(w) \/ (~owes[w] /\ Proceed(w))

Next ==
  \/ \E b \in Batches : \/ Dispatching(b) \/ BreakOff(b) \/ Redeliver(b)
                        \/ Expire(b) \/ Open(b) \/ Poll(b)
  \/ \E w \in Workers : \/ \E b \in Batches : Take(w, b)
                        \/ Work(w) \/ Raise(w) \/ HandlerFails(w)
                        \/ HardLimit(w) \/ Crash(w)
  \/ RemoveCompany

(* A handler once begun and a task once taken proceed, a free worker takes *)
(* what is queued, the broker redelivers, hashes expire and streams poll.  *)
Fairness ==
  /\ \A b \in Batches :
       /\ WF_vars(SeedMeta(b) \/ SeedExpiry(b) \/ Enqueue(b))
       /\ WF_vars(Redeliver(b))
       /\ WF_vars(Expire(b))
       /\ WF_vars(Poll(b))
       /\ WF_vars(\E w \in Workers : Take(w, b))
  /\ \A w \in Workers : WF_vars(Work(w))

Spec == Init /\ [][Next]_vars
FairSpec == Spec /\ Fairness

-----------------------------------------------------------------------------
(***************************************************************************)
(* Properties.                                                             *)
(***************************************************************************)

(* What the batches of a company add to its health score are the totals of *)
(* completed rows; a client shows the results once it is told completed.   *)
(* Neither comes before the document results are committed, whatever was   *)
(* redelivered and whatever expired.                                       *)
HasResults(b) ==
  company /\ "completed" \in {row[b], meta[b], watch[b]} => "documents" \in saved[b]
CompletedHasResults == \A b \in Batches : HasResults(b)

\* The dispatch is over and nobody has the message: nothing more will happen.
Settled(b) == dispatch[b] = "over" /\ message[b] = "none"

(* An audit that is over has an outcome, the row and the hash agree on it, *)
(* and a completed one has committed every part its scope calls for - but  *)
(* for a dispatch that broke off, a killed or lost process and an error    *)
(* handler that failed itself.  The death of the whole worker is not among *)
(* the exceptions.                                                         *)
Agrees(b) ==
  Settled(b) /\ causes[b] = {} /\ company =>
    /\ row[b] \in Outcomes
    /\ meta[b] \in {row[b], None}
    /\ row[b] = "completed" => Parts(Scope[b]) \subseteq saved[b]
SettledAgree == \A b \in Batches : Agrees(b)

\* What makes them inductive.  A message is taken while one worker runs it.
OneRunner ==
  /\ \A w \in Workers, b \in Batches : Runs(w, b) => message[b] = "taken"
  /\ \A v, w \in Workers : task[v] # Rest /\ task[v].batch = task[w].batch => v = w
  /\ \A b \in Batches : message[b] # "none" => dispatch[b] = "over"

Late == {"contacts", "accruals", "clear", "prewarm"}   \* after both were told

\* How far a run is tells what it has committed, told and recorded.
Abreast(w, b) ==
  /\ task[w].step \in Late \cup {"finish", "count"} => "documents" \in saved[b]
  /\ task[w].step \in Late \ {"contacts"} /\ Scope[b] = "full" => "contacts" \in saved[b]
  /\ task[w].step \in {"clear", "prewarm"} /\ Scope[b] = "full" => "accruals" \in saved[b]
  /\ task[w].step = "prewarm" => "cleared" \in saved[b]
  /\ task[w].step \in Late \cup {"count"} => meta[b] = "completed"
  /\ task[w].step \in Late => row[b] = "completed"
  /\ task[w].step = "mark" => meta[b] = "failed"

InOrder == company => \A w \in Workers, b \in Batches : Runs(w, b) => Abreast(w, b)

RowsRemain == company => \A b \in Batches : dispatch[b] # "new" => row[b] # None

AuditInv == OneRunner /\ InOrder /\ RowsRemain /\ CompletedHasResults /\ SettledAgree

\* The row and the results are an audit as AuditOutcome describes it.
Outcome == INSTANCE AuditOutcome
             WITH status <- row, results <- saved, AllParts <- Parts("full")

(* Seen through the row and the results, every audit runs its course once: *)
(* in progress, completed no sooner than the document results, perhaps     *)
(* failed after that, and then nothing more - whatever is redelivered,     *)
(* raised, killed or expired on the way.                                   *)
KeepsPromise == Outcome!Spec

\* For its proof: a run that failed is not taken up again, and one whose
\* dispatch is not over has not begun.
FailedIsOver ==
  \A b \in Batches :
    /\ row[b] = "failed" => message[b] = "none" /\ dispatch[b] = "over" /\ ~Running(b)
    /\ dispatch[b] # "over" => row[b] \in {None, "in_progress"}

NoRowRemains == ~company => \A b \in Batches : row[b] = None

(* Every audit comes to that: none stays in progress for ever, however     *)
(* often its worker died.                                                  *)
EveryAuditSettles ==
  \A b \in Batches : row[b] = "in_progress" ~> row[b] # "in_progress" \/ causes[b] # {}

(* A client's progress stream ends, even that of an audit left behind by a *)
(* broken dispatch or a kill, for the hash expires - but for a hash whose  *)
(* writer got no further than the HSET and that nobody writes again.       *)
EveryWatchEnds ==
  \A b \in Batches :
    watch[b] = "open" ~> watch[b] # "open" \/ [](b \in undying)

(* The progress stream stops at a "terminal status"; that status would     *)
(* have to be the last.                                                    *)
TerminalStatusIsFinal ==
  [][\A b \in Batches :
       meta[b] \in Outcomes => meta'[b] \in {meta[b], None}]_vars
=============================================================================
