--------------------------- MODULE AuditRunProofs ---------------------------
(***************************************************************************)
(* Proofs about AuditRun, for any batches, scopes, workers and number of   *)
(* faults.                                                                 *)
(***************************************************************************)
EXTENDS AuditRun, TLAPS

USE DEF hashVars

-----------------------------------------------------------------------------
(* Effects of the operators the actions are built from.                    *)

\* A worker at a step of the task is running some batch.
LEMMA AtWork ==
  ASSUME TypeOK, NEW w \in Workers, task[w] # Rest \/ task[w].step \in Steps
  PROVE  /\ task[w] \in Task
         /\ task[w].batch \in Batches
         /\ task[w].step \in Steps
         /\ task[w] # Rest
  <1>1. task[w] \in Task \cup {Rest}
    BY DEF TypeOK
  <1>2. "rest" \notin Steps
    BY DEF Steps
  <1>3. task[w] # Rest
    BY <1>2 DEF Rest
  <1>4. QED BY <1>1, <1>2, <1>3 DEF Task, Rest

LEMMA GotoEffect ==
  ASSUME TypeOK, NEW w \in Workers, task[w] \in Task, NEW step \in Steps, Goto(w, step)
  PROVE  /\ task' \in [Workers -> Task \cup {Rest}]
         /\ task'[w].step = step
         /\ \A v \in Workers : v # w => task'[v] = task[v]
         /\ \A v \in Workers : task'[v].batch = task[v].batch
         /\ \A v \in Workers : task'[v] = Rest <=> task[v] = Rest
  <1>1. [task[w] EXCEPT !.step = step] \in Task
    BY DEF Task
  <1>2. task' = [task EXCEPT ![w] = [task[w] EXCEPT !.step = step]]
    BY DEF Goto
  <1>3. task'[w] = [task[w] EXCEPT !.step = step]
    BY <1>2 DEF TypeOK
  <1>4. task'[w].step = step /\ task'[w].batch = task[w].batch
    BY <1>3 DEF Task
  <1>5. \A v \in Workers : v # w => task'[v] = task[v]
    BY <1>2 DEF TypeOK
  <1>6. Rest \notin Task
    BY DEF Rest, Task, Steps
  <1>7. task' \in [Workers -> Task \cup {Rest}]
    BY <1>1, <1>2 DEF TypeOK
  <1>8. QED BY <1>1, <1>3, <1>4, <1>5, <1>6, <1>7

LEMMA LeaveEffect ==
  ASSUME TypeOK, NEW w \in Workers, Leave(w)
  PROVE  /\ task' \in [Workers -> Task \cup {Rest}]
         /\ task'[w] = Rest
         /\ \A b \in Batches : ~Runs(w, b)'
         /\ \A v \in Workers : v # w => task'[v] = task[v]
  <1>1. task'[w] = Rest /\ \A v \in Workers : v # w => task'[v] = task[v]
    BY DEF Leave, TypeOK
  <1>2. \A b \in Batches : b # None
    BY NoneAssumption
  <1>3. QED BY <1>1, <1>2 DEF Leave, TypeOK, Runs, Rest

LEMMA FaultType == ASSUME TypeOK, Fault PROVE faults' \in 0 .. MaxFaults
  <1>1. faults < MaxFaults /\ faults' = faults + 1
    BY DEF Fault
  <1>2. faults \in 0 .. MaxFaults
    BY DEF TypeOK
  <1>3. QED BY <1>1, <1>2, FaultAssumption

LEMMA BlameType ==
  ASSUME TypeOK, NEW b \in Batches, NEW cause \in Causes, Blame(b, cause)
  PROVE  causes' \in [Batches -> SUBSET Causes]
  BY DEF TypeOK, Blame

\* An EXPIRE changes what the hash will come to, and nothing else.
LEMMA TouchEffect ==
  ASSUME NEW w \in Workers, Touch(w)
  PROVE  UNCHANGED <<company, dispatch, row, meta, message, task, saved, watch, faults, causes>>
  BY DEF Touch

LEMMA WorkSteps == ASSUME NEW w \in Workers, Work(w) PROVE Touch(w) \/ Proceed(w)
  BY DEF Work

\* The types of what is known about the expiry of the hashes.
HashType == ttl \in [Batches -> BOOLEAN] /\ owes \in [Workers -> BOOLEAN] /\ undying \subseteq Batches

LEMMA ExpireLaterType ==
  ASSUME TypeOK, NEW b \in Batches, ExpireLater(b)
  PROVE  ttl' \in [Batches -> BOOLEAN] /\ undying' \subseteq Batches
  <1>1. (meta[b] # None) \in BOOLEAN
    OBVIOUS
  <1>2. QED BY <1>1 DEF ExpireLater, Lasts, TypeOK

LEMMA TellType ==
  ASSUME TypeOK, NEW w \in Workers, task[w].batch \in Batches, NEW status,
         Tell(w, status) \/ TellStage(w)
  PROVE  HashType'
  <1>1. PICK s : Tell(w, s)
    BY DEF TellStage
  <1>2. owes' = [owes EXCEPT ![w] = ~ttl[task[w].batch]]
    BY <1>1 DEF Tell
  <1>3. owes' \in [Workers -> BOOLEAN]
    <2>1. CASE ttl[task[w].batch]
      BY <1>2, <2>1 DEF TypeOK
    <2>2. CASE ~ttl[task[w].batch]
      BY <1>2, <2>2 DEF TypeOK
    <2>3. QED BY <2>1, <2>2
  <1>4. UNCHANGED <<ttl, undying>>
    BY <1>1 DEF Tell
  <1>5. QED BY <1>3, <1>4 DEF HashType, TypeOK

LEMMA BreaksOffType ==
  ASSUME TypeOK, NEW w \in Workers, task[w].batch \in Batches, BreaksOff(w)
  PROVE  HashType' /\ UNCHANGED meta
  <1>1. owes' \in [Workers -> BOOLEAN]
    BY DEF BreaksOff, TypeOK
  <1>2. QED BY <1>1 DEF BreaksOff, HashType, TypeOK

-----------------------------------------------------------------------------
(* Type correctness.                                                       *)

LEMMA InitType == Init => TypeOK
  BY FaultAssumption DEF Init, TypeOK

LEMMA BatchStepType ==
  ASSUME TypeOK, NEW b \in Batches,
         Dispatching(b) \/ BreakOff(b) \/ Redeliver(b) \/ Expire(b) \/ Open(b) \/ Poll(b)
  PROVE  TypeOK'
  <1> USE DEF TypeOK, Statuses, Outcomes
  <1>1. CASE InsertBatch(b)
    BY <1>1 DEF InsertBatch
  <1>2. CASE SeedMeta(b)
    BY <1>2 DEF SeedMeta
  <1>3. CASE Enqueue(b)
    BY <1>3 DEF Enqueue
  <1>10. CASE SeedExpiry(b)
    BY <1>10, ExpireLaterType DEF SeedExpiry
  <1>4. CASE BreakOff(b)
    <2>1. faults' \in 0 .. MaxFaults
      BY <1>4, FaultType DEF BreakOff
    <2>2. causes' \in [Batches -> SUBSET Causes]
      BY <1>4, BlameType DEF BreakOff, Causes
    <2>3. QED BY <1>4, <2>1, <2>2 DEF BreakOff
  <1>5. CASE Redeliver(b)
    BY <1>5 DEF Redeliver
  <1>6. CASE Expire(b)
    BY <1>6 DEF Expire
  <1>7. CASE Open(b)
    BY <1>7 DEF Open
  <1>8. CASE Poll(b)
    BY <1>8 DEF Poll
  <1>9. QED BY <1>1, <1>2, <1>3, <1>4, <1>5, <1>6, <1>7, <1>8, <1>10 DEF Dispatching

LEMMA SaveType ==
  ASSUME TypeOK, NEW w \in Workers, task[w].step \in Steps,
         NEW part \in Parts("full"), NEW next \in Steps, Save(w, part, next)
  PROVE  TypeOK'
  <1>1. task[w] \in Task /\ task[w].batch \in Batches
    BY AtWork
  <1>2. saved' \in [Batches -> SUBSET Parts("full")]
    BY <1>1 DEF Save, TypeOK
  <1>3. Goto(w, next) \/ Goto(w, "fail")
    BY DEF Save
  <1>4. task' \in [Workers -> Task \cup {Rest}]
    BY <1>1, <1>3, GotoEffect DEF Steps
  <1>5. QED BY <1>2, <1>4 DEF Save, TypeOK

LEMMA WorkType ==
  ASSUME TypeOK, NEW w \in Workers, Proceed(w)
  PROVE  TypeOK'
  <1> DEFINE b == task[w].batch
  <1>0. task[w].step \in Steps
    BY DEF Proceed, Steps, Fetch, Load, Report, Persist, FinishMeta, FinishRow, Contacts,
       Accruals, Reconcile, Prewarm, FailMeta, FailRow
  <1>1. task[w] \in Task /\ b \in Batches
    BY <1>0, AtWork
  <1>2. \A step \in Steps : Goto(w, step) => task' \in [Workers -> Task \cup {Rest}]
    BY <1>1, GotoEffect
  <1>3. \A status \in Statuses \cup {"untold"} :
          Tell(w, status) => meta' \in [Batches -> Statuses \cup {"untold", None}]
    BY <1>1 DEF Tell, TypeOK
  <1>4. TellStage(w) => meta' \in [Batches -> Statuses \cup {"untold", None}]
    BY <1>1 DEF TellStage, Tell, TypeOK
  <1>5. \A status \in Statuses :
          SetRow(b, status) => row' \in [Batches -> Statuses \cup {None}]
    BY <1>1 DEF SetRow, TypeOK
  <1>6. Ack(b) => message' \in [Batches -> {"none", "queued", "taken", "lost"}]
    BY <1>1 DEF Ack, TypeOK
  <1>7. CASE Fetch(w) \/ Report(w)
    <2>1. Goto(w, "load") \/ Goto(w, "persist")
      BY <1>7 DEF Fetch, Report
    <2>2. task' \in [Workers -> Task \cup {Rest}]
      BY <1>2, <2>1 DEF Steps
    <2>3. TellStage(w)
      BY <1>7 DEF Fetch, Report
    <2>4. HashType'
      BY <1>1, <2>3, TellType
    <2>5. QED BY <1>4, <1>7, <2>2, <2>3, <2>4 DEF Fetch, Report, TypeOK, HashType
  <1>8. CASE Load(w)
    <2>1. Goto(w, "report") \/ Goto(w, "fail")
      BY <1>8 DEF Load
    <2>2. task' \in [Workers -> Task \cup {Rest}]
      BY <1>2, <2>1 DEF Steps
    <2>3. QED BY <1>8, <2>2 DEF Load, TypeOK
  <1>9. CASE Persist(w) \/ Contacts(w) \/ Accruals(w) \/ Reconcile(w)
    BY <1>0, <1>9, SaveType DEF Persist, Contacts, Accruals, Reconcile, Parts, Steps
  <1>10. CASE FinishMeta(w) \/ FailMeta(w)
    <2>1. Goto(w, "count") \/ Goto(w, "mark")
      BY <1>10 DEF FinishMeta, FailMeta
    <2>2. task' \in [Workers -> Task \cup {Rest}]
      BY <1>2, <2>1 DEF Steps
    <2>3. meta' \in [Batches -> Statuses \cup {"untold", None}]
      BY <1>3, <1>10 DEF FinishMeta, FailMeta, Statuses, Outcomes
    <2>4. HashType'
      BY <1>1, <1>10, TellType DEF FinishMeta, FailMeta
    <2>5. QED BY <1>10, <2>2, <2>3, <2>4 DEF FinishMeta, FailMeta, TypeOK, HashType
  <1>11. CASE FinishRow(w)
    <2>1. Goto(w, "contacts") \/ Goto(w, "clear")
      BY <1>11 DEF FinishRow
    <2>2. task' \in [Workers -> Task \cup {Rest}]
      BY <1>2, <2>1 DEF Steps
    <2>3. row' \in [Batches -> Statuses \cup {None}]
      BY <1>5, <1>11 DEF FinishRow, Statuses, Outcomes
    <2>4. QED BY <1>11, <2>2, <2>3 DEF FinishRow, TypeOK
  <1>12. CASE Prewarm(w)
    BY <1>6, <1>12, LeaveEffect DEF Prewarm, TypeOK
  <1>13. CASE FailRow(w)
    <2>1. row' \in [Batches -> Statuses \cup {None}]
      BY <1>5, <1>13 DEF FailRow, RowFailed, Statuses, Outcomes
    <2>2. QED BY <1>6, <1>13, <2>1, LeaveEffect DEF FailRow, TypeOK
  <1>14. QED
    BY <1>7, <1>8, <1>9, <1>10, <1>11, <1>12, <1>13 DEF Proceed

LEMMA FaultStepType ==
  ASSUME TypeOK, NEW w \in Workers,
         Raise(w) \/ HandlerFails(w) \/ HardLimit(w) \/ Crash(w)
  PROVE  TypeOK'
  <1> DEFINE b == task[w].batch
  <1>1. task[w] \in Task /\ b \in Batches
    BY AtWork DEF Raise, HandlerFails, HardLimit, Crash, Steps
  <1>2. faults' \in 0 .. MaxFaults
    BY FaultType DEF Raise, HandlerFails, HardLimit, Crash
  <1>7. HashType' /\ UNCHANGED meta
    BY <1>1, BreaksOffType DEF Raise, HandlerFails, HardLimit, Crash
  <1> USE <1>7 DEF HashType
  <1>3. CASE Raise(w)
    <2>1. task' \in [Workers -> Task \cup {Rest}]
      BY <1>1, <1>3, GotoEffect DEF Raise, Steps
    <2>2. QED BY <1>2, <1>3, <2>1 DEF Raise, TypeOK
  <1>4. CASE HandlerFails(w) \/ HardLimit(w)
    <2>1. causes' \in [Batches -> SUBSET Causes]
      BY <1>1, <1>4, BlameType DEF HandlerFails, HardLimit, Causes
    <2>2. message' \in [Batches -> {"none", "queued", "taken", "lost"}]
      BY <1>1, <1>4 DEF HandlerFails, HardLimit, Ack, TypeOK
    <2>3. QED BY <1>2, <1>4, <2>1, <2>2, LeaveEffect DEF HandlerFails, HardLimit, TypeOK
  <1>5. CASE Crash(w)
    <2>1. message' \in [Batches -> {"none", "queued", "taken", "lost"}]
      BY <1>1, <1>5 DEF Crash, Held, TypeOK
    <2>2. QED BY <1>2, <1>5, <2>1, LeaveEffect DEF Crash, TypeOK
  <1>6. QED BY <1>3, <1>4, <1>5

LEMMA TakeType ==
  ASSUME TypeOK, NEW w \in Workers, NEW b \in Batches, Take(w, b)
  PROVE  TypeOK'
  <1>1. [step |-> "fetch", batch |-> b] \in Task
    BY DEF Task, Steps
  <1>2. task' \in [Workers -> Task \cup {Rest}]
    BY <1>1 DEF Take, TypeOK
  <1>3. QED BY <1>2 DEF Take, TypeOK

LEMMA NextType == TypeOK /\ [Next]_vars => TypeOK'
  <1> SUFFICES ASSUME TypeOK, [Next]_vars PROVE TypeOK'
    OBVIOUS
  <1>1. CASE RemoveCompany
    BY <1>1 DEF RemoveCompany, TypeOK
  <1>2. CASE UNCHANGED vars
    BY <1>2 DEF vars, TypeOK
  <1>4. ASSUME NEW w \in Workers, Work(w) PROVE TypeOK'
    <2>1. CASE Proceed(w)
      BY <2>1, WorkType
    <2>2. CASE Touch(w)
      <3>1. CASE task[w].batch \in Batches
        BY <2>2, <3>1, ExpireLaterType DEF Touch, TypeOK
      <3>2. CASE task[w].batch \notin Batches
        BY <2>2, <3>2 DEF Touch, ExpireLater, Lasts, TypeOK
      <3>3. QED BY <3>1, <3>2
    <2>3. QED BY <1>4, <2>1, <2>2, WorkSteps
  <1>3. QED
    BY <1>1, <1>2, <1>4, BatchStepType, TakeType, FaultStepType DEF Next

(* Every variable keeps its type: a worker at a step always names a batch. *)
THEOREM TypeCorrect == Spec => []TypeOK
  BY InitType, NextType, PTL DEF Spec

-----------------------------------------------------------------------------
(* One worker runs a batch, and nobody else has its message.               *)

\* Steps that move no message and start or end no run.
LEMMA SameRunners ==
  ASSUME TypeOK, OneRunner, UNCHANGED <<message, dispatch>>,
         \A v \in Workers : task'[v].batch = task[v].batch /\ (task'[v] = Rest <=> task[v] = Rest)
  PROVE  OneRunner'
  BY DEF OneRunner, Runs

LEMMA RunnerLeaves ==
  ASSUME TypeOK, OneRunner, NEW w \in Workers, task[w] \in Task, Leave(w),
         NEW left \in {"none", "lost"}, UNCHANGED dispatch,
         message' = [message EXCEPT ![task[w].batch] = left]
  PROVE  OneRunner'
  <1> DEFINE b == task[w].batch
  <1>1. b \in Batches /\ message[b] = "taken" /\ dispatch[b] = "over"
    BY DEF Task, OneRunner, Runs
  <1>2. /\ task'[w] = Rest /\ \A v \in Workers : v # w => task'[v] = task[v]
        /\ \A c \in Batches : ~Runs(w, c)'
    BY LeaveEffect
  <1>3. \A c \in Batches : c # b => message'[c] = message[c]
    BY <1>1 DEF TypeOK
  <1>4. Rest \notin Task
    BY DEF Rest, Task, Steps
  <1>5. \A v \in Workers : v # w => task[v].batch # b
    BY <1>4 DEF OneRunner
  <1>6. \A v \in Workers, c \in Batches : Runs(v, c)' => message'[c] = "taken"
    BY <1>2, <1>3, <1>5 DEF OneRunner, Runs
  <1>7. \A u, v \in Workers : task'[u] # Rest /\ task'[u].batch = task'[v].batch => u = v
    <2> SUFFICES ASSUME NEW u \in Workers, NEW v \in Workers,
                        task'[u] # Rest, task'[u].batch = task'[v].batch
                 PROVE  u = v
      OBVIOUS
    <2>1. u # w /\ task'[u] = task[u]
      BY <1>2
    <2>2. task[u] \in Task /\ task[u].batch \in Batches
      BY <1>2, <2>1 DEF TypeOK, Task
    <2>3. v # w
      BY <1>2, <2>1, <2>2 DEF Runs
    <2>4. QED BY <1>2, <2>1, <2>3 DEF OneRunner
  <1>8. \A c \in Batches : message'[c] # "none" => dispatch'[c] = "over"
    BY <1>1, <1>3 DEF OneRunner
  <1>9. QED BY <1>6, <1>7, <1>8 DEF OneRunner

LEMMA NextOneRunner == TypeOK /\ OneRunner /\ [Next]_vars => OneRunner'
  <1> SUFFICES ASSUME TypeOK, OneRunner, [Next]_vars PROVE OneRunner'
    OBVIOUS
  <1>1. ASSUME NEW b \in Batches,
               Dispatching(b) \/ BreakOff(b) \/ Redeliver(b) \/ Expire(b) \/ Open(b) \/ Poll(b)
        PROVE  OneRunner'
    <2>1. UNCHANGED task
      BY <1>1 DEF Dispatching, InsertBatch, SeedMeta, SeedExpiry, Enqueue, BreakOff, Redeliver, Expire, Open, Poll
    <2>2. /\ \A c \in Batches : message[c] = "taken" => message'[c] = "taken"
          /\ \A c \in Batches : message'[c] # "none" => dispatch'[c] = "over"
      <3>1. CASE InsertBatch(b) \/ SeedMeta(b) \/ SeedExpiry(b) \/ BreakOff(b)
        BY <3>1 DEF InsertBatch, SeedMeta, SeedExpiry, BreakOff, OneRunner, TypeOK
      <3>2. CASE Enqueue(b)
        BY <3>2 DEF Enqueue, OneRunner, TypeOK
      <3>3. CASE Redeliver(b)
        BY <3>3 DEF Redeliver, OneRunner, TypeOK
      <3>4. CASE Expire(b) \/ Open(b) \/ Poll(b)
        BY <3>4 DEF Expire, Open, Poll, OneRunner
      <3>5. QED BY <1>1, <3>1, <3>2, <3>3, <3>4 DEF Dispatching
    <2>3. QED BY <2>1, <2>2 DEF OneRunner, Runs
  <1>2. ASSUME NEW w \in Workers, NEW b \in Batches, Take(w, b) PROVE OneRunner'
    <2>1. /\ task'[w].batch = b /\ \A v \in Workers : v # w => task'[v] = task[v]
          /\ message'[b] = "taken" /\ \A c \in Batches : c # b => message'[c] = message[c]
          /\ message[b] = "queued" /\ UNCHANGED dispatch
      BY <1>2 DEF Take, TypeOK
    <2>2. \A v \in Workers : task[v].batch # b
      BY <2>1 DEF OneRunner, Runs
    <2>3. \A v \in Workers, c \in Batches : Runs(v, c)' => message'[c] = "taken"
      BY <2>1, <2>2 DEF OneRunner, Runs
    <2>4. \A u, v \in Workers : task'[u] # Rest /\ task'[u].batch = task'[v].batch => u = v
      BY <2>1, <2>2 DEF OneRunner
    <2>5. \A c \in Batches : message'[c] # "none" => dispatch'[c] = "over"
      BY <2>1 DEF OneRunner
    <2>6. QED BY <2>3, <2>4, <2>5 DEF OneRunner
  <1>3. ASSUME NEW w \in Workers, NEW step \in Steps, task[w].step \in Steps,
               Goto(w, step), UNCHANGED <<message, dispatch>>
        PROVE  OneRunner'
    BY <1>3, AtWork, GotoEffect, SameRunners
  <1>4. ASSUME NEW w \in Workers, Proceed(w) PROVE OneRunner'
    <2>1. CASE Fetch(w) \/ Load(w) \/ Report(w) \/ FinishMeta(w) \/ FinishRow(w) \/ FailMeta(w)
      <3>1. task[w].step \in Steps /\ UNCHANGED <<message, dispatch>>
        BY <2>1 DEF Fetch, Load, Report, FinishMeta, FinishRow, FailMeta, Steps
      <3>2. \E step \in Steps : Goto(w, step)
        BY <2>1 DEF Fetch, Load, Report, FinishMeta, FinishRow, FailMeta, Steps
      <3>3. QED BY <1>3, <3>1, <3>2
    <2>2. CASE Persist(w) \/ Contacts(w) \/ Accruals(w) \/ Reconcile(w)
      <3>1. task[w].step \in Steps /\ UNCHANGED <<message, dispatch>>
        BY <2>2 DEF Persist, Contacts, Accruals, Reconcile, Save, Steps
      <3>2. \E step \in Steps : Goto(w, step)
        BY <2>2 DEF Persist, Contacts, Accruals, Reconcile, Save, Steps
      <3>3. QED BY <1>3, <3>1, <3>2
    <2>3. CASE Prewarm(w) \/ FailRow(w)
      <3>1. task[w] \in Task
        BY <2>3, AtWork DEF Prewarm, FailRow, Steps
      <3>2. QED BY <2>3, <3>1, RunnerLeaves DEF Prewarm, FailRow, Ack
    <2>4. QED BY <1>4, <2>1, <2>2, <2>3 DEF Proceed
  <1>5. ASSUME NEW w \in Workers, Raise(w) PROVE OneRunner'
    BY <1>3, <1>5 DEF Raise, Steps
  <1>6. ASSUME NEW w \in Workers, HandlerFails(w) \/ HardLimit(w) \/ Crash(w) PROVE OneRunner'
    <2>1. task[w] \in Task /\ Leave(w) /\ UNCHANGED dispatch
      BY <1>6, AtWork DEF HandlerFails, HardLimit, Crash, Steps
    <2>2. \E left \in {"none", "lost"} : message' = [message EXCEPT ![task[w].batch] = left]
      BY <1>6 DEF HandlerFails, HardLimit, Crash, Ack, Held
    <2>3. QED BY <2>1, <2>2, RunnerLeaves
  <1>7. CASE RemoveCompany \/ UNCHANGED vars
    BY <1>7 DEF RemoveCompany, vars, OneRunner, Runs
  <1>8. ASSUME NEW w \in Workers, Touch(w) PROVE OneRunner'
    BY <1>8, TouchEffect DEF OneRunner, Runs
  <1>9. QED BY <1>1, <1>2, <1>4, <1>5, <1>6, <1>7, <1>8, WorkSteps DEF Next

-----------------------------------------------------------------------------
(* The row of a dispatched batch goes only with the company.               *)

LEMMA NextRowsRemain == TypeOK /\ RowsRemain /\ [Next]_vars => RowsRemain'
  <1> SUFFICES ASSUME TypeOK, RowsRemain, [Next]_vars, company'
               PROVE  \A b \in Batches : dispatch'[b] # "new" => row'[b] # None
    BY DEF RowsRemain
  <1> USE DEF RowsRemain
  <1>1. \A status \in Statuses : status # None
    BY NoneAssumption
  <1>2. ASSUME NEW b \in Batches, NEW status \in Statuses, SetRow(b, status),
               UNCHANGED <<company, dispatch>>
        PROVE  \A c \in Batches : dispatch'[c] # "new" => row'[c] # None
    BY <1>1, <1>2 DEF SetRow, TypeOK
  <1>3. ASSUME NEW b \in Batches, InsertBatch(b)
        PROVE  \A c \in Batches : dispatch'[c] # "new" => row'[c] # None
    BY <1>1, <1>3 DEF InsertBatch, TypeOK, Statuses
  <1>4. ASSUME NEW b \in Batches, SeedMeta(b) \/ SeedExpiry(b) \/ Enqueue(b) \/ BreakOff(b)
        PROVE  \A c \in Batches : dispatch'[c] # "new" => row'[c] # None
    BY <1>4 DEF SeedMeta, SeedExpiry, Enqueue, BreakOff, TypeOK
  <1>5. ASSUME NEW b \in Batches, Redeliver(b) \/ Expire(b) \/ Open(b) \/ Poll(b)
        PROVE  UNCHANGED <<company, dispatch, row>>
    BY <1>5 DEF Redeliver, Expire, Open, Poll
  <1>6. ASSUME NEW w \in Workers, FinishRow(w) \/ FailRow(w)
        PROVE  \A c \in Batches : dispatch'[c] # "new" => row'[c] # None
    <2>1. task[w].batch \in Batches
      BY <1>6, AtWork DEF FinishRow, FailRow, Steps
    <2>2. QED BY <1>2, <1>6, <2>1 DEF FinishRow, FailRow, RowFailed, Statuses, Outcomes
  <1>7. ASSUME NEW w \in Workers, Proceed(w), ~FinishRow(w), ~FailRow(w)
        PROVE  UNCHANGED <<company, dispatch, row>>
    BY <1>7 DEF Proceed, Fetch, Load, Report, Persist, FinishMeta, Contacts, Accruals, Reconcile,
       Prewarm, FailMeta, Save
  <1>8. ASSUME NEW w \in Workers, NEW b \in Batches,
               Take(w, b) \/ Raise(w) \/ HandlerFails(w) \/ HardLimit(w) \/ Crash(w)
        PROVE  UNCHANGED <<company, dispatch, row>>
    BY <1>8 DEF Take, Raise, HandlerFails, HardLimit, Crash
  <1>9. ~RemoveCompany
    BY DEF RemoveCompany
  <1>10. CASE UNCHANGED vars
    BY <1>10 DEF vars
  <1>11. ASSUME NEW w \in Workers, Raise(w) \/ HandlerFails(w) \/ HardLimit(w) \/ Crash(w)
         PROVE  UNCHANGED <<company, dispatch, row>>
    BY <1>11 DEF Raise, HandlerFails, HardLimit, Crash
  <1>12. ASSUME NEW w \in Workers, Touch(w) PROVE UNCHANGED <<company, dispatch, row>>
    BY <1>12, TouchEffect
  <1>13. QED
    BY <1>3, <1>4, <1>5, <1>6, <1>7, <1>8, <1>9, <1>10, <1>11, <1>12, WorkSteps
    DEF Next, Dispatching

-----------------------------------------------------------------------------
(* The order of commits, reports and records.                              *)

\* A step that touches one batch need only be right about that batch.
LEMMA LocalStep ==
  ASSUME InOrder, CompletedHasResults, SettledAgree, NEW b \in Batches,
         UNCHANGED company,
         \A c \in Batches : c # b =>
           /\ row'[c] = row[c] /\ meta'[c] = meta[c] /\ saved'[c] = saved[c]
           /\ watch'[c] = watch[c] /\ message'[c] = message[c]
           /\ dispatch'[c] = dispatch[c] /\ causes'[c] = causes[c],
         \A v \in Workers, c \in Batches : c # b /\ Runs(v, c)' => task'[v] = task[v],
         company => \A v \in Workers : Runs(v, b)' => Abreast(v, b)',
         HasResults(b)', Agrees(b)'
  PROVE  InOrder' /\ CompletedHasResults' /\ SettledAgree'
  <1>1. InOrder'
    <2> SUFFICES ASSUME company, NEW v \in Workers, NEW c \in Batches, Runs(v, c)'
                 PROVE  Abreast(v, c)'
      BY DEF InOrder
    <2>1. CASE c = b
      BY <2>1
    <2>2. CASE c # b
      <3>1. Abreast(v, c) /\ task'[v] = task[v]
        BY <2>2 DEF InOrder, Runs
      <3>2. QED BY <2>2, <3>1 DEF Abreast
    <2>3. QED BY <2>1, <2>2
  <1>2. CompletedHasResults'
    BY DEF CompletedHasResults, HasResults
  <1>3. SettledAgree'
    BY DEF SettledAgree, Agrees, Settled
  <1>4. QED BY <1>1, <1>2, <1>3

\* A step of a running task keeps its message, so nothing is settled.
LEMMA TaskStep ==
  ASSUME TypeOK, OneRunner, InOrder, CompletedHasResults, SettledAgree,
         NEW w \in Workers, NEW b \in Batches, Runs(w, b), NEW step \in Steps, Goto(w, step),
         UNCHANGED <<company, dispatch, message, watch, causes>>,
         \A c \in Batches : c # b =>
           row'[c] = row[c] /\ meta'[c] = meta[c] /\ saved'[c] = saved[c],
         company => Abreast(w, b)',
         HasResults(b)'
  PROVE  InOrder' /\ CompletedHasResults' /\ SettledAgree'
  <1>1. task[w] \in Task /\ task[w] # Rest
    BY NoneAssumption DEF TypeOK, Runs, Rest, Task, Steps
  <1>2. /\ \A v \in Workers : v # w => task'[v] = task[v]
        /\ \A v \in Workers : task'[v].batch = task[v].batch
    BY <1>1, GotoEffect
  <1>3. \A v \in Workers : Runs(v, b)' => v = w
    BY <1>1, <1>2 DEF Runs, OneRunner
  <1>4. \A v \in Workers, c \in Batches : c # b /\ Runs(v, c)' => task'[v] = task[v]
    BY <1>2 DEF Runs
  <1>5. message'[b] = "taken"
    BY DEF OneRunner
  <1>6. Agrees(b)'
    BY <1>5 DEF Agrees, Settled
  <1>7. QED BY <1>3, <1>4, <1>6, LocalStep

\* A task that ends leaves nobody running its batch.
LEMMA TaskEnds ==
  ASSUME TypeOK, OneRunner, InOrder, CompletedHasResults, SettledAgree,
         NEW w \in Workers, NEW b \in Batches, Runs(w, b), Leave(w),
         UNCHANGED <<company, dispatch, watch>>,
         \A c \in Batches : c # b =>
           /\ row'[c] = row[c] /\ meta'[c] = meta[c] /\ saved'[c] = saved[c]
           /\ message'[c] = message[c] /\ causes'[c] = causes[c],
         HasResults(b)', Agrees(b)'
  PROVE  InOrder' /\ CompletedHasResults' /\ SettledAgree'
  <1>1. task[w] # Rest
    BY NoneAssumption DEF Runs, Rest
  <1>2. /\ \A v \in Workers : v # w => task'[v] = task[v]
        /\ \A c \in Batches : ~Runs(w, c)'
    BY LeaveEffect
  <1>3. \A v \in Workers : ~Runs(v, b)'
    BY <1>1, <1>2 DEF Runs, OneRunner
  <1>4. \A v \in Workers, c \in Batches : c # b /\ Runs(v, c)' => task'[v] = task[v]
    BY <1>2
  <1>5. QED BY <1>3, <1>4, LocalStep

\* A transaction of the task: if the company is still there, the part is
\* committed and the task goes on to the next step.
LEMMA SaveStep ==
  ASSUME TypeOK, AuditInv, NEW w \in Workers, NEW b \in Batches, Runs(w, b),
         NEW part \in Parts("full"), NEW next \in Steps, Save(w, part, next),
         company /\ Goto(w, next) /\ saved' = [saved EXCEPT ![b] = @ \cup {part}]
           => Abreast(w, b)'
  PROVE  InOrder' /\ CompletedHasResults' /\ SettledAgree'
  <1> USE DEF AuditInv
  <1>1. /\ UNCHANGED <<company, dispatch, row, meta, message, watch, causes>>
        /\ \E step \in Steps : Goto(w, step)
    BY DEF Save, Steps
  <1>2. saved[b] \subseteq saved'[b]
    BY DEF Save, Runs, TypeOK
  <1>3. \A c \in Batches : c # b => saved'[c] = saved[c]
    BY DEF Save, Runs, TypeOK
  <1>4. company => Abreast(w, b)'
    BY DEF Save, Runs
  <1>5. HasResults(b)'
    BY <1>1, <1>2 DEF CompletedHasResults, HasResults
  <1>6. QED BY <1>1, <1>3, <1>4, <1>5, TaskStep

LEMMA WorkStep ==
  ASSUME TypeOK, AuditInv, NEW w \in Workers, NEW b \in Batches, Runs(w, b), Proceed(w)
  PROVE  InOrder' /\ CompletedHasResults' /\ SettledAgree'
  <1> USE DEF AuditInv
  <1>1. task[w] \in Task /\ task[w].batch = b /\ task[w] # Rest
    BY NoneAssumption DEF TypeOK, Runs, Rest, Task, Steps
  <1>2. \A step \in Steps : Goto(w, step) => task'[w].step = step
    BY <1>1, GotoEffect
  <1>3. company => Abreast(w, b) /\ row[b] # None
    <2>1. message[b] # "none" /\ dispatch[b] = "over"
      BY DEF OneRunner
    <2>2. QED BY <2>1 DEF InOrder, RowsRemain
  <1>4. HasResults(b)
    BY DEF CompletedHasResults
  <1>5. ASSUME NEW step \in {"load", "report", "persist", "fail"}, Goto(w, step),
               UNCHANGED <<company, dispatch, row, message, saved, watch, causes>>,
               UNCHANGED meta \/ TellStage(w)
        PROVE  InOrder' /\ CompletedHasResults' /\ SettledAgree'
    <2>1. step \in Steps /\ task'[w].step = step
      BY <1>2, <1>5 DEF Steps
    <2>2. Abreast(w, b)'
      BY <2>1 DEF Abreast, Late
    <2>3. /\ \A c \in Batches : c # b => meta'[c] = meta[c]
          /\ meta'[b] \in {meta[b], "untold"}
      BY <1>1, <1>5 DEF TellStage, Tell, TypeOK
    <2>4. HasResults(b)'
      BY <1>4, <1>5, <2>3 DEF HasResults
    <2>5. QED BY <1>5, <2>1, <2>2, <2>3, <2>4, TaskStep
  <1>6. CASE Fetch(w) \/ Load(w) \/ Report(w)
    BY <1>1, <1>5, <1>6 DEF Fetch, Load, Report
  <1>7. CASE Persist(w)
    <2>1. ASSUME Goto(w, "finish"), saved' = [saved EXCEPT ![b] = @ \cup {"documents"}]
          PROVE  Abreast(w, b)'
      <3>1. task'[w].step = "finish" /\ "documents" \in saved'[b]
        BY <1>2, <2>1 DEF Steps, TypeOK
      <3>2. QED BY <3>1 DEF Abreast, Late
    <2>2. QED BY <1>7, <2>1, SaveStep DEF Persist, Parts, Steps
  <1>8. CASE FinishMeta(w)
    <2>1. Goto(w, "count") /\ task'[w].step = "count"
      BY <1>2, <1>8 DEF FinishMeta, Steps
    <2>2. meta'[b] = "completed" /\ \A c \in Batches : c # b => meta'[c] = meta[c]
      BY <1>1, <1>8 DEF FinishMeta, Tell, TypeOK
    <2>3. company => "documents" \in saved[b]
      BY <1>3, <1>8 DEF FinishMeta, Abreast
    <2>4. /\ UNCHANGED <<company, dispatch, row, message, saved, watch, causes>>
          /\ company => Abreast(w, b)'
          /\ HasResults(b)'
      BY <1>8, <2>1, <2>2, <2>3 DEF FinishMeta, Abreast, Late, HasResults
    <2>5. QED BY <2>1, <2>2, <2>4, TaskStep DEF Steps
  <1>9. CASE FinishRow(w)
    <2>1. PICK step \in {"contacts", "clear"} :
            Goto(w, step) /\ (Scope[b] = "full" => step = "contacts")
      BY <1>1, <1>9 DEF FinishRow
    <2>2. step \in Steps /\ task'[w].step = step
      BY <1>2, <2>1 DEF Steps
    <2>3. /\ company => row'[b] = "completed"
          /\ \A c \in Batches : c # b => row'[c] = row[c]
      BY <1>1, <1>3, <1>9 DEF FinishRow, SetRow, TypeOK
    <2>4. company => "documents" \in saved[b] /\ meta[b] = "completed"
      BY <1>3, <1>9 DEF FinishRow, Abreast
    <2>5. UNCHANGED <<company, dispatch, meta, message, saved, watch, causes>>
      BY <1>9 DEF FinishRow
    <2>6. company => Abreast(w, b)'
      BY <2>1, <2>2, <2>3, <2>4, <2>5 DEF Abreast, Late
    <2>7. HasResults(b)'
      BY <2>4, <2>5 DEF HasResults
    <2>8. QED BY <2>1, <2>2, <2>3, <2>5, <2>6, <2>7, TaskStep
  <1>10. CASE Contacts(w)
    <2>1. ASSUME company, Goto(w, "accruals"), saved' = [saved EXCEPT ![b] = @ \cup {"contacts"}]
          PROVE  Abreast(w, b)'
      <3>1. task'[w].step = "accruals" /\ saved'[b] = saved[b] \cup {"contacts"}
        BY <1>2, <2>1 DEF Steps, TypeOK
      <3>2. UNCHANGED <<meta, row>>
        BY <1>10 DEF Contacts, Save
      <3>3. QED BY <1>3, <1>10, <2>1, <3>1, <3>2 DEF Abreast, Late, Contacts
    <2>2. QED BY <1>10, <2>1, SaveStep DEF Contacts, Parts, Steps
  <1>11. CASE Accruals(w)
    <2>1. ASSUME company, Goto(w, "clear"), saved' = [saved EXCEPT ![b] = @ \cup {"accruals"}]
          PROVE  Abreast(w, b)'
      <3>1. task'[w].step = "clear" /\ saved'[b] = saved[b] \cup {"accruals"}
        BY <1>2, <2>1 DEF Steps, TypeOK
      <3>2. UNCHANGED <<meta, row>>
        BY <1>11 DEF Accruals, Save
      <3>3. QED BY <1>3, <1>11, <2>1, <3>1, <3>2 DEF Abreast, Late, Accruals
    <2>2. QED BY <1>11, <2>1, SaveStep DEF Accruals, Parts, Steps
  <1>12. CASE Reconcile(w)
    <2>1. ASSUME company, Goto(w, "prewarm"), saved' = [saved EXCEPT ![b] = @ \cup {"cleared"}]
          PROVE  Abreast(w, b)'
      <3>1. task'[w].step = "prewarm" /\ saved'[b] = saved[b] \cup {"cleared"}
        BY <1>2, <2>1 DEF Steps, TypeOK
      <3>2. UNCHANGED <<meta, row>>
        BY <1>12 DEF Reconcile, Save
      <3>3. QED BY <1>3, <1>12, <2>1, <3>1, <3>2 DEF Abreast, Late, Reconcile
    <2>2. QED BY <1>12, <2>1, SaveStep DEF Reconcile, Parts, Steps
  <1>13. CASE Prewarm(w)
    <2>1. /\ Leave(w) /\ UNCHANGED <<company, dispatch, row, meta, saved, watch, causes>>
          /\ \A c \in Batches : c # b => message'[c] = message[c]
      BY <1>1, <1>13 DEF Prewarm, Ack, TypeOK
    <2>2. company => /\ row[b] = "completed" /\ meta[b] = "completed"
                     /\ "documents" \in saved[b] /\ "cleared" \in saved[b]
                     /\ Scope[b] = "full" => "contacts" \in saved[b] /\ "accruals" \in saved[b]
      BY <1>3, <1>13 DEF Prewarm, Abreast, Late
    <2>3. company => Parts(Scope[b]) \subseteq saved[b]
      BY <2>2 DEF Parts
    <2>4. Agrees(b)'
      BY <2>1, <2>2, <2>3 DEF Agrees, Outcomes
    <2>5. HasResults(b)'
      BY <1>4, <2>1 DEF HasResults
    <2>6. QED BY <2>1, <2>4, <2>5, TaskEnds
  <1>14. CASE FailMeta(w)
    <2>1. Goto(w, "mark") /\ task'[w].step = "mark"
      BY <1>2, <1>14 DEF FailMeta, Steps
    <2>2. meta'[b] = "failed" /\ \A c \in Batches : c # b => meta'[c] = meta[c]
      BY <1>1, <1>14 DEF FailMeta, Tell, TypeOK
    <2>3. /\ UNCHANGED <<company, dispatch, row, message, saved, watch, causes>>
          /\ Abreast(w, b)'
          /\ HasResults(b)'
      BY <1>4, <1>14, <2>1, <2>2 DEF FailMeta, Abreast, Late, HasResults
    <2>4. QED BY <2>1, <2>2, <2>3, TaskStep DEF Steps
  <1>15. CASE FailRow(w)
    <2>1. /\ Leave(w) /\ UNCHANGED <<company, dispatch, meta, saved, watch, causes>>
          /\ \A c \in Batches : c # b => message'[c] = message[c] /\ row'[c] = row[c]
          /\ row'[b] \in {"failed", None}
      BY <1>1, <1>15 DEF FailRow, RowFailed, SetRow, Ack, TypeOK
    <2>2. company => row'[b] = "failed" /\ meta[b] = "failed"
      BY <1>1, <1>3, <1>15 DEF FailRow, RowFailed, SetRow, TypeOK, Abreast
    <2>3. Agrees(b)'
      BY <2>1, <2>2 DEF Agrees, Outcomes
    <2>4. None # "completed"
      BY NoneAssumption DEF Statuses, Outcomes
    <2>5. HasResults(b)'
      BY <1>4, <2>1, <2>4 DEF HasResults
    <2>6. QED BY <2>1, <2>3, <2>5, TaskEnds
  <1>16. QED
    BY <1>6, <1>7, <1>8, <1>9, <1>10, <1>11, <1>12, <1>13, <1>14, <1>15 DEF Proceed

LEMMA FaultStep ==
  ASSUME TypeOK, AuditInv, NEW w \in Workers,
         Raise(w) \/ HandlerFails(w) \/ HardLimit(w) \/ Crash(w)
  PROVE  InOrder' /\ CompletedHasResults' /\ SettledAgree'
  <1> USE DEF AuditInv
  <1>1. PICK b \in Batches : Runs(w, b)
    BY AtWork DEF Raise, HandlerFails, HardLimit, Crash, Steps, Runs
  <1>2. HasResults(b)'
    BY DEF CompletedHasResults, HasResults, BreaksOff, Raise, HandlerFails, HardLimit, Crash
  <1>3. CASE Raise(w)
    <2>1. task[w] \in Task /\ Goto(w, "fail") /\ "fail" \in Steps
      BY <1>3, AtWork DEF Raise, Steps
    <2>2. task'[w].step = "fail"
      BY <2>1, GotoEffect
    <2>3. Abreast(w, b)'
      BY <2>2 DEF Abreast, Late
    <2>4. QED BY <1>1, <1>2, <1>3, <2>1, <2>3, TaskStep DEF Raise, BreaksOff
  <1>4. CASE HandlerFails(w) \/ HardLimit(w)
    <2>1. causes'[b] # {} /\ \A c \in Batches : c # b => causes'[c] = causes[c]
      BY SMTT(30), <1>1, <1>4 DEF HandlerFails, HardLimit, Blame, Runs, TypeOK
    <2>2. \A c \in Batches : c # b => message'[c] = message[c]
      BY <1>1, <1>4 DEF HandlerFails, HardLimit, Ack, Runs, TypeOK
    <2>3. Agrees(b)'
      BY <2>1 DEF Agrees
    <2>4. QED BY <1>1, <1>2, <1>4, <2>1, <2>2, <2>3, TaskEnds DEF HandlerFails, HardLimit, BreaksOff
  <1>5. CASE Crash(w)
    <2>1. message'[b] = "lost" /\ \A c \in Batches : c # b => message'[c] = message[c]
      BY <1>1, <1>5 DEF Crash, Held, Runs, TypeOK
    <2>2. Agrees(b)'
      BY <2>1 DEF Agrees, Settled
    <2>3. QED BY <1>1, <1>2, <1>5, <2>1, <2>2, TaskEnds DEF Crash, BreaksOff
  <1>6. QED BY <1>3, <1>4, <1>5

LEMMA TakeStep ==
  ASSUME TypeOK, AuditInv, NEW w \in Workers, NEW b \in Batches, Take(w, b)
  PROVE  InOrder' /\ CompletedHasResults' /\ SettledAgree'
  <1> USE DEF AuditInv
  <1>1. /\ task'[w] = [step |-> "fetch", batch |-> b]
        /\ \A v \in Workers : v # w => task'[v] = task[v]
        /\ message[b] = "queued" /\ message'[b] = "taken"
        /\ \A c \in Batches : c # b => message'[c] = message[c]
        /\ UNCHANGED <<company, dispatch, row, meta, saved, watch, causes>>
    BY DEF Take, TypeOK
  <1>2. \A v \in Workers, c \in Batches : c # b /\ Runs(v, c)' => task'[v] = task[v]
    BY <1>1 DEF Runs
  <1>3. \A v \in Workers : Runs(v, b)' => v = w
    BY <1>1 DEF Runs, OneRunner
  <1>4. Abreast(w, b)'
    BY <1>1 DEF Abreast, Late
  <1>5. HasResults(b)' /\ Agrees(b)'
    BY <1>1 DEF CompletedHasResults, HasResults, Agrees, Settled
  <1>6. QED BY <1>1, <1>2, <1>3, <1>4, <1>5, LocalStep

LEMMA BatchStep ==
  ASSUME TypeOK, AuditInv, NEW b \in Batches,
         Dispatching(b) \/ BreakOff(b) \/ Redeliver(b) \/ Expire(b) \/ Open(b) \/ Poll(b)
  PROVE  InOrder' /\ CompletedHasResults' /\ SettledAgree'
  <1> USE DEF AuditInv
  <1>0. UNCHANGED <<company, task, saved>>
    BY DEF Dispatching, InsertBatch, SeedMeta, SeedExpiry, Enqueue, BreakOff, Redeliver, Expire, Open, Poll
  <1>1. \A v \in Workers : Runs(v, b)' <=> Runs(v, b)
    BY <1>0 DEF Runs
  <1>2. \A c \in Batches : c # b =>
          /\ row'[c] = row[c] /\ meta'[c] = meta[c] /\ saved'[c] = saved[c]
          /\ watch'[c] = watch[c] /\ message'[c] = message[c]
          /\ dispatch'[c] = dispatch[c] /\ causes'[c] = causes[c]
    <2>1. CASE InsertBatch(b) \/ SeedMeta(b) \/ SeedExpiry(b) \/ Enqueue(b)
      BY <2>1 DEF InsertBatch, SeedMeta, SeedExpiry, Enqueue, TypeOK
    <2>2. CASE BreakOff(b)
      BY <2>2 DEF BreakOff, Blame, TypeOK
    <2>3. CASE Redeliver(b) \/ Expire(b) \/ Open(b) \/ Poll(b)
      BY <2>3 DEF Redeliver, Expire, Open, Poll, TypeOK
    <2>4. QED BY <2>1, <2>2, <2>3 DEF Dispatching
  <1>3. HasResults(b) /\ Agrees(b)
    BY DEF CompletedHasResults, SettledAgree
  <1>4. \A v \in Workers : dispatch[b] # "over" => ~Runs(v, b)
    BY DEF OneRunner
  <1>5. company => \A v \in Workers : Runs(v, b) => Abreast(v, b)
    BY DEF InOrder
  <1>6. None # "completed" /\ None # "in_progress"
    BY NoneAssumption DEF Statuses, Outcomes
  <1>7. /\ company => \A v \in Workers : Runs(v, b)' => Abreast(v, b)'
        /\ HasResults(b)' /\ Agrees(b)'
    <2>1. CASE InsertBatch(b) \/ SeedMeta(b) \/ SeedExpiry(b)
      <3>1. dispatch[b] # "over" /\ dispatch'[b] # "over"
        BY <2>1 DEF InsertBatch, SeedMeta, SeedExpiry, TypeOK
      <3>2. UNCHANGED watch /\ row'[b] \in {row[b], "in_progress"}
                            /\ meta'[b] \in {meta[b], "in_progress"}
        BY <2>1 DEF InsertBatch, SeedMeta, SeedExpiry, TypeOK
      <3>3. HasResults(b)'
        BY <1>0, <1>3, <3>2 DEF HasResults
      <3>4. QED BY <1>1, <1>4, <3>1, <3>3 DEF Agrees, Settled
    <2>2. CASE Enqueue(b)
      <3>1. dispatch[b] # "over" /\ message'[b] = "queued" /\ UNCHANGED <<row, meta, watch>>
        BY <2>2 DEF Enqueue, TypeOK
      <3>2. QED BY <1>0, <1>1, <1>3, <1>4, <3>1 DEF HasResults, Agrees, Settled
    <2>3. CASE BreakOff(b)
      <3>1. dispatch[b] # "over" /\ causes'[b] # {} /\ UNCHANGED <<row, meta, watch>>
        BY <2>3 DEF BreakOff, Blame, TypeOK
      <3>2. QED BY <1>0, <1>1, <1>3, <1>4, <3>1 DEF HasResults, Agrees
    <2>4. CASE Redeliver(b)
      <3>1. message'[b] = "queued" /\ UNCHANGED <<row, meta, watch>>
        BY <2>4 DEF Redeliver, TypeOK
      <3>2. QED BY <1>0, <1>1, <1>3, <1>5, <3>1 DEF HasResults, Agrees, Settled, Abreast
    <2>5. CASE Expire(b)
      <3>1. /\ meta'[b] = None /\ \A v \in Workers : ~Runs(v, b)
            /\ UNCHANGED <<row, watch, dispatch, message, causes>>
        BY <2>5 DEF Expire, Running, TypeOK
      <3>2. QED BY <1>0, <1>1, <1>3, <1>6, <3>1 DEF HasResults, Agrees, Settled
    <2>6. CASE Open(b) \/ Poll(b)
      <3>1. /\ watch'[b] \in {"open", "expired", meta[b]}
            /\ UNCHANGED <<row, meta, dispatch, message, causes>>
        BY <2>6 DEF Open, Poll, TypeOK
      <3>2. HasResults(b)'
        BY <1>0, <1>3, <3>1 DEF HasResults
      <3>3. QED BY <1>0, <1>1, <1>3, <1>5, <3>1, <3>2 DEF Agrees, Settled, Abreast
    <2>7. QED BY <2>1, <2>2, <2>3, <2>4, <2>5, <2>6 DEF Dispatching
  <1>8. QED BY <1>0, <1>2, <1>7, LocalStep

LEMMA InitAuditInv == Init => AuditInv
  <1> SUFFICES ASSUME Init PROVE AuditInv
    OBVIOUS
  <1>1. \A w \in Workers, b \in Batches : ~Runs(w, b)
    BY NoneAssumption DEF Init, Runs, Rest
  <1>2. OneRunner /\ InOrder /\ RowsRemain
    BY <1>1 DEF Init, OneRunner, InOrder, RowsRemain
  <1>3. CompletedHasResults /\ SettledAgree
    BY NoneAssumption
    DEF Init, CompletedHasResults, HasResults, SettledAgree, Agrees, Settled, Statuses, Outcomes
  <1>4. QED BY <1>2, <1>3 DEF AuditInv

LEMMA NextAuditInv == TypeOK /\ AuditInv /\ [Next]_vars => AuditInv'
  <1> SUFFICES ASSUME TypeOK, AuditInv, [Next]_vars PROVE AuditInv'
    OBVIOUS
  <1>1. OneRunner' /\ RowsRemain'
    BY NextOneRunner, NextRowsRemain DEF AuditInv
  <1>2. CASE RemoveCompany
    <2>1. ~company'
      BY <1>2 DEF RemoveCompany
    <2>2. InOrder' /\ CompletedHasResults' /\ SettledAgree'
      BY <2>1 DEF InOrder, CompletedHasResults, HasResults, SettledAgree, Agrees
    <2>3. QED BY <1>1, <2>2 DEF AuditInv
  <1>3. CASE UNCHANGED vars
    BY <1>3 DEF vars, AuditInv, OneRunner, InOrder, RowsRemain, CompletedHasResults, HasResults,
       SettledAgree, Agrees, Settled, Abreast, Runs
  <1>4. ASSUME NEW w \in Workers, Proceed(w) PROVE AuditInv'
    <2>1. PICK b \in Batches : Runs(w, b)
      <3>1. task[w].step \in Steps
        BY <1>4 DEF Proceed, Steps, Fetch, Load, Report, Persist, FinishMeta, FinishRow, Contacts,
           Accruals, Reconcile, Prewarm, FailMeta, FailRow
      <3>2. QED BY <3>1, AtWork DEF Runs
    <2>2. QED BY <1>1, <1>4, <2>1, WorkStep DEF AuditInv
  <1>5. ASSUME NEW w \in Workers, Touch(w) PROVE AuditInv'
    BY <1>5, TouchEffect
    DEF AuditInv, OneRunner, InOrder, RowsRemain, CompletedHasResults, HasResults,
        SettledAgree, Agrees, Settled, Abreast, Runs
  <1>6. QED
    BY <1>1, <1>2, <1>3, <1>4, <1>5, WorkSteps, BatchStep, TakeStep, FaultStep
    DEF Next, AuditInv

(* An audit that is over has one outcome, and if it is completed all its   *)
(* results, whichever steps raised and however often a worker died.        *)
THEOREM OutcomeTheorem == Spec => [](CompletedHasResults /\ SettledAgree)
  <1>1. Init => TypeOK /\ AuditInv
    BY InitType, InitAuditInv
  <1>2. TypeOK /\ AuditInv /\ [Next]_vars => (TypeOK /\ AuditInv)'
    BY NextType, NextAuditInv
  <1>3. AuditInv => CompletedHasResults /\ SettledAgree
    BY DEF AuditInv
  <1>4. QED BY <1>1, <1>2, <1>3, PTL DEF Spec

(* The results half of that, the one the health score and the clients     *)
(* rely on.                                                                *)
THEOREM CompletedTheorem == Spec => []CompletedHasResults
  BY OutcomeTheorem, PTL

-----------------------------------------------------------------------------
(* The row and the results implement AuditOutcome.                         *)

LEMMA InitFailed == Init => FailedIsOver
  BY NoneAssumption DEF Init, FailedIsOver, Statuses, Outcomes

\* Steps of the task that neither write the row nor end the run.
LEMMA FailedGoto ==
  ASSUME TypeOK, FailedIsOver, NEW w \in Workers, NEW step \in Steps, task[w] \in Task,
         Goto(w, step), UNCHANGED <<row, message, dispatch>>
  PROVE  FailedIsOver'
  <1>1. \A v \in Workers : task'[v].batch = task[v].batch
    BY GotoEffect
  <1>2. QED BY <1>1 DEF FailedIsOver, Running, Runs

\* The run of w ends, and its message is answered or held.
LEMMA FailedLeave ==
  ASSUME TypeOK, FailedIsOver, NEW w \in Workers, task[w] \in Task, Leave(w),
         NEW left \in {"none", "lost"},
         message' = [message EXCEPT ![task[w].batch] = left],
         UNCHANGED <<row, dispatch>>
  PROVE  FailedIsOver'
  <1>1. task[w].batch \in Batches /\ Running(task[w].batch)
    BY DEF Task, Running, Runs
  <1>2. row[task[w].batch] # "failed"
    BY <1>1 DEF FailedIsOver
  <1>3. \A c \in Batches : c # task[w].batch => message'[c] = message[c]
    BY <1>1 DEF TypeOK
  <1>4. \A c \in Batches : Running(c)' => Running(c)
    BY LeaveEffect DEF Running, Runs
  <1>5. QED BY <1>2, <1>3, <1>4 DEF FailedIsOver

LEMMA FailedWork ==
  ASSUME TypeOK, OneRunner, FailedIsOver, NEW w \in Workers, Proceed(w)
  PROVE  FailedIsOver'
  <1> DEFINE b == task[w].batch
  <1>1. task[w].step \in Steps
    BY DEF Proceed, Steps, Fetch, Load, Report, Persist, FinishMeta, FinishRow, Contacts,
       Accruals, Reconcile, Prewarm, FailMeta, FailRow
  <1>2. task[w] \in Task /\ b \in Batches /\ Running(b)
    BY <1>1, AtWork DEF Running, Runs
  <1>3. CASE Fetch(w) \/ Load(w) \/ Report(w) \/ FinishMeta(w) \/ FailMeta(w)
    <2>1. \E step \in Steps : Goto(w, step)
      BY <1>3 DEF Fetch, Load, Report, FinishMeta, FailMeta, Steps
    <2>2. UNCHANGED <<row, message, dispatch>>
      BY <1>3 DEF Fetch, Load, Report, FinishMeta, FailMeta
    <2>3. QED BY <1>2, <2>1, <2>2, FailedGoto
  <1>4. CASE Persist(w) \/ Contacts(w) \/ Accruals(w) \/ Reconcile(w)
    <2>1. \E step \in Steps : Goto(w, step)
      BY <1>4 DEF Persist, Contacts, Accruals, Reconcile, Save, Steps
    <2>2. UNCHANGED <<row, message, dispatch>>
      BY <1>4 DEF Persist, Contacts, Accruals, Reconcile, Save
    <2>3. QED BY <1>2, <2>1, <2>2, FailedGoto
  <1>5. CASE FinishRow(w)
    <2>1. /\ row' = [row EXCEPT ![b] = IF @ = None THEN None ELSE "completed"]
          /\ UNCHANGED <<message, dispatch>>
      BY <1>5 DEF FinishRow, SetRow
    <2>2. \E step \in Steps : Goto(w, step)
      BY <1>5 DEF FinishRow, Steps
    <2>3. \A v \in Workers : task'[v].batch = task[v].batch
      BY <1>2, <2>2, GotoEffect
    <2>4. \A c \in Batches : Running(c)' => Running(c)
      BY <2>3 DEF Running, Runs
    <2>5. dispatch[b] = "over"
      BY <1>2 DEF OneRunner, Runs
    <2>6. None # "failed"
      BY NoneAssumption DEF Statuses, Outcomes
    <2>7. row'[b] \in {None, "completed"} /\ \A c \in Batches : c # b => row'[c] = row[c]
      BY <1>2, <2>1 DEF TypeOK
    <2>8. QED BY <2>1, <2>4, <2>5, <2>6, <2>7 DEF FailedIsOver
  <1>6. CASE Prewarm(w)
    BY <1>2, <1>6, FailedLeave DEF Prewarm, Ack
  <1>7. CASE FailRow(w)
    <2>1. /\ row' = [row EXCEPT ![b] = IF @ = None THEN None ELSE "failed"]
          /\ message' = [message EXCEPT ![b] = "none"]
          /\ Leave(w) /\ UNCHANGED dispatch
      BY <1>7 DEF FailRow, RowFailed, SetRow, Ack
    <2>2. dispatch[b] = "over"
      BY <1>2 DEF OneRunner, Runs
    <2>3. Rest \notin Task
      BY DEF Rest, Task, Steps
    <2>4. \A v \in Workers : v # w => ~Runs(v, b)
      BY <1>2, <2>3 DEF OneRunner, Runs
    <2>5. \A c \in Batches : Running(c)' => Running(c) /\ c # b
      BY <1>2, <2>1, <2>4, LeaveEffect DEF Running, Runs
    <2>6. \A c \in Batches : c # b => row'[c] = row[c] /\ message'[c] = message[c]
      BY <1>2, <2>1 DEF TypeOK
    <2>7. message'[b] = "none"
      BY <1>2, <2>1 DEF TypeOK
    <2>8. \A c \in Batches : row'[c] = "failed" =>
            message'[c] = "none" /\ dispatch'[c] = "over" /\ ~Running(c)'
      BY <2>1, <2>2, <2>5, <2>6, <2>7 DEF FailedIsOver
    <2>9. \A c \in Batches : dispatch'[c] # "over" => row'[c] \in {None, "in_progress"}
      BY <2>1, <2>2, <2>6 DEF FailedIsOver
    <2>10. QED BY <2>8, <2>9 DEF FailedIsOver
  <1>8. QED BY <1>3, <1>4, <1>5, <1>6, <1>7 DEF Proceed

LEMMA FailedBatchStep ==
  ASSUME TypeOK, OneRunner, FailedIsOver, NEW b \in Batches,
         Dispatching(b) \/ BreakOff(b) \/ Redeliver(b) \/ Expire(b) \/ Open(b) \/ Poll(b)
  PROVE  FailedIsOver'
  <1>1. \A c \in Batches : Running(c)' <=> Running(c)
    BY DEF Dispatching, InsertBatch, SeedMeta, SeedExpiry, Enqueue, BreakOff, Redeliver, Expire, Open, Poll,
       Running, Runs
  <1>2. CASE InsertBatch(b)
    BY <1>1, <1>2 DEF InsertBatch, FailedIsOver, TypeOK
  <1>3. CASE SeedMeta(b) \/ SeedExpiry(b) \/ Enqueue(b) \/ BreakOff(b)
    <2>1. dispatch[b] # "over" /\ UNCHANGED row
      BY <1>3 DEF SeedMeta, SeedExpiry, Enqueue, BreakOff
    <2>2. row[b] # "failed" /\ row[b] \in {None, "in_progress"}
      BY <2>1, NoneAssumption DEF FailedIsOver, Statuses, Outcomes
    <2>3. \A c \in Batches : c # b => message'[c] = message[c] /\ dispatch'[c] = dispatch[c]
      BY <1>3 DEF SeedMeta, SeedExpiry, Enqueue, BreakOff, TypeOK
    <2>4. QED BY <1>1, <2>1, <2>2, <2>3 DEF FailedIsOver
  <1>4. CASE Redeliver(b)
    BY <1>1, <1>4 DEF Redeliver, FailedIsOver, TypeOK
  <1>5. CASE Expire(b) \/ Open(b) \/ Poll(b)
    BY <1>1, <1>5 DEF Expire, Open, Poll, FailedIsOver
  <1>6. QED BY <1>2, <1>3, <1>4, <1>5 DEF Dispatching

LEMMA NextFailed == TypeOK /\ OneRunner /\ FailedIsOver /\ [Next]_vars => FailedIsOver'
  <1> SUFFICES ASSUME TypeOK, OneRunner, FailedIsOver, [Next]_vars PROVE FailedIsOver'
    OBVIOUS
  <1>1. ASSUME NEW w \in Workers, NEW b \in Batches, Take(w, b) PROVE FailedIsOver'
    <2>1. /\ message[b] = "queued" /\ UNCHANGED <<row, dispatch>>
          /\ task'[w].batch = b /\ \A v \in Workers : v # w => task'[v] = task[v]
          /\ \A c \in Batches : c # b => message'[c] = message[c]
      BY <1>1 DEF Take, TypeOK
    <2>2. row[b] # "failed"
      BY <2>1 DEF FailedIsOver
    <2>3. \A c \in Batches : c # b /\ Running(c)' => Running(c)
      BY <2>1 DEF Running, Runs
    <2>4. QED BY <2>1, <2>2, <2>3 DEF FailedIsOver
  <1>2. ASSUME NEW w \in Workers, Raise(w) \/ HandlerFails(w) \/ HardLimit(w) \/ Crash(w)
        PROVE  FailedIsOver'
    <2>1. task[w] \in Task
      BY <1>2, AtWork DEF Raise, HandlerFails, HardLimit, Crash, Steps
    <2>2. CASE Raise(w)
      BY <2>1, <2>2, FailedGoto DEF Raise, Steps
    <2>3. CASE HandlerFails(w) \/ HardLimit(w) \/ Crash(w)
      BY <2>1, <2>3, FailedLeave DEF HandlerFails, HardLimit, Crash, Ack, Held
    <2>4. QED BY <1>2, <2>2, <2>3
  <1>3. CASE RemoveCompany
    BY <1>3, NoneAssumption DEF RemoveCompany, FailedIsOver, Statuses, Outcomes, Running, Runs
  <1>4. CASE UNCHANGED vars
    BY <1>4 DEF vars, FailedIsOver, Running, Runs
  <1>5. ASSUME NEW w \in Workers, Touch(w) PROVE FailedIsOver'
    BY <1>5, TouchEffect DEF FailedIsOver, Running, Runs
  <1>6. QED BY <1>1, <1>2, <1>3, <1>4, <1>5, WorkSteps, FailedWork, FailedBatchStep DEF Next

\* The steps that write neither the row nor the results are stuttering steps.
LEMMA OutcomeStutters ==
  ASSUME UNCHANGED <<company, row, saved>>
  PROVE  UNCHANGED Outcome!vars
  BY DEF Outcome!vars

LEMMA SaveDelivers ==
  ASSUME TypeOK, FailedIsOver, RowsRemain, OneRunner, NEW w \in Workers, task[w].step \in Steps,
         NEW part \in Parts("full"), NEW next \in Steps, Save(w, part, next)
  PROVE  [Outcome!Next]_(Outcome!vars)
  <1> DEFINE b == task[w].batch
  <1>1. b \in Batches /\ Running(b)
    BY AtWork DEF Running, Runs
  <1>2. UNCHANGED <<company, row>>
    BY DEF Save
  <1>3. CASE ~company
    BY <1>2, <1>3, OutcomeStutters DEF Save
  <1>4. CASE company
    <2>1. saved' = [saved EXCEPT ![b] = @ \cup {part}]
      BY <1>4 DEF Save
    <2>2. dispatch[b] # "new"
      BY <1>1 DEF OneRunner, Runs
    <2>3. row[b] \in {"in_progress", "completed"}
      BY <1>1, <1>4, <2>2 DEF RowsRemain, FailedIsOver, TypeOK, Statuses, Outcomes
    <2>4. Outcome!Deliver(b)
      BY <1>2, <1>4, <2>1, <2>3 DEF Outcome!Deliver
    <2>5. QED BY <1>1, <2>4 DEF Outcome!Next
  <1>5. QED BY <1>3, <1>4

LEMMA WorkOutcome ==
  ASSUME TypeOK, AuditInv, FailedIsOver, NoRowRemains, NEW w \in Workers, Proceed(w)
  PROVE  [Outcome!Next]_(Outcome!vars)
  <1> DEFINE b == task[w].batch
  <1>1. task[w].step \in Steps
    BY DEF Proceed, Steps, Fetch, Load, Report, Persist, FinishMeta, FinishRow, Contacts,
       Accruals, Reconcile, Prewarm, FailMeta, FailRow
  <1>2. b \in Batches /\ Runs(w, b) /\ Running(b)
    BY <1>1, AtWork DEF Running, Runs
  <1>3. row[b] # "failed"
    BY <1>2 DEF FailedIsOver
  <1>4. CASE Fetch(w) \/ Load(w) \/ Report(w) \/ FinishMeta(w) \/ FailMeta(w) \/ Prewarm(w)
    <2>1. UNCHANGED <<company, row, saved>>
      BY <1>4 DEF Fetch, Load, Report, FinishMeta, FailMeta, Prewarm
    <2>2. QED BY <2>1, OutcomeStutters
  <1>5. CASE Persist(w) \/ Contacts(w) \/ Accruals(w) \/ Reconcile(w)
    BY <1>1, <1>5, SaveDelivers
    DEF AuditInv, Persist, Contacts, Accruals, Reconcile, Parts, Steps
  <1>6. CASE FinishRow(w)
    <2>1. row' = [row EXCEPT ![b] = IF @ = None THEN None ELSE "completed"]
      BY <1>6 DEF FinishRow, SetRow
    <2>2. UNCHANGED <<company, saved>>
      BY <1>6 DEF FinishRow
    <2>3. CASE row[b] \in {None, "completed"}
      <3>1. row' = row
        BY <1>2, <2>1, <2>3 DEF TypeOK
      <3>2. QED BY <2>2, <3>1, OutcomeStutters
    <2>4. CASE row[b] = "in_progress"
      <3>1. "documents" \in saved[b]
        BY <1>2, <1>6, <2>4, NoneAssumption
        DEF FinishRow, AuditInv, InOrder, Abreast, NoRowRemains, Statuses
      <3>2. row' = [row EXCEPT ![b] = "completed"]
        BY <2>1, <2>4, NoneAssumption DEF Statuses
      <3>3. Outcome!Complete(b)
        BY <2>2, <2>4, <3>1, <3>2 DEF Outcome!Complete
      <3>4. QED BY <1>2, <3>3 DEF Outcome!Next
    <2>5. QED BY <1>2, <1>3, <2>3, <2>4 DEF TypeOK, Statuses, Outcomes
  <1>7. CASE FailRow(w)
    <2>1. row' = [row EXCEPT ![b] = IF @ = None THEN None ELSE "failed"]
      BY <1>7 DEF FailRow, RowFailed, SetRow
    <2>2. UNCHANGED <<company, saved>>
      BY <1>7 DEF FailRow
    <2>3. CASE row[b] = None
      <3>1. row' = row
        BY <1>2, <2>1, <2>3 DEF TypeOK
      <3>2. QED BY <2>2, <3>1, OutcomeStutters
    <2>4. CASE row[b] \in {"in_progress", "completed"}
      <3>1. row' = [row EXCEPT ![b] = "failed"]
        BY <2>1, <2>4, NoneAssumption DEF Statuses, Outcomes
      <3>2. Outcome!Fail(b)
        BY <2>2, <2>4, <3>1 DEF Outcome!Fail
      <3>3. QED BY <1>2, <3>2 DEF Outcome!Next
    <2>5. QED BY <1>2, <1>3, <2>3, <2>4 DEF TypeOK, Statuses, Outcomes
  <1>8. QED BY <1>4, <1>5, <1>6, <1>7 DEF Proceed


LEMMA NextNoRow == TypeOK /\ NoRowRemains /\ [Next]_vars => NoRowRemains'
  <1> SUFFICES ASSUME TypeOK, NoRowRemains, [Next]_vars PROVE NoRowRemains'
    OBVIOUS
  <1>1. ASSUME NEW b \in Batches,
               Dispatching(b) \/ BreakOff(b) \/ Redeliver(b) \/ Expire(b) \/ Open(b) \/ Poll(b)
        PROVE  NoRowRemains'
    BY <1>1 DEF NoRowRemains, Dispatching, InsertBatch, SeedMeta, SeedExpiry, Enqueue, BreakOff, Redeliver,
       Expire, Open, Poll
  <1>2. ASSUME NEW w \in Workers, Proceed(w) PROVE NoRowRemains'
    <2>1. CASE FinishRow(w) \/ FailRow(w)
      BY <2>1 DEF FinishRow, FailRow, RowFailed, SetRow, NoRowRemains, TypeOK
    <2>2. CASE ~(FinishRow(w) \/ FailRow(w))
      BY <1>2, <2>2 DEF Proceed, Fetch, Load, Report, Persist, FinishMeta, Contacts, Accruals,
         Reconcile, Prewarm, FailMeta, Save, NoRowRemains
    <2>3. QED BY <2>1, <2>2
  <1>3. ASSUME NEW w \in Workers,
               Raise(w) \/ HandlerFails(w) \/ HardLimit(w) \/ Crash(w) \/ \E b \in Batches : Take(w, b)
        PROVE  NoRowRemains'
    BY <1>3 DEF Raise, HandlerFails, HardLimit, Crash, Take, NoRowRemains
  <1>4. CASE RemoveCompany
    BY <1>4 DEF RemoveCompany, NoRowRemains
  <1>5. CASE UNCHANGED vars
    BY <1>5 DEF vars, NoRowRemains
  <1>6. ASSUME NEW w \in Workers, Touch(w) PROVE NoRowRemains'
    BY <1>6, TouchEffect DEF NoRowRemains
  <1>7. QED BY <1>1, <1>2, <1>3, <1>4, <1>5, <1>6, WorkSteps DEF Next

LEMMA NextOutcome ==
  TypeOK /\ AuditInv /\ FailedIsOver /\ NoRowRemains /\ [Next]_vars
    => [Outcome!Next]_(Outcome!vars)
  <1> SUFFICES ASSUME TypeOK, AuditInv, FailedIsOver, NoRowRemains, [Next]_vars
               PROVE  [Outcome!Next]_(Outcome!vars)
    OBVIOUS
  <1>1. ASSUME NEW b \in Batches, InsertBatch(b) PROVE [Outcome!Next]_(Outcome!vars)
    <2>1. CASE row[b] = None
      <3>1. Outcome!Start(b)
        BY <1>1, <2>1 DEF InsertBatch, Outcome!Start
      <3>2. QED BY <3>1 DEF Outcome!Next
    <2>2. CASE row[b] = "in_progress"
      <3>1. row' = row
        BY <1>1, <2>2 DEF InsertBatch, TypeOK
      <3>2. QED BY <1>1, <3>1, OutcomeStutters DEF InsertBatch
    <2>3. QED BY <1>1, <2>1, <2>2 DEF InsertBatch, FailedIsOver
  <1>2. ASSUME NEW b \in Batches,
               SeedMeta(b) \/ SeedExpiry(b) \/ Enqueue(b) \/ BreakOff(b) \/ Redeliver(b) \/ Expire(b)
                 \/ Open(b) \/ Poll(b)
        PROVE  [Outcome!Next]_(Outcome!vars)
    <2>1. UNCHANGED <<company, row, saved>>
      BY <1>2 DEF SeedMeta, SeedExpiry, Enqueue, BreakOff, Redeliver, Expire, Open, Poll
    <2>2. QED BY <2>1, OutcomeStutters
  <1>3. ASSUME NEW w \in Workers,
               Raise(w) \/ HandlerFails(w) \/ HardLimit(w) \/ Crash(w) \/ \E b \in Batches : Take(w, b)
        PROVE  [Outcome!Next]_(Outcome!vars)
    <2>1. UNCHANGED <<company, row, saved>>
      BY <1>3 DEF Raise, HandlerFails, HardLimit, Crash, Take
    <2>2. QED BY <2>1, OutcomeStutters
  <1>4. CASE RemoveCompany
    <2>1. Outcome!Remove
      BY <1>4 DEF RemoveCompany, Outcome!Remove
    <2>2. QED BY <2>1 DEF Outcome!Next
  <1>5. CASE UNCHANGED vars
    BY <1>5, OutcomeStutters DEF vars
  <1>6. ASSUME NEW w \in Workers, Touch(w) PROVE [Outcome!Next]_(Outcome!vars)
    BY <1>6, TouchEffect, OutcomeStutters
  <1>7. QED
    BY <1>1, <1>2, <1>3, <1>4, <1>5, <1>6, WorkSteps, WorkOutcome DEF Next, Dispatching

(* The row and the results of every audit go through the life that         *)
(* AuditOutcome describes, once, for any batches, scopes, workers and      *)
(* number of faults.                                                       *)
THEOREM RefinementTheorem == Spec => KeepsPromise
  <1> DEFINE Inv == TypeOK /\ AuditInv /\ FailedIsOver /\ NoRowRemains
  <1>1. Init => Inv
    BY InitType, InitAuditInv, InitFailed DEF Init, NoRowRemains
  <1>2. Inv /\ [Next]_vars => Inv'
    BY NextType, NextAuditInv, NextFailed, NextNoRow DEF AuditInv
  <1>3. Init => Outcome!Init
    BY DEF Init, Outcome!Init
  <1>4. Inv /\ [Next]_vars => [Outcome!Next]_(Outcome!vars)
    BY NextOutcome
  <1> HIDE DEF Inv
  <1>5. QED BY <1>1, <1>2, <1>3, <1>4, PTL DEF Spec, KeepsPromise, Outcome!Spec
=============================================================================
