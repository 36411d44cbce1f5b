------------------------------ MODULE SyncTask ------------------------------
(***************************************************************************)
(* The sync tasks of one connected company around the pulls of its         *)
(* entities: who starts them, the sync:active flag, what /sync-status      *)
(* tells, the connection health and the audit each task chains.  What a    *)
(* pull does to the mirror is in XeroMirror.                               *)
(*                                                                         *)
(* A task pulls all entities at the same time, each in a session of its    *)
(* own that first makes sure there is a state row.  Then it settles        *)
(* needs_reconnect, dispatches an audit, and in a finally clears the flag. *)
(* The flag is set by the Refresh button only; the nightly task and the    *)
(* connect hook start tasks without it, and every task clears it.  A task  *)
(* may be cancelled by the soft time limit, killed by the hard one, or     *)
(* lose its worker, after which the broker delivers it again.              *)
(***************************************************************************)
EXTENDS Integers, FiniteSets

CONSTANTS
  Entities,   \* SYNC_ENTITIES
  Tasks,      \* bound: sync tasks of the company in the queue or at work at once
  MaxFaults,  \* bound: failed steps, cancelled, killed and lost tasks
  MaxGrants,  \* bound: changes of the consent in Xero
  Absent

ASSUME AbsentAssumption == Absent \notin {"in_progress", "ok", "error", "auth"}
ASSUME TaskBoundAssumption == MaxFaults \in Nat /\ MaxGrants \in Nat

VARIABLES
  flag,         \* the key sync:active:{company} in Redis
  task,         \* task[t]: where a task is
  pullOf,       \* pullOf[t][e]: where the pull of an entity by a task is
  last_status,  \* last_status[e]: of xero_sync_state, Absent without a row
  needs,        \* company.needs_reconnect
  valid,        \* is the consent behind the connection valid?
  unaudited,    \* entities with committed changes no audit was dispatched for
  left,         \* observer: entities whose pull was cut off
  faults, grants

taskVars == <<flag, task, pullOf, last_status, needs, valid, unaudited, left, faults, grants>>
bounds == <<faults, grants>>

Outcomes == {"ok", "auth", "error"}
PullState == [at : {"idle", "load", "create", "fetch", "done"}, out : Outcomes \cup {Absent}]
Places == {"none", "queued", "pulling", "settle", "chain", "clear"}

TaskTypeOK ==
  /\ flag \in BOOLEAN
  /\ task \in [Tasks -> Places]
  /\ pullOf \in [Tasks -> [Entities -> PullState]]
  /\ last_status \in [Entities -> {Absent, "in_progress", "ok", "error"}]
  /\ needs \in BOOLEAN
  /\ valid \in BOOLEAN
  /\ unaudited \subseteq Entities
  /\ left \subseteq Entities
  /\ faults \in 0 .. MaxFaults
  /\ grants \in 0 .. MaxGrants

All(at) == [e \in Entities |-> [at |-> at, out |-> Absent]]
NoPulls == All("idle")

TaskInit ==
  /\ flag = FALSE
  /\ task = [t \in Tasks |-> "none"]
  /\ pullOf = [t \in Tasks |-> NoPulls]
  /\ \/ valid = TRUE /\ last_status = [e \in Entities |-> Absent]        \* just connected
     \/ valid = FALSE /\ last_status = [e \in Entities |-> "error"]   \* withdrawn, and noticed
  /\ needs = ~valid
  /\ unaudited = {}
  /\ left = {}
  /\ faults = 0
  /\ grants = 0

Goto(t, place) == task' = [task EXCEPT ![t] = place]
PullGoto(t, e, at) == pullOf' = [pullOf EXCEPT ![t][e].at = at]
PullEnds(t, e, out) == pullOf' = [pullOf EXCEPT ![t][e] = [at |-> "done", out |-> out]]
Fault == faults < MaxFaults /\ faults' = faults + 1

-----------------------------------------------------------------------------
(***************************************************************************)
(* Who starts tasks.                                                       *)
(***************************************************************************)
\* refresh_data: SET NX, then the task.  With the flag set the tap is answered
\* "already_syncing" and nothing happens.
Tap(t) ==
  /\ task[t] = "none"
  /\ ~flag
  /\ flag' = TRUE
  /\ Goto(t, "queued")
  /\ UNCHANGED <<pullOf, last_status, needs, valid, unaudited, left, bounds>>

\* The request ends between the two, or the broker does not answer.
TapFails ==
  /\ ~flag
  /\ flag' = TRUE
  /\ Fault
  /\ UNCHANGED <<task, pullOf, last_status, needs, valid, unaudited, left, grants>>

\* The nightly task, the connect hook, reconnect.
Nightly(t) ==
  /\ task[t] = "none"
  /\ Goto(t, "queued")
  /\ UNCHANGED <<flag, pullOf, last_status, needs, valid, unaudited, left, bounds>>

Take(t) ==
  /\ task[t] = "queued"
  /\ Goto(t, "pulling")
  /\ pullOf' = [pullOf EXCEPT ![t] = All("load")]
  /\ UNCHANGED <<flag, last_status, needs, valid, unaudited, left, bounds>>

-----------------------------------------------------------------------------
(***************************************************************************)
(* The pulls.                                                              *)
(***************************************************************************)
\* _get_or_create_state finds the row: last_status is set and committed.
Load(t, e) ==
  /\ task[t] = "pulling" /\ pullOf[t][e].at = "load"
  /\ IF last_status[e] = Absent
     THEN /\ PullGoto(t, e, "create")
          /\ UNCHANGED <<last_status, left>>
     ELSE /\ PullGoto(t, e, "fetch")
          /\ last_status' = [last_status EXCEPT ![e] = "in_progress"]
          /\ left' = left \ {e}
  /\ UNCHANGED <<flag, task, needs, valid, unaudited, bounds>>

\* slip: the loser of the race marks the row it found, and leaves
CreateMarks(t, e) ==
  /\ task[t] = "pulling" /\ pullOf[t][e].at = "create"
  /\ last_status' = [last_status EXCEPT ![e] = "in_progress"]
  /\ IF last_status[e] = Absent THEN PullGoto(t, e, "fetch") ELSE PullEnds(t, e, "error")
  /\ UNCHANGED <<flag, task, needs, valid, unaudited, left, bounds>>

\* It does not: insert one.  When another task did so meanwhile the unique
\* constraint raises, outside the try of sync_entity; gather returns the exception.
Create(t, e) ==
  /\ task[t] = "pulling" /\ pullOf[t][e].at = "create"
  /\ IF last_status[e] = Absent
     THEN /\ PullGoto(t, e, "fetch")
          /\ last_status' = [last_status EXCEPT ![e] = "in_progress"]
     ELSE /\ PullEnds(t, e, "error")
          /\ UNCHANGED last_status
  /\ UNCHANGED <<flag, task, needs, valid, unaudited, left, bounds>>

\* A page is asked for, upserted and committed.
Page(t, e) ==
  /\ task[t] = "pulling" /\ pullOf[t][e].at = "fetch"
  /\ valid
  /\ e \notin unaudited
  /\ unaudited' = unaudited \cup {e}
  /\ UNCHANGED <<flag, task, pullOf, last_status, needs, valid, left, bounds>>

\* slip: the handler of an authentication error returns before it saves
FinishUnlessAuth(t, e) ==
  /\ task[t] = "pulling" /\ pullOf[t][e].at = "fetch"
  /\ PullEnds(t, e, IF valid THEN "ok" ELSE "auth")
  /\ last_status' = [last_status EXCEPT ![e] = IF valid THEN "ok" ELSE @]
  /\ UNCHANGED <<flag, task, needs, valid, unaudited, left, bounds>>

\* The last answer of Xero, and the outcome in the state row: from the end of
\* the try, or from the handler.  Without a valid consent Nango raises
\* NangoAuthError.
FinishPull(t, e) ==
  /\ task[t] = "pulling" /\ pullOf[t][e].at = "fetch"
  /\ PullEnds(t, e, IF valid THEN "ok" ELSE "auth")
  /\ last_status' = [last_status EXCEPT ![e] = IF valid THEN "ok" ELSE "error"]
  /\ UNCHANGED <<flag, task, needs, valid, unaudited, left, bounds>>

\* Any other exception.
FailPull(t, e) ==
  /\ task[t] = "pulling" /\ pullOf[t][e].at = "fetch"
  /\ Fault
  /\ PullEnds(t, e, "error")
  /\ last_status' = [last_status EXCEPT ![e] = "error"]
  /\ UNCHANGED <<flag, task, needs, valid, unaudited, left, grants>>

-----------------------------------------------------------------------------
(***************************************************************************)
(* The rest of the task.                                                   *)
(***************************************************************************)
Results(t) == {pullOf[t][e].out : e \in Entities}

\* slip: the connection is never declared well again
VerdictSticky(results) == IF "auth" \in results THEN TRUE ELSE Absent

\* One entity that met an authentication error counts more than one that did not.
Verdict(results) ==
  IF "auth" \in results THEN TRUE ELSE IF "ok" \in results THEN FALSE ELSE Absent

\* asyncio.gather has all results; _update_connection_health loads the company:
\* is there something to change?
Health(t) ==
  /\ task[t] = "pulling"
  /\ \A e \in Entities : pullOf[t][e].at = "done"
  /\ LET v == Verdict(Results(t))
     IN Goto(t, IF v = Absent THEN "chain"
                ELSE IF v = needs THEN "chain" ELSE "settle")
  /\ UNCHANGED <<flag, pullOf, last_status, needs, valid, unaudited, left, bounds>>

Settle(t) ==
  /\ task[t] = "settle"
  /\ needs' = Verdict(Results(t))
  /\ Goto(t, "chain")
  /\ UNCHANGED <<flag, pullOf, last_status, valid, unaudited, left, bounds>>

\* An exception there leaves the task without an audit.
HealthFails(t) ==
  /\ task[t] = "settle"
  /\ Fault
  /\ Goto(t, "clear")
  /\ UNCHANGED <<flag, pullOf, last_status, needs, valid, unaudited, left, grants>>

\* slip: an audit only when everything was pulled
ChainsIfComplete(results) == results = {"ok"}

\* The result says "ok" whatever the entities' outcomes.
Chains(results) == TRUE

\* _dispatch_audit_sync.  The audit reads the mirror when it runs, after this.
Chain(t) ==
  /\ task[t] = "chain"
  /\ Goto(t, "clear")
  /\ unaudited' = IF Chains(Results(t)) THEN {} ELSE unaudited
  /\ UNCHANGED <<flag, pullOf, last_status, needs, valid, left, bounds>>

ChainFails(t) ==
  /\ task[t] = "chain"
  /\ Fault
  /\ Goto(t, "clear")
  /\ UNCHANGED <<flag, pullOf, last_status, needs, valid, unaudited, left, grants>>

End(t) ==
  /\ Goto(t, "none")
  /\ pullOf' = [pullOf EXCEPT ![t] = NoPulls]

\* The flag goes, whoever set it.
Clear(t) ==
  /\ task[t] = "clear"
  /\ End(t)
  /\ flag' = FALSE
  /\ UNCHANGED <<last_status, needs, valid, unaudited, left, bounds>>

ClearFails(t) ==
  /\ task[t] = "clear"
  /\ Fault
  /\ End(t)
  /\ UNCHANGED <<flag, last_status, needs, valid, unaudited, left, grants>>

-----------------------------------------------------------------------------
(***************************************************************************)
(* Limits, workers, Redis and Xero.                                        *)
(***************************************************************************)
\* The status of a row whose pull is cut off stays as it is.
CutOff(t) == {e \in Entities : pullOf[t][e].at = "fetch"}

\* task_soft_time_limit raises in the event loop, and asyncio.run cancels the
\* pulls: a cancellation is no Exception to their handlers.  Raised inside a
\* pull it is a FailPull.
SoftLimit(t) ==
  /\ task[t] \in {"pulling", "settle"}
  /\ Fault
  /\ Goto(t, "clear")
  /\ left' = left \cup CutOff(t)
  /\ pullOf' = [pullOf EXCEPT ![t] = NoPulls]
  /\ UNCHANGED <<flag, last_status, needs, valid, unaudited, grants>>

AtWork(t) == task[t] \notin {"none", "queued"}

\* task_time_limit kills the process; the message is acknowledged.
HardLimit(t) ==
  /\ AtWork(t)
  /\ Fault
  /\ End(t)
  /\ left' = left \cup CutOff(t)
  /\ UNCHANGED <<flag, last_status, needs, valid, unaudited, grants>>

\* The worker dies; the message is delivered again after the visibility timeout.
LoseWorker(t) ==
  /\ AtWork(t)
  /\ Fault
  /\ Goto(t, "queued")
  /\ left' = left \cup CutOff(t)
  /\ pullOf' = [pullOf EXCEPT ![t] = NoPulls]
  /\ UNCHANGED <<flag, last_status, needs, valid, unaudited, grants>>

\* The five minutes of the flag; nothing keeps a task from taking longer.
Expire ==
  /\ flag
  /\ flag' = FALSE
  /\ UNCHANGED <<task, pullOf, last_status, needs, valid, unaudited, left, bounds>>

\* The user withdraws or renews the consent.
Grant ==
  /\ grants < MaxGrants
  /\ grants' = grants + 1
  /\ valid' = ~valid
  /\ UNCHANGED <<flag, task, pullOf, last_status, needs, unaudited, left, faults>>

-----------------------------------------------------------------------------
Proceed(t) ==
  \/ Take(t) \/ Health(t) \/ Settle(t) \/ Chain(t) \/ Clear(t)
  \/ \E e \in Entities : Load(t, e) \/ Create(t, e) \/ FinishPull(t, e)

TaskNext ==
  \/ \E t \in Tasks :
       \/ Tap(t) \/ Nightly(t) \/ Take(t)
       \/ Health(t) \/ Settle(t) \/ HealthFails(t)
       \/ Chain(t) \/ ChainFails(t) \/ Clear(t) \/ ClearFails(t)
       \/ SoftLimit(t) \/ HardLimit(t) \/ LoseWorker(t)
       \/ \E e \in Entities : \/ Load(t, e) \/ Create(t, e)
                              \/ Page(t, e) \/ FinishPull(t, e) \/ FailPull(t, e)
  \/ TapFails \/ Expire \/ Grant

\* Tasks proceed, in whatever order of their entities; the beat comes round; the
\* flag runs out.
Fairness ==
  /\ \A t \in Tasks : WF_taskVars(Proceed(t))
  /\ WF_taskVars(\E t \in Tasks : Nightly(t))
  /\ WF_taskVars(Expire)

TaskSpec == TaskInit /\ [][TaskNext]_taskVars
FairTaskSpec == TaskSpec /\ Fairness

-----------------------------------------------------------------------------
(***************************************************************************)
(* What the user is told.                                                  *)
(***************************************************************************)
\* sync_status
Syncing == flag \/ \E e \in Entities : last_status[e] = "in_progress"

Alive(t) == task[t] # "none"

\* Whatever tasks race, including two first pulls that both find no state row:
\* an entity shown as being pulled is being pulled by some task, unless a pull
\* of it was cut off by a time limit or a dead worker and none has begun since.
InProgressIsTrue ==
  \A e \in Entities : last_status[e] = "in_progress" =>
    \/ \E t \in Tasks : e \in CutOff(t)
    \/ e \in left

\* The documentation of refresh_data: a crashed worker "can never wedge the
\* button on syncing forever".  /sync-status says that the company is syncing
\* only while the flag is set or a task exists.
SyncingMeansWork == Syncing => flag \/ \E t \in Tasks : Alive(t)

\* An entity shown as being pulled does not stay so, even when its pull was cut
\* off: a later task repairs it at the latest.
EveryPullIsToldOver ==
  \A e \in Entities : last_status[e] = "in_progress" ~> last_status[e] # "in_progress"

\* needs_reconnect ends up saying whether the consent is valid, whatever tasks
\* that saw the other answer are still on their way.
HealthCatchesUp == <>[](needs = ~valid)

\* What a pull committed is audited, although audits are chained by the task
\* and the pulls of another task commit while it chains.
ChangesAreAudited == unaudited # {} ~> unaudited = {}
=============================================================================
