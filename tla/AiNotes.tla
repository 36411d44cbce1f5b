------------------------------- MODULE AiNotes -------------------------------
(***************************************************************************)
(* The AI notes of a company's rows: the keys health_check_ai:{document}   *)
(* that the feed shows beside an issue.  A note is written from the issues *)
(* a job has in hand, and nothing deletes it when the issues of the row    *)
(* change.                                                                 *)
(*                                                                         *)
(* Jobs: an audit persists its rows, and at its very end queues a prewarm  *)
(* task for the transactions it inserted or re-scored, but not for the     *)
(* contacts and accounts, and for nothing where the language model is      *)
(* switched off; a sweep (re-enrich) lists the rows without a note; a      *)
(* reader opens a row.  Each asks the model for notes in chunks, and the   *)
(* model may fail, leave items out, and answer in any order.  Rows are     *)
(* TrappedRows' of one company, reduced to their issues.  The TTL of a     *)
(* note is left out: one that has run out is missing until the row is      *)
(* opened or swept, and never outdated.                                    *)
(***************************************************************************)
EXTENDS Integers, SequencesExt

CONSTANTS
  Documents, IssueTypes,
  Apart,                    \* the contacts and accounts among the documents
  Duplicate,                \* the issue a scoped audit looks for
  Findings,                 \* bound: what a full audit may say of a document
  Audits, Sweeps, Readers,  \* bound: jobs of each kind at once
  MaxAudits,                \* bound: audits that reach their rows
  MaxAsks,                  \* bound: sweeps and openings
  MaxFaults,                \* bound: failed answers and writes, dead jobs
  NoNote

ASSUME ApartAssumption == Apart \subseteq Documents
ASSUME DuplicateAssumption == Duplicate \in IssueTypes
ASSUME FindingsAssumption == Findings \subseteq SUBSET IssueTypes
ASSUME JobBoundAssumption == MaxAudits \in Nat /\ MaxAsks \in Nat /\ MaxFaults \in Nat

Transactions == Documents \ Apart
Jobs == Audits \cup Sweeps \cup Readers

VARIABLES
  rowOf,  \* rowOf[d]: is there a row of the document, and its issues
  note,   \* note[d]: what the note under the document's key was written from
  job,    \* job[j]: where a job is
  lost,   \* observer: documents some job ended without writing for
  moved,  \* observer: documents whose issues changed with no prewarm to follow
  late,   \* observer: documents an audit wrote while another job held them
  enabled, \* the setting LLM_CHECKS_ENABLED, and there is a key
  audits, asks, faults

notesVars == <<rowOf, note, job, lost, moved, late, enabled, audits, asks, faults>>
causes == <<lost, moved, late>>
bounds == <<enabled, audits, asks, faults>>

\* What a job has in hand of a row: TrappedRow.
Fact == [doc : Documents, issues : SUBSET IssueTypes]

\* What an answer becomes: HealthCheckAIRecord, under the key of a document.
Note == [doc : Documents, from : Fact]

ASSUME DocumentsAssumption == IsFiniteSet(Documents) /\ NoNote \notin Fact \cup Note

\* A row is open or closed by a user.  One that an audit cleared keeps its issues
\* and is here open: sweeps list it, and it is re-scored like any other.
NoRow == [at |-> "none", issues |-> {}]

\* A queued task has read nothing but its arguments, so it is asking already.
\* all: the arguments of the task; todo: what it has not asked about yet;
\* ready: the notes of the rows it asked about that are not yet written; NoNote
\* stands for a row it got no answer for
Job == [at : {"free", "persisted", "listed", "asking", "writing"},
        all : Seq(Fact), todo : Seq(Fact), ready : Seq(Note \cup {NoNote})]

FreeJob == [at |-> "free", all |-> <<>>, todo |-> <<>>, ready |-> <<>>]

NotesTypeOK ==
  /\ rowOf \in [Documents -> [at : {"none", "open", "closed"}, issues : SUBSET IssueTypes]]
  /\ note \in [Documents -> Fact \cup {NoNote}]
  /\ job \in [Jobs -> Job]
  /\ lost \subseteq Documents /\ moved \subseteq Documents /\ late \subseteq Documents
  /\ enabled \in BOOLEAN
  /\ audits \in 0 .. MaxAudits
  /\ asks \in 0 .. MaxAsks
  /\ faults \in 0 .. MaxFaults

NotesInit ==
  /\ rowOf = [d \in Documents |-> NoRow]
  /\ note = [d \in Documents |-> NoNote]
  /\ job = [j \in Jobs |-> FreeJob]
  /\ lost = {} /\ moved = {} /\ late = {}
  /\ enabled \in BOOLEAN
  /\ audits = 0
  /\ asks = 0
  /\ faults = 0

Audit == audits < MaxAudits /\ audits' = audits + 1
Ask == asks < MaxAsks /\ asks' = asks + 1
Fault == faults < MaxFaults /\ faults' = faults + 1
Set(j, new) == job' = [job EXCEPT ![j] = new]
Start(j, facts) ==
  Set(j, IF facts = <<>> THEN FreeJob
         ELSE [FreeJob EXCEPT !.at = "asking", !.all = facts, !.todo = facts])
DocsOf(facts) == {fact.doc : fact \in facts}

\* What a job still has to write notes from, and those of its documents whose
\* rows say something else.
InHand(j) ==
  IF job[j].at \in {"persisted", "listed"} THEN Range(job[j].all)
  ELSE Range(job[j].todo) \cup {answer.from : answer \in Range(job[j].ready) \ {NoNote}}

Outdated(facts, said) == DocsOf({fact \in facts : fact.issues # said[fact.doc].issues})

-----------------------------------------------------------------------------
(***************************************************************************)
(* The rows change.                                                        *)
(***************************************************************************)
\* slip: only rows that were not there before are passed on
NewlyTrapped(flags) ==
  SetToSeq({[doc |-> d, issues |-> flags[d]] : d \in {x \in Transactions :
                                         flags[x] # {} /\ rowOf[x].at = "none"}})

\* trapped_rows_for_enrich: what was inserted or re-scored, which is what was
\* flagged and no user has closed.
Trapped(flags) ==
  SetToSeq({[doc |-> d, issues |-> flags[d]] : d \in {x \in Transactions :
                                         flags[x] # {} /\ rowOf[x].at # "closed"}})

\* A full audit commits rows of some documents: what it flags of them is
\* inserted or re-scored.  Nothing becomes of a row the user closed.
Audited(docs, flags) ==
  [d \in Documents |-> IF d \notin docs \/ rowOf[d].at = "closed" \/ flags[d] = {}
                       THEN rowOf[d] ELSE [at |-> "open", issues |-> flags[d]]]

\* _persist_trapped: the transactions.
Persist(j, flags) ==
  /\ j \in Audits /\ job[j].at = "free"
  /\ Audit
  /\ rowOf' = Audited(Transactions, flags)
  /\ Set(j, [FreeJob EXCEPT !.at = "persisted", !.all = Trapped(flags)])
  /\ LET again == {d \in Transactions : flags[d] # {} /\ rowOf[d].at # "closed"}
     IN /\ lost' = lost \ again
        /\ moved' = moved \ again
        /\ late' = (late \ again)
                     \cup (again \cap UNION {Outdated(InHand(k), rowOf') : k \in Jobs})
  /\ UNCHANGED <<note, enabled, asks, faults>>

\* Later in the same audit the contacts and then the accounts are committed,
\* apart (here: any of them, any number of times).  They are not among the rows
\* the audit passes on to the prewarm.
PersistApart(j, flags) ==
  /\ j \in Audits /\ job[j].at = "persisted"
  /\ rowOf' = Audited(Apart, flags)
  /\ moved' = moved \cup {d \in Apart : rowOf'[d] # rowOf[d]}
  /\ UNCHANGED <<note, job, lost, late, bounds>>

\* A contact without a row is dismissed: it gets one, which is closed.
DismissContact(d, issue) ==
  /\ d \in Apart /\ rowOf[d].at = "none"
  /\ rowOf' = [rowOf EXCEPT ![d] = [at |-> "closed", issues |-> {issue}]]
  /\ moved' = moved \cup {d}
  /\ UNCHANGED <<note, job, lost, late, bounds>>

\* A duplicates-only audit: what it finds is merged into the rows, and stripped
\* from those it no longer finds it for, unless nothing would be left (then the
\* row is cleared).  It prewarms nothing.
Scoped(found, gone) ==
  [d \in Documents |->
     IF rowOf[d].at = "closed" THEN rowOf[d]
     ELSE IF d \in found
          THEN [at |-> "open", issues |-> rowOf[d].issues \cup {Duplicate}]
     ELSE IF d \in gone /\ rowOf[d].issues # {Duplicate}
          THEN [rowOf[d] EXCEPT !.issues = @ \ {Duplicate}]
     ELSE rowOf[d]]

PersistScoped(found, gone) ==
  /\ found \cap gone = {}
  /\ Audit
  /\ rowOf' = Scoped(found, gone)
  /\ moved' = moved \cup {d \in Documents : rowOf'[d] # rowOf[d]}
  /\ UNCHANGED <<note, job, lost, late, enabled, asks, faults>>

\* The user resolves, dismisses or marks OK a row, or restores it.
Close(d) ==
  /\ rowOf[d].at = "open"
  /\ rowOf' = [rowOf EXCEPT ![d].at = "closed"]
  /\ UNCHANGED <<note, job, causes, bounds>>

Restore(d) ==
  /\ rowOf[d].at = "closed"
  /\ rowOf' = [rowOf EXCEPT ![d].at = "open"]
  /\ UNCHANGED <<note, job, causes, bounds>>

-----------------------------------------------------------------------------
(***************************************************************************)
(* Who asks for notes.                                                     *)
(***************************************************************************)
\* Step 7 of the audit: prewarm_insights_task.delay, if anything was trapped ...
Prewarm(j) ==
  /\ j \in Audits /\ job[j].at = "persisted"
  /\ enabled
  /\ Start(j, job[j].all)
  /\ UNCHANGED <<rowOf, note, causes, bounds>>

\* ... and there is a model to ask.
NoPrewarm(j) ==
  /\ j \in Audits /\ job[j].at = "persisted"
  /\ ~enabled
  /\ moved' = moved \cup DocsOf(Range(job[j].all))
  /\ Set(j, FreeJob)
  /\ UNCHANGED <<rowOf, note, lost, late, bounds>>

RowsAt(at) == {d \in Documents : rowOf[d].at = at}

\* list_missing_rows: the rows that are not resolved and not dismissed, in no
\* order; of the closed ones those marked OK ...
SweepList(j) ==
  /\ j \in Sweeps /\ job[j].at = "free"
  /\ Ask
  /\ \E ok \in SUBSET RowsAt("closed") :
       Set(j, [FreeJob EXCEPT !.at = "listed",
         !.all = SetToSeq({[doc |-> d, issues |-> rowOf[d].issues] : d \in RowsAt("open") \cup ok})])
  /\ UNCHANGED <<rowOf, note, causes, enabled, audits, faults>>

\* ... less those that have a note, whatever it says; and the task is queued.
SweepSelect(j) ==
  /\ job[j].at = "listed"
  /\ Start(j, SetToSeq({fact \in Range(job[j].all) : note[fact.doc] = NoNote}))
  /\ UNCHANGED <<rowOf, note, causes, bounds>>

\* Redis does not answer: all of them are taken to lack one.
SweepSelectsAll(j) ==
  /\ job[j].at = "listed"
  /\ Fault
  /\ Start(j, job[j].all)
  /\ UNCHANGED <<rowOf, note, causes, enabled, audits, asks>>

\* A sweep's task finds no model to ask, and has done nothing.
TurnedAway(j) ==
  /\ j \in Sweeps /\ job[j].at = "asking"
  /\ ~enabled
  /\ lost' = lost \cup DocsOf(Range(job[j].all))
  /\ Set(j, FreeJob)
  /\ UNCHANGED <<rowOf, note, moved, late, bounds>>

\* get_ai_insight asks whatever the setting says: a row without a note, or opened with force, is asked about.
Open(j, d) ==
  /\ j \in Readers /\ job[j].at = "free"
  /\ rowOf[d].at # "none"
  /\ Ask
  /\ Start(j, <<[doc |-> d, issues |-> rowOf[d].issues]>>)
  /\ UNCHANGED <<rowOf, note, causes, enabled, audits, faults>>

-----------------------------------------------------------------------------
(***************************************************************************)
(* Asking and writing.                                                     *)
(***************************************************************************)
\* Prewarming takes _PARALLEL rows at a time, enrich-row one.
SizeOf(j) == IF j \in Audits /\ Len(job[j].todo) > 1 THEN 2 ELSE 1
ChunkOf(j) == SubSeq(job[j].todo, 1, SizeOf(j))
RestOf(j) == SubSeq(job[j].todo, SizeOf(j) + 1, Len(job[j].todo))

\* The answers to n items: distinct ids in any order, some missing; none at all
\* when the call fails or the answer cannot be read.
Answers(n) ==
  UNION {{ids \in [1 .. k -> 1 .. n] : \A a, b \in 1 .. k : ids[a] = ids[b] => a = b} :
         k \in 0 .. n}

\* slip: the answers are taken in the order they come in
RecordsByPlace(chunk, ids) ==
  [i \in 1 .. Len(ids) |-> [doc |-> chunk[i].doc, from |-> chunk[ids[i]]]]

\* The answer with an item's id is the note of that item's document.
Records(chunk, ids) ==
  [i \in DOMAIN chunk |->
     IF \E a \in DOMAIN ids : ids[a] = i THEN [doc |-> chunk[i].doc, from |-> chunk[i]] ELSE NoNote]

Unanswered(chunk, ready) == {chunk[i].doc : i \in {k \in DOMAIN ready : ready[k] = NoNote}}

Asking(j) == job[j].at = "asking" /\ (j \in Readers \/ enabled)

Answer(j) ==
  /\ Asking(j)
  /\ \E ids \in Answers(Len(ChunkOf(j))) :
       LET ready == Records(ChunkOf(j), ids)
           dropped == Unanswered(ChunkOf(j), ready)
       IN /\ IF dropped # {} THEN Fault ELSE UNCHANGED faults
          /\ lost' = lost \cup dropped
          /\ Set(j, [job[j] EXCEPT !.at = "writing", !.ready = ready, !.todo = RestOf(j)])
  /\ UNCHANGED <<rowOf, note, moved, late, enabled, audits, asks>>

\* The job is at a row it has an answer for, or at one it has none for.
Answered(j) == job[j].at = "writing" /\ job[j].ready # <<>> /\ Head(job[j].ready) # NoNote
Skipped(j) == job[j].at = "writing" /\ job[j].ready # <<>> /\ Head(job[j].ready) = NoNote

Write(j) ==
  /\ Answered(j)
  /\ note' = [note EXCEPT ![Head(job[j].ready).doc] = Head(job[j].ready).from]
  /\ Set(j, [job[j] EXCEPT !.ready = Tail(@)])
  /\ UNCHANGED <<rowOf, causes, bounds>>

Skip(j) ==
  /\ Skipped(j)
  /\ Set(j, [job[j] EXCEPT !.ready = Tail(@)])
  /\ UNCHANGED <<rowOf, note, causes, bounds>>

\* Redis does not answer: the next record.
WriteFails(j) ==
  /\ Answered(j)
  /\ Fault
  /\ lost' = lost \cup {Head(job[j].ready).doc}
  /\ Set(j, [job[j] EXCEPT !.ready = Tail(@)])
  /\ UNCHANGED <<rowOf, note, moved, late, enabled, audits, asks>>

NextChunk(j) ==
  /\ job[j].at = "writing" /\ job[j].ready = <<>>
  /\ Set(j, IF job[j].todo = <<>> THEN FreeJob ELSE [job[j] EXCEPT !.at = "asking"])
  /\ UNCHANGED <<rowOf, note, causes, bounds>>

\* A job ends where it is: the audit fails before its last step, the id of an
\* answer is no number, the soft limit hits the pause between two chunks, the
\* hard limit any place, a request is abandoned.
Die(j) ==
  /\ job[j].at # "free"
  /\ Fault
  /\ lost' = lost \cup DocsOf(InHand(j))
  /\ Set(j, FreeJob)
  /\ UNCHANGED <<rowOf, note, moved, late, enabled, audits, asks>>

\* The worker of a prewarm or sweep task dies: it is delivered again, whole.
Crash(j) ==
  /\ j \notin Readers
  /\ job[j].at \in {"asking", "writing"}
  /\ Fault
  /\ late' = late \cup Outdated(Range(job[j].all), rowOf)
  /\ Start(j, job[j].all)
  /\ UNCHANGED <<rowOf, note, lost, moved, enabled, audits, asks>>

\* A sweep gives an enrich-row call up after its timeout and takes the next row;
\* the call goes on, as a reader's does.
TimeOut(j, k) ==
  /\ j \in Sweeps /\ Asking(j)
  /\ k \in Readers /\ job[k].at = "free"
  /\ Fault
  /\ job' = [job EXCEPT
       ![j] = IF RestOf(j) = <<>> THEN FreeJob ELSE [@ EXCEPT !.todo = RestOf(j)],
       ![k] = [FreeJob EXCEPT !.at = "asking", !.all = ChunkOf(j), !.todo = ChunkOf(j)]]
  /\ UNCHANGED <<rowOf, note, causes, enabled, audits, asks>>

-----------------------------------------------------------------------------
Proceed(j) ==
  \/ Prewarm(j) \/ NoPrewarm(j) \/ SweepSelect(j) \/ TurnedAway(j)
  \/ Answer(j) \/ Write(j) \/ Skip(j) \/ NextChunk(j)

NotesNext ==
  \/ \E j \in Jobs :
       \/ Proceed(j) \/ WriteFails(j) \/ Die(j) \/ Crash(j)
       \/ SweepList(j) \/ SweepSelectsAll(j) \/ \E k \in Jobs : TimeOut(j, k)
       \/ \E flags \in [Transactions -> Findings] : Persist(j, flags)
       \/ \E flags \in [Apart -> Findings] : PersistApart(j, flags)
       \/ \E d \in Documents : Open(j, d)
  \/ \E found \in SUBSET Transactions, gone \in SUBSET Transactions : PersistScoped(found, gone)
  \/ \E d \in Documents : Close(d) \/ Restore(d) \/ \E issue \in IssueTypes : DismissContact(d, issue)

NotesSpec == NotesInit /\ [][NotesNext]_notesVars

-----------------------------------------------------------------------------
\* Some job has what the row now says, and will write it.
Coming(d) == \E j \in Jobs : [doc |-> d, issues |-> rowOf[d].issues] \in InHand(j)

\* A note is about the document it is shown with, in whatever order the answers
\* come and whichever are missing.
NotesAreOfTheirDocument == \A d \in Documents : note[d] # NoNote => note[d].doc = d

\* An open row has a note about its present issues, or one is coming; unless an
\* answer, a write or a job for it was lost, its issues changed with no prewarm to
\* follow (by a duplicates-only audit, as those of a contact or an account, or
\* with the model switched off), or another job held the older issues when the
\* row was written.
NotesAreUpToDate ==
  \A d \in Documents : rowOf[d].at = "open" =>
    \/ note[d] = [doc |-> d, issues |-> rowOf[d].issues]
    \/ Coming(d)
    \/ d \in lost \cup moved \cup late
=============================================================================
