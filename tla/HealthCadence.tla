-------------------------- MODULE HealthCadence --------------------------
(***************************************************************************)
(* Changing how often a domain's health is evaluated: the operation files  *)
(* that health_cadence.py generates, the evaluator's task (migration 040)  *)
(* and the audit table and view of migration 130.                          *)
(*                                                                         *)
(* A file is executed statement by statement, each of them commits, and    *)
(* nothing locks the task: executions overlap, the same file may be        *)
(* executed twice, and an execution may stop after any statement.          *)
(***************************************************************************)
EXTENDS Naturals, Sequences

CONSTANTS
  Operation,      \* ids of generated operations
  Interval,       \* of each operation: the interval it asks for
  ResumeAfter,    \* operations that resume the task (the others leave it)
  ReleasedInterval, \* the schedule of migration 040
  Session,        \* sessions that execute files
  MaxRows         \* bound on the rows of the audit table

ASSUME IntervalAssumption == Interval \in [Operation -> 10..691200]
ASSUME ReleasedAssumption == ReleasedInterval \in 10..691200
ASSUME OperationAssumption == ResumeAfter \subseteq Operation
ASSUME RowsAssumption == MaxRows \in Nat

VARIABLES
  resumed,        \* whether the task runs
  schedule,       \* its interval
  rows,           \* HEALTH_EVALUATION_CHANGE, in the order of the inserts
  now,            \* CURRENT_TIMESTAMP() of the rows: inserts and updates so far
  session,        \* the file each session executes and its next statement
  outOfBand       \* whether anything but these files changed the task (ghost)

task == <<resumed, schedule>>
audit == <<rows, now>>
vars == <<resumed, schedule, rows, now, session, outOfBand>>

-----------------------------------------------------------------------------
\* The audit table

Never == 0      \* COMPLETED_AT is NULL
Row == [operation : Operation, status : {"STARTED", "SUCCEEDED"},
        startedAt : Nat, completedAt : Nat]
Rows == DOMAIN rows
Final(o) == o \in ResumeAfter

\* HEALTH_EVALUATION_CONFIG_V: the SUCCEEDED row completed last.  (Its ties are
\* rows of one operation, which one UPDATE completes.)
Recorded ==
  {i \in Rows : rows[i].status = "SUCCEEDED"
     /\ \A k \in Rows : rows[k].status = "SUCCEEDED" => rows[k].completedAt <= rows[i].completedAt}

-----------------------------------------------------------------------------
\* Types

NoFile == [at |-> "none"]
Step == {"insert", "suspend", "schedule", "resume", "complete"}

TypeOK ==
  /\ resumed \in BOOLEAN
  /\ schedule \in {Interval[o] : o \in Operation} \cup {ReleasedInterval}
  /\ rows \in Seq(Row) /\ Len(rows) <= MaxRows
  /\ now \in Nat
  /\ \A i \in Rows : rows[i].startedAt <= now /\ rows[i].completedAt <= now
  /\ session \in [Session -> {NoFile} \cup [at : Step, operation : Operation]]
  /\ outOfBand \in BOOLEAN

-----------------------------------------------------------------------------
\* Executing a file

At(s, step) == session[s].at = step
Goto(s, step) == session' = [session EXCEPT ![s].at = step]
Asked(s) == session[s].operation

\* The guard block: an operation id that has a row raises.
CheckDuplicate(s, o) ==
  /\ session[s] = NoFile
  /\ \A i \in Rows : rows[i].operation # o
  /\ session' = [session EXCEPT ![s] = [at |-> "insert", operation |-> o]]
  /\ UNCHANGED <<task, audit, outOfBand>>

\* "STARTED is written before Task DDL."
InsertStarted(s) ==
  /\ At(s, "insert")
  /\ Len(rows) < MaxRows
  /\ now' = now + 1
  /\ rows' = Append(rows, [operation |-> Asked(s), status |-> "STARTED",
                           startedAt |-> now', completedAt |-> Never])
  /\ Goto(s, "suspend")
  /\ UNCHANGED <<task, outOfBand>>

SuspendTask(s) ==
  /\ At(s, "suspend")
  /\ resumed' = FALSE
  /\ Goto(s, "schedule")
  /\ UNCHANGED <<schedule, audit, outOfBand>>

\* Faulty: the schedule is written in minutes.
SetMinutes(s) ==
  /\ At(s, "schedule")
  /\ ~resumed
  /\ schedule' = Interval[Asked(s)] \div 60
  /\ Goto(s, "resume")
  /\ UNCHANGED <<resumed, audit, outOfBand>>

\* A running task cannot be altered: the statement raises if another file has
\* resumed it in the meantime (see Stop).
SetSchedule(s) ==
  /\ At(s, "schedule")
  /\ ~resumed
  /\ schedule' = Interval[Asked(s)]
  /\ Goto(s, "resume")
  /\ UNCHANGED <<resumed, audit, outOfBand>>

\* Faulty: the resume statement is always rendered as the comment.
NeverResume(s) ==
  /\ At(s, "resume")
  /\ Goto(s, "complete")
  /\ UNCHANGED <<task, audit, outOfBand>>

\* Resume, or a comment in its place.
ResumeTask(s) ==
  /\ At(s, "resume")
  /\ resumed' = (Final(Asked(s)) \/ resumed)
  /\ Goto(s, "complete")
  /\ UNCHANGED <<schedule, audit, outOfBand>>

\* Faulty: the UPDATE has no OPERATION_ID predicate.
RecordAllStarted(s) ==
  /\ At(s, "complete")
  /\ now' = now + 1
  /\ rows' = [i \in Rows |->
       IF rows[i].status = "STARTED"
         THEN [rows[i] EXCEPT !.status = "SUCCEEDED", !.completedAt = now'] ELSE rows[i]]
  /\ session' = [session EXCEPT ![s] = NoFile]
  /\ UNCHANGED <<task, outOfBand>>

\* One UPDATE of every STARTED row of this operation id.
RecordSuccess(s) ==
  /\ At(s, "complete")
  /\ now' = now + 1
  /\ rows' = [i \in Rows |->
       IF rows[i].operation = Asked(s) /\ rows[i].status = "STARTED"
         THEN [rows[i] EXCEPT !.status = "SUCCEEDED", !.completedAt = now'] ELSE rows[i]]
  /\ session' = [session EXCEPT ![s] = NoFile]
  /\ UNCHANGED <<task, outOfBand>>

\* A statement raises, or the session is lost.
Stop(s) ==
  /\ session[s] # NoFile
  /\ session' = [session EXCEPT ![s] = NoFile]
  /\ UNCHANGED <<task, audit, outOfBand>>

-----------------------------------------------------------------------------
\* The task itself

\* The task suspends itself after three failed evaluations.
SuspendAfterFailures ==
  /\ resumed
  /\ resumed' = FALSE
  /\ outOfBand' = TRUE
  /\ UNCHANGED <<schedule, audit, session>>

Init ==
  /\ resumed = TRUE
  /\ schedule = ReleasedInterval
  /\ rows = <<>>
  /\ now = 0
  /\ session = [s \in Session |-> NoFile]
  /\ outOfBand = FALSE

Execute(s) ==
  \/ \E o \in Operation : CheckDuplicate(s, o)
  \/ InsertStarted(s)
  \/ SuspendTask(s)
  \/ SetSchedule(s)
  \/ ResumeTask(s)
  \/ RecordSuccess(s)
  \/ Stop(s)

Next == SuspendAfterFailures \/ \E s \in Session : Execute(s)
Spec == Init /\ [][Next]_vars

-----------------------------------------------------------------------------
\* Properties

Unfinished == {i \in Rows : rows[i].status = "STARTED"}

\* Two executions of one file leave two rows with one id.
ExecutedTwice == \E i, k \in Rows : i # k /\ rows[i].operation = rows[k].operation

\* The times of two rows show that one execution began before the other ended.
Overlapping ==
  \E i, k \in Rows : i # k /\ rows[i].startedAt < rows[k].startedAt
                           /\ rows[k].startedAt < rows[i].completedAt

\* Health evaluation never stops unnoticed: whenever the task is suspended and
\* has not suspended itself, the audit table shows why (an operation that did
\* not end, one that asked for it, or one file executed twice), whatever
\* statement failed and however executions overlapped (health_cadence.py,
\* operation.sql: STARTED before the DDL, SUCCEEDED after it).
SuspendedIsExplained ==
  ~resumed /\ ~outOfBand =>
    \/ Unfinished # {}
    \/ \E i \in Rows : ~Final(rows[i].operation)
    \/ ExecutedTwice

\* If no row is STARTED and the times of no two rows overlap, then the view of
\* migration 130 is what the task does: its interval, and whether it runs.
RecordedIsActual ==
  Rows # {} /\ Unfinished = {} /\ ~Overlapping /\ ~ExecutedTwice /\ ~outOfBand =>
    \A i \in Recorded : /\ schedule = Interval[rows[i].operation]
                        /\ resumed = Final(rows[i].operation)
=============================================================================
