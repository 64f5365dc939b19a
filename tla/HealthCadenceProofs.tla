----------------------- MODULE HealthCadenceProofs -----------------------
(***************************************************************************)
(* Proofs about HealthCadence: for any operations and any number of        *)
(* sessions, a suspended task is explained by the audit table, and without *)
(* overlap the recorded configuration is the actual one.                   *)
(***************************************************************************)
EXTENDS HealthCadence, TLAPS

\* Sessions that have written their row and not yet closed it.
Live(s) == session[s].at \in {"suspend", "schedule", "resume", "complete"}
RowOf(s, i) == rows[i].operation = session[s].operation

\* The times of the rows.
TimeInv ==
  /\ \A i \in Rows : /\ rows[i].status = "STARTED" => rows[i].completedAt = Never
                     /\ rows[i].status = "SUCCEEDED" => rows[i].startedAt < rows[i].completedAt
  /\ \A i, k \in Rows : i < k => rows[i].startedAt < rows[k].startedAt

\* A live session has a row, which is STARTED unless a second execution of its
\* file has completed it; without a second execution it is alone with its file.
BackedInv ==
  /\ \A s \in Session : Live(s) =>
       \E i \in Rows : RowOf(s, i) /\ (rows[i].status = "STARTED" \/ ExecutedTwice)
  /\ \A s, t \in Session :
       s # t /\ Live(s) /\ Live(t) /\ session[s].operation = session[t].operation => ExecutedTwice

\* While the task is suspended without another explanation, some operation has
\* yet to resume it.
PendingInv ==
  ~resumed /\ ~outOfBand /\ ~ExecutedTwice /\ (\A i \in Rows : Final(rows[i].operation)) =>
    \E i \in Unfinished : \A s \in Session : At(s, "complete") => ~RowOf(s, i)

\* While executions follow one another, only the last row may be unfinished; the
\* one live session knows what the task is like, and so does the last row when
\* no session is live.
Calm == ~Overlapping /\ ~ExecutedTwice /\ ~outOfBand /\ Unfinished \subseteq {Len(rows)}
StageInv ==
  Calm => \A s \in Session :
    /\ session[s].at \in {"schedule", "resume"} => ~resumed
    /\ session[s].at \in {"resume", "complete"} => schedule = Interval[session[s].operation]
    /\ session[s].at = "complete" => resumed = Final(session[s].operation)
DoneInv ==
  Calm /\ Unfinished = {} /\ Rows # {} =>
    /\ schedule = Interval[rows[Len(rows)].operation]
    /\ resumed = Final(rows[Len(rows)].operation)

-----------------------------------------------------------------------------
\* What the statements do to the rows and to the sessions

\* The rows are a sequence of rows.
LEMMA RowsAre ==
  ASSUME TypeOK
  PROVE  /\ rows \in Seq(Row) /\ Len(rows) \in Nat /\ Rows = 1..Len(rows)
         /\ \A i \in Rows : rows[i] \in Row
  BY DEF TypeOK, Rows

\* A session that executes a file knows its operation.
LEMMA SessionIs ==
  ASSUME TypeOK, NEW s \in Session, session[s] # NoFile
  PROVE  session[s] \in [at : Step, operation : Operation]
  BY DEF TypeOK

LEMMA AtStep ==
  ASSUME TypeOK, NEW s \in Session, session[s].at \in Step
  PROVE  session[s] # NoFile
  BY DEF NoFile, Step

\* The session goes to its next statement, and no other one does.
LEMMA Moved ==
  ASSUME TypeOK, NEW s \in Session, session[s].at \in Step,
         NEW step \in Step, Goto(s, step)
  PROVE  /\ session' \in [Session -> {NoFile} \cup [at : Step, operation : Operation]]
         /\ session'[s].at = step /\ session'[s].operation = session[s].operation
         /\ \A t \in Session : t # s => session'[t] = session[t]
<1>1. session[s] \in [at : Step, operation : Operation]
  BY AtStep, SessionIs
<1>2. session' = [session EXCEPT ![s] = [session[s] EXCEPT !.at = step]]
  BY DEF Goto
<1> QED
  BY <1>1, <1>2 DEF TypeOK

\* A session that ends holds no file.
LEMMA Ended ==
  ASSUME TypeOK, NEW s \in Session, session' = [session EXCEPT ![s] = NoFile]
  PROVE  /\ session' \in [Session -> {NoFile} \cup [at : Step, operation : Operation]]
         /\ session'[s] = NoFile /\ NoFile.at = "none"
         /\ \A t \in Session : t # s => session'[t] = session[t]
  BY DEF TypeOK, NoFile

\* The INSERT appends one STARTED row, newer than all.
LEMMA Inserted ==
  ASSUME TypeOK, NEW s \in Session, InsertStarted(s)
  PROVE  /\ rows' \in Seq(Row) /\ Len(rows') = Len(rows) + 1 /\ Len(rows') <= MaxRows
         /\ DOMAIN rows' = Rows \cup {Len(rows) + 1} /\ Len(rows) + 1 \notin Rows
         /\ \A i \in Rows : rows'[i] = rows[i]
         /\ LET new == rows'[Len(rows) + 1]
            IN  /\ new.operation = session[s].operation /\ new.status = "STARTED"
                /\ new.startedAt = now + 1 /\ new.completedAt = 0
         /\ now' = now + 1
<1> DEFINE new == [operation |-> session[s].operation, status |-> "STARTED",
                   startedAt |-> now + 1, completedAt |-> Never]
<1>1. session[s].operation \in Operation
  BY AtStep, SessionIs DEF InsertStarted, At, Step
<1>2. new \in Row
  BY <1>1 DEF Row, Never, TypeOK
<1>3. rows' = Append(rows, new) /\ now' = now + 1 /\ Len(rows) < MaxRows
  BY DEF InsertStarted, Asked
<1> HIDE DEF new
<1>4. /\ rows' \in Seq(Row) /\ Len(rows') = Len(rows) + 1
      /\ DOMAIN rows' = 1..(Len(rows) + 1) /\ rows'[Len(rows) + 1] = new
      /\ \A i \in Rows : rows'[i] = rows[i]
  BY <1>2, <1>3, RowsAre
<1>5. Len(rows') <= MaxRows /\ DOMAIN rows' = Rows \cup {Len(rows) + 1}
      /\ Len(rows) + 1 \notin Rows
  BY <1>3, <1>4, RowsAre, RowsAssumption
<1>6. /\ new.operation = session[s].operation /\ new.status = "STARTED"
      /\ new.startedAt = now + 1 /\ new.completedAt = 0
  BY DEF new, Never
<1> QED
  BY <1>3, <1>4, <1>5, <1>6

\* A row that is completed.
CompletedRow(r, end) == [r EXCEPT !.status = "SUCCEEDED", !.completedAt = end]
LEMMA CompletedRowIs ==
  ASSUME NEW r \in Row, NEW end \in Nat
  PROVE  /\ CompletedRow(r, end) \in Row
         /\ CompletedRow(r, end).operation = r.operation
         /\ CompletedRow(r, end).status = "SUCCEEDED"
         /\ CompletedRow(r, end).startedAt = r.startedAt
         /\ CompletedRow(r, end).completedAt = end
<1>1. CompletedRow(r, end) \in Row
  BY DEF Row, CompletedRow
<1>2. /\ CompletedRow(r, end).operation = r.operation
      /\ CompletedRow(r, end).status = "SUCCEEDED"
      /\ CompletedRow(r, end).startedAt = r.startedAt
      /\ CompletedRow(r, end).completedAt = end
  BY DEF Row, CompletedRow
<1> QED
  BY <1>1, <1>2

\* The UPDATE completes the STARTED rows of its operation.
Completes(s, i) == RowOf(s, i) /\ rows[i].status = "STARTED"
LEMMA Completed ==
  ASSUME TypeOK, NEW s \in Session, RecordSuccess(s)
  PROVE  /\ rows' \in Seq(Row) /\ Len(rows') = Len(rows) /\ DOMAIN rows' = Rows
         /\ \A i \in Rows :
              /\ ~Completes(s, i) => rows'[i] = rows[i]
              /\ Completes(s, i) =>
                   rows'[i].status = "SUCCEEDED" /\ rows'[i].completedAt = now + 1
              /\ rows'[i].operation = rows[i].operation
              /\ rows'[i].startedAt = rows[i].startedAt
         /\ now' = now + 1
<1>0. now' \in Nat /\ now' = now + 1
  <2>1. now \in Nat
    BY DEF TypeOK
  <2>2. now' = now + 1
    BY DEF RecordSuccess
  <2> QED
    BY <2>1, <2>2
<1>1. rows' = [i \in Rows |->
        IF Completes(s, i)
          THEN CompletedRow(rows[i], now') ELSE rows[i]]
  BY DEF RecordSuccess, Asked, RowOf, Completes, CompletedRow
<1>2. \A i \in Rows : ~Completes(s, i) => rows'[i] = rows[i] /\ rows'[i] \in Row
  BY <1>1, RowsAre
<1>3. ASSUME NEW i \in Rows, Completes(s, i)
      PROVE  /\ rows'[i] \in Row
             /\ rows'[i].status = "SUCCEEDED" /\ rows'[i].completedAt = now'
             /\ rows'[i].operation = rows[i].operation
             /\ rows'[i].startedAt = rows[i].startedAt
  <2>1. rows'[i] = CompletedRow(rows[i], now')
    BY <1>1, <1>3
  <2>2. rows[i] \in Row
    BY RowsAre
  <2> QED
    BY <1>0, <2>1, <2>2, CompletedRowIs
<1>4. \A i \in Rows : rows'[i] \in Row
  BY <1>2, <1>3
<1>5. rows' \in [1..Len(rows) -> Row]
  BY <1>1, <1>4, RowsAre
<1>6. rows' \in Seq(Row) /\ Len(rows') = Len(rows) /\ DOMAIN rows' = Rows
  BY <1>5, RowsAre
<1> QED
  BY <1>0, <1>2, <1>3, <1>6

\* Every step keeps the types.
LEMMA TypeStep ==
  ASSUME TypeOK, [Next]_vars
  PROVE  TypeOK'
<1> USE DEF task, audit, Rows
<1>1. CASE UNCHANGED vars
  BY <1>1 DEF vars, TypeOK
<1>2. CASE SuspendAfterFailures
  BY <1>2 DEF SuspendAfterFailures, TypeOK
<1>3. ASSUME NEW s \in Session, Execute(s)
      PROVE  TypeOK'
  <2>1. ASSUME NEW o \in Operation, CheckDuplicate(s, o)
        PROVE  TypeOK'
    BY <2>1 DEF CheckDuplicate, TypeOK, Step
  <2>2. CASE InsertStarted(s)
    <3>1. session' \in [Session -> {NoFile} \cup [at : Step, operation : Operation]]
      BY <2>2, Moved DEF InsertStarted, At, Step
    <3>2. \A i \in DOMAIN rows' : rows'[i].startedAt <= now' /\ rows'[i].completedAt <= now'
      <4> SUFFICES ASSUME NEW i \in DOMAIN rows'
                   PROVE  rows'[i].startedAt <= now' /\ rows'[i].completedAt <= now'
        OBVIOUS
      <4>1. now \in Nat /\ now' = now + 1
        BY <2>2, Inserted DEF TypeOK
      <4>2. CASE i \in Rows
        <5>1. /\ rows'[i] = rows[i] /\ rows[i].startedAt <= now /\ rows[i].completedAt <= now
              /\ rows[i].startedAt \in Nat /\ rows[i].completedAt \in Nat
          BY <2>2, <4>2, Inserted, RowsAre DEF TypeOK, Row
        <5> QED
          BY <4>1, <5>1
      <4>3. CASE i = Len(rows) + 1
        <5>1. rows'[i].startedAt = now + 1 /\ rows'[i].completedAt = 0
          BY <2>2, <4>3, Inserted
        <5> QED
          BY <4>1, <5>1
      <4> QED
        BY <2>2, <4>2, <4>3, Inserted
    <3>3. rows' \in Seq(Row) /\ Len(rows') <= MaxRows /\ now' \in Nat
      BY <2>2, Inserted DEF TypeOK
    <3>4. UNCHANGED <<resumed, schedule, outOfBand>>
      BY <2>2 DEF InsertStarted
    <3> QED
      BY <3>1, <3>2, <3>3, <3>4 DEF TypeOK
  <2>3. CASE SuspendTask(s) \/ ResumeTask(s)
    <3>1. session' \in [Session -> {NoFile} \cup [at : Step, operation : Operation]]
      BY <2>3, Moved DEF SuspendTask, ResumeTask, At, Step
    <3>2. resumed' \in BOOLEAN
      BY <2>3 DEF SuspendTask, ResumeTask, Final, TypeOK
    <3> QED
      BY <2>3, <3>1, <3>2 DEF SuspendTask, ResumeTask, TypeOK
  <2>4. CASE SetSchedule(s)
    <3>1. session' \in [Session -> {NoFile} \cup [at : Step, operation : Operation]]
      BY <2>4, Moved DEF SetSchedule, At, Step
    <3>2. session[s].operation \in Operation
      BY <2>4, AtStep, SessionIs DEF SetSchedule, At, Step
    <3> QED
      BY <2>4, <3>1, <3>2 DEF SetSchedule, Asked, TypeOK
  <2>5. CASE RecordSuccess(s)
    <3>1. session' \in [Session -> {NoFile} \cup [at : Step, operation : Operation]]
      BY <2>5, Ended DEF RecordSuccess
    <3>2. \A i \in DOMAIN rows' : rows'[i].startedAt <= now' /\ rows'[i].completedAt <= now'
      <4> SUFFICES ASSUME NEW i \in Rows
                   PROVE  rows'[i].startedAt <= now' /\ rows'[i].completedAt <= now'
        BY <2>5, Completed
      <4>1. /\ now \in Nat /\ now' = now + 1
            /\ rows[i].startedAt <= now /\ rows[i].completedAt <= now
            /\ rows[i].startedAt \in Nat /\ rows[i].completedAt \in Nat
        BY <2>5, Completed, RowsAre DEF TypeOK, Row
      <4>2. /\ rows'[i].startedAt = rows[i].startedAt
            /\ rows'[i].completedAt \in {rows[i].completedAt, now + 1}
        BY <2>5, Completed
      <4> QED
        BY <4>1, <4>2
    <3>3. rows' \in Seq(Row) /\ Len(rows') <= MaxRows /\ now' \in Nat
      BY <2>5, Completed DEF TypeOK
    <3>4. UNCHANGED <<resumed, schedule, outOfBand>>
      BY <2>5 DEF RecordSuccess
    <3> QED
      BY <3>1, <3>2, <3>3, <3>4 DEF TypeOK
  <2>6. CASE Stop(s)
    BY <2>6, Ended DEF Stop, TypeOK
  <2> QED
    BY <1>3, <2>1, <2>2, <2>3, <2>4, <2>5, <2>6 DEF Execute
<1> QED
  BY <1>1, <1>2, <1>3 DEF Next

\* Type correctness of the cadence model, for any operations and sessions.
THEOREM CadenceTypeCorrect == Spec => []TypeOK
<1>1. Init => TypeOK
  <2> SUFFICES ASSUME Init PROVE TypeOK
    OBVIOUS
  <2>1. rows \in Seq(Row) /\ Len(rows) = 0 /\ Rows = {}
    BY DEF Init, Rows
  <2>2. session \in [Session -> {NoFile} \cup [at : Step, operation : Operation]]
    BY DEF Init
  <2>3. Len(rows) <= MaxRows
    BY <2>1, RowsAssumption
  <2>4. schedule \in {Interval[o] : o \in Operation} \cup {ReleasedInterval}
    BY DEF Init
  <2> QED
    BY <2>1, <2>2, <2>3, <2>4 DEF Init, TypeOK
<1> QED
  BY <1>1, TypeStep, PTL DEF Spec

-----------------------------------------------------------------------------
\* The sessions have their rows

\* A file that has been executed twice stays so.
LEMMA TwiceStays ==
  ASSUME TypeOK, [Next]_vars, ExecutedTwice
  PROVE  ExecutedTwice'
<1>1. PICK i \in Rows, k \in Rows : i # k /\ rows[i].operation = rows[k].operation
  BY DEF ExecutedTwice
<1>2. \A j \in Rows : j \in DOMAIN rows' /\ rows'[j].operation = rows[j].operation
  <2>1. CASE \E s \in Session : InsertStarted(s)
    BY <2>1, Inserted
  <2>2. CASE \E s \in Session : RecordSuccess(s)
    BY <2>2, Completed
  <2>3. CASE rows' = rows
    BY <2>3 DEF Rows
  <2> QED
    BY <2>1, <2>2, <2>3 DEF Next, Execute, vars, audit, SuspendAfterFailures, CheckDuplicate,
       SuspendTask, SetSchedule, ResumeTask, Stop
<1> QED
  BY <1>1, <1>2 DEF ExecutedTwice, Rows

\* The steps that touch no row start no live session and change no operation.
RowsKept ==
  /\ rows' = rows
  /\ \A t \in Session :
       Live(t)' => Live(t) /\ session'[t].operation = session[t].operation
LEMMA OtherStepsKeepRows ==
  ASSUME TypeOK, [Next]_vars
  PROVE  RowsKept \/ \E s \in Session : InsertStarted(s) \/ RecordSuccess(s)
<1>1. CASE UNCHANGED vars
  BY <1>1 DEF vars, RowsKept, Live
<1>2. CASE SuspendAfterFailures
  BY <1>2 DEF SuspendAfterFailures, audit, RowsKept, Live
<1>3. ASSUME NEW s \in Session, NEW o \in Operation, CheckDuplicate(s, o)
      PROVE  RowsKept
  <2>1. session' = [session EXCEPT ![s] = [at |-> "insert", operation |-> o]]
    BY <1>3 DEF CheckDuplicate
  <2>2. session'[s].at = "insert"
    BY <2>1 DEF TypeOK
  <2>3. \A t \in Session : t # s => session'[t] = session[t]
    BY <2>1 DEF TypeOK
  <2> QED
    BY <1>3, <2>2, <2>3 DEF CheckDuplicate, audit, RowsKept, Live
<1>4. ASSUME NEW s \in Session, SuspendTask(s) \/ SetSchedule(s) \/ ResumeTask(s)
      PROVE  RowsKept
  <2>1. PICK step \in {"schedule", "resume", "complete"} : Goto(s, step)
    BY <1>4 DEF SuspendTask, SetSchedule, ResumeTask
  <2>2. Live(s)
    BY <1>4 DEF SuspendTask, SetSchedule, ResumeTask, At, Live
  <2>3. /\ session'[s].operation = session[s].operation
        /\ \A t \in Session : t # s => session'[t] = session[t]
    BY <2>1, <2>2, Moved DEF Step, Live
  <2> QED
    BY <1>4, <2>2, <2>3 DEF SuspendTask, SetSchedule, ResumeTask, audit, RowsKept, Live
<1>5. ASSUME NEW s \in Session, Stop(s)
      PROVE  RowsKept
  <2>1. session'[s].at = "none" /\ \A t \in Session : t # s => session'[t] = session[t]
    BY <1>5, Ended DEF Stop
  <2> QED
    BY <1>5, <2>1 DEF Stop, audit, RowsKept, Live
<1> QED
  BY <1>1, <1>2, <1>3, <1>4, <1>5 DEF Next, Execute

\* Every step keeps the sessions backed by their rows.
LEMMA BackedStep ==
  ASSUME TypeOK, BackedInv, [Next]_vars
  PROVE  BackedInv'
<1>1. CASE RowsKept
  <2>1. ExecutedTwice' <=> ExecutedTwice
    BY <1>1 DEF RowsKept, ExecutedTwice, Rows
  <2> QED
    BY <1>1, <2>1 DEF RowsKept, BackedInv, RowOf, Rows
<1>2. ASSUME NEW s \in Session, InsertStarted(s)
      PROVE  BackedInv'
  <2> DEFINE n == Len(rows) + 1
  <2>1. /\ DOMAIN rows' = Rows \cup {n} /\ n \notin Rows
        /\ \A i \in Rows : rows'[i] = rows[i]
        /\ rows'[n].operation = session[s].operation /\ rows'[n].status = "STARTED"
    BY <1>2, Inserted
  <2>2. /\ session'[s].operation = session[s].operation
        /\ \A t \in Session : t # s => session'[t] = session[t]
    BY <1>2, Moved DEF InsertStarted, At, Step
  <2> HIDE DEF n
  <2>3. ASSUME NEW t \in Session, Live(t)'
        PROVE  \E i \in DOMAIN rows' : RowOf(t, i)' /\ (rows'[i].status = "STARTED" \/ ExecutedTwice')
    <3>1. CASE t = s
      BY <2>1, <2>2, <3>1 DEF RowOf
    <3>2. CASE t # s
      <4>1. Live(t) /\ session'[t] = session[t]
        BY <2>2, <2>3, <3>2 DEF Live
      <4>2. PICK i \in Rows : RowOf(t, i) /\ (rows[i].status = "STARTED" \/ ExecutedTwice)
        BY <4>1 DEF BackedInv
      <4> QED
        BY <2>1, <4>1, <4>2, TwiceStays DEF RowOf
    <3> QED
      BY <3>1, <3>2
  <2>4. ASSUME NEW t \in Session, t # s, Live(t)', session'[t].operation = session'[s].operation
        PROVE  ExecutedTwice'
    <3>1. Live(t) /\ session'[t] = session[t]
      BY <2>2, <2>4 DEF Live
    <3>2. PICK i \in Rows : RowOf(t, i)
      BY <3>1 DEF BackedInv
    <3>3. rows'[i].operation = rows'[n].operation
      BY <2>1, <2>2, <2>4, <3>1, <3>2 DEF RowOf
    <3> QED
      BY <2>1, <3>2, <3>3 DEF ExecutedTwice, Rows
  <2>5. ASSUME NEW t \in Session, NEW u \in Session, t # u, t # s, u # s, Live(t)', Live(u)',
               session'[t].operation = session'[u].operation
        PROVE  ExecutedTwice'
    <3>1. Live(t) /\ Live(u) /\ session[t].operation = session[u].operation
      BY <2>2, <2>5 DEF Live
    <3> QED
      BY <2>5, <3>1, TwiceStays DEF BackedInv
  <2>6. \A t, u \in Session :
          t # u /\ Live(t)' /\ Live(u)' /\ session'[t].operation = session'[u].operation
            => ExecutedTwice'
    BY <2>4, <2>5
  <2> QED
    BY <2>3, <2>6 DEF BackedInv, Rows
<1>3. ASSUME NEW s \in Session, RecordSuccess(s)
      PROVE  BackedInv'
  <2>1. /\ DOMAIN rows' = Rows
        /\ \A i \in Rows : /\ ~Completes(s, i) => rows'[i] = rows[i]
                           /\ rows'[i].operation = rows[i].operation
    BY <1>3, Completed
  <2>2. session'[s].at = "none" /\ \A t \in Session : t # s => session'[t] = session[t]
    BY <1>3, Ended DEF RecordSuccess
  <2>3. \A t \in Session : Live(t)' => t # s /\ Live(t) /\ session'[t] = session[t]
    BY <2>2 DEF Live
  <2>4. Live(s)
    BY <1>3 DEF RecordSuccess, At, Live
  <2>5. ASSUME NEW t \in Session, Live(t)'
        PROVE  \E i \in DOMAIN rows' : RowOf(t, i)' /\ (rows'[i].status = "STARTED" \/ ExecutedTwice')
    <3>1. PICK i \in Rows : RowOf(t, i) /\ (rows[i].status = "STARTED" \/ ExecutedTwice)
      BY <2>3, <2>5 DEF BackedInv
    <3>2. RowOf(t, i)'
      BY <2>1, <2>3, <2>5, <3>1 DEF RowOf
    <3>3. CASE Completes(s, i)
      <4>1. session[t].operation = session[s].operation
        BY <3>1, <3>3 DEF RowOf, Completes
      <4>2. ExecutedTwice
        BY <2>3, <2>4, <2>5, <4>1 DEF BackedInv
      <4> QED
        BY <2>1, <3>2, <4>2, TwiceStays
    <3>4. CASE ~Completes(s, i)
      BY <2>1, <3>1, <3>2, <3>4, TwiceStays
    <3> QED
      BY <3>3, <3>4
  <2>6. \A t, u \in Session :
          t # u /\ Live(t)' /\ Live(u)' /\ session'[t].operation = session'[u].operation
            => ExecutedTwice'
    BY <2>3, TwiceStays DEF BackedInv
  <2> QED
    BY <2>5, <2>6 DEF BackedInv, Rows
<1> QED
  BY <1>1, <1>2, <1>3, OtherStepsKeepRows

-----------------------------------------------------------------------------
\* A suspended task is explained

\* Every step leaves some operation to resume a task that is suspended.
LEMMA PendingStep ==
  ASSUME TypeOK, BackedInv, PendingInv, [Next]_vars
  PROVE  PendingInv'
<1> DEFINE Premise == ~resumed /\ ~outOfBand /\ ~ExecutedTwice
                      /\ \A i \in Rows : Final(rows[i].operation)
           Pending(i) == rows[i].status = "STARTED"
                         /\ \A t \in Session : At(t, "complete") => ~RowOf(t, i)
<1>0. PendingInv <=> (Premise => \E i \in Rows : Pending(i))
  BY DEF PendingInv, Unfinished
<1>00. PendingInv' <=> (Premise' => \E i \in DOMAIN rows' : Pending(i)')
  BY DEF PendingInv, Unfinished, Rows
<1> SUFFICES ASSUME Premise'
             PROVE  \E i \in DOMAIN rows' : Pending(i)'
  BY <1>00
<1>t. ~ExecutedTwice
  BY TwiceStays
<1>1. CASE UNCHANGED vars
  BY <1>0, <1>1 DEF vars, Rows, ExecutedTwice, At, RowOf
<1>2. CASE SuspendAfterFailures
  BY <1>2 DEF SuspendAfterFailures
<1>3. ASSUME NEW s \in Session, Execute(s)
      PROVE  \E i \in DOMAIN rows' : Pending(i)'
  <2>1. ASSUME NEW o \in Operation, CheckDuplicate(s, o)
        PROVE  \E i \in DOMAIN rows' : Pending(i)'
    <3>1. /\ session'[s].at = "insert"
          /\ \A t \in Session : t # s => session'[t] = session[t]
      BY <2>1 DEF CheckDuplicate, TypeOK
    <3>2. rows' = rows /\ resumed' = resumed /\ outOfBand' = outOfBand
      BY <2>1 DEF CheckDuplicate, audit, task
    <3>3. Premise
      BY <1>t, <3>2 DEF Rows
    <3> QED
      BY <1>0, <3>1, <3>2, <3>3 DEF Rows, At, RowOf
  <2>2. CASE InsertStarted(s)
    <3>1. /\ DOMAIN rows' = Rows \cup {Len(rows) + 1}
          /\ \A i \in Rows : rows'[i] = rows[i]
      BY <2>2, Inserted
    <3>2. /\ session'[s].at = "suspend"
          /\ \A t \in Session : t # s => session'[t] = session[t]
      BY <2>2, Moved DEF InsertStarted, At, Step
    <3>3. resumed' = resumed /\ outOfBand' = outOfBand
      BY <2>2 DEF InsertStarted, task
    <3>4. Premise
      BY <1>t, <3>1, <3>3 DEF Rows
    <3>5. PICK i \in Rows : Pending(i)
      BY <1>0, <3>4
    <3> QED
      BY <3>1, <3>2, <3>5 DEF At, RowOf
  <2>3. CASE SuspendTask(s)
    <3>1. Live(s) /\ rows' = rows
      BY <2>3 DEF SuspendTask, At, Live, audit
    <3>2. PICK i \in Rows : RowOf(s, i) /\ rows[i].status = "STARTED"
      BY <1>t, <3>1 DEF BackedInv
    <3>3. /\ session'[s].at = "schedule"
          /\ \A t \in Session : t # s => session'[t] = session[t]
      BY <2>3, Moved DEF SuspendTask, At, Step
    <3>4. ASSUME NEW t \in Session, At(t, "complete")'
          PROVE  ~RowOf(t, i)'
      <4>1. t # s /\ Live(t) /\ session'[t] = session[t]
        BY <3>3, <3>4 DEF At, Live
      <4>2. session[t].operation # session[s].operation
        BY <1>t, <3>1, <4>1 DEF BackedInv
      <4> QED
        BY <3>1, <3>2, <4>1, <4>2 DEF RowOf
    <3> QED
      BY <3>1, <3>2, <3>4 DEF Rows
  <2>4. CASE SetSchedule(s)
    <3>1. /\ session'[s].at = "resume"
          /\ \A t \in Session : t # s => session'[t] = session[t]
      BY <2>4, Moved DEF SetSchedule, At, Step
    <3>2. rows' = rows /\ resumed' = resumed /\ outOfBand' = outOfBand
      BY <2>4 DEF SetSchedule, audit
    <3>3. Premise
      BY <1>t, <3>2 DEF Rows
    <3> QED
      BY <1>0, <3>1, <3>2, <3>3 DEF Rows, At, RowOf
  <2>5. CASE ResumeTask(s)
    <3>1. Live(s) /\ rows' = rows /\ resumed' = (Final(session[s].operation) \/ resumed)
      BY <2>5 DEF ResumeTask, At, Live, audit, Asked
    <3>2. PICK i \in Rows : rows[i].operation = session[s].operation
      BY <3>1 DEF BackedInv, RowOf
    <3>3. Final(session[s].operation)
      BY <3>1, <3>2 DEF Rows
    <3> QED
      BY <3>1, <3>3, Zenon
  <2>6. CASE RecordSuccess(s)
    <3>1. /\ DOMAIN rows' = Rows
          /\ \A i \in Rows : /\ ~Completes(s, i) => rows'[i] = rows[i]
                             /\ rows'[i].operation = rows[i].operation
      BY <2>6, Completed
    <3>2. /\ session'[s].at = "none"
          /\ \A t \in Session : t # s => session'[t] = session[t]
      BY <2>6, Ended DEF RecordSuccess
    <3>3. resumed' = resumed /\ outOfBand' = outOfBand /\ At(s, "complete")
      BY <2>6 DEF RecordSuccess, task
    <3>4. Premise
      BY <1>t, <3>1, <3>3 DEF Rows
    <3>5. PICK i \in Rows : Pending(i)
      BY <1>0, <3>4
    <3>6. ~Completes(s, i)
      BY <3>3, <3>5 DEF Completes
    <3> QED
      BY <3>1, <3>2, <3>5, <3>6 DEF At, RowOf
  <2>7. CASE Stop(s)
    <3>1. /\ session'[s].at = "none"
          /\ \A t \in Session : t # s => session'[t] = session[t]
      BY <2>7, Ended DEF Stop
    <3>2. rows' = rows /\ resumed' = resumed /\ outOfBand' = outOfBand
      BY <2>7 DEF Stop, audit, task
    <3>3. Premise
      BY <1>t, <3>2 DEF Rows
    <3> QED
      BY <1>0, <3>1, <3>2, <3>3 DEF Rows, At, RowOf
  <2> QED
    BY <1>3, <2>1, <2>2, <2>3, <2>4, <2>5, <2>6, <2>7 DEF Execute
<1> QED
  BY <1>1, <1>2, <1>3 DEF Next

\* Health evaluation never stops unnoticed, for any operations and sessions.
THEOREM SuspensionIsExplained == Spec => []SuspendedIsExplained
<1>1. Init => BackedInv /\ PendingInv
  BY DEF Init, BackedInv, PendingInv, Live, NoFile
<1>2. BackedInv /\ PendingInv /\ TypeOK /\ [Next]_vars => (BackedInv /\ PendingInv)'
  BY BackedStep, PendingStep
<1>3. PendingInv => SuspendedIsExplained
  BY DEF PendingInv, SuspendedIsExplained
<1> QED
  BY <1>1, <1>2, <1>3, CadenceTypeCorrect, PTL DEF Spec

-----------------------------------------------------------------------------
\* The record is the task

\* Every step keeps the order of the rows' times.
LEMMA TimeStep ==
  ASSUME TypeOK, TimeInv, [Next]_vars
  PROVE  TimeInv'
<1>1. CASE RowsKept
  BY <1>1 DEF RowsKept, TimeInv, Rows
<1>2. ASSUME NEW s \in Session, InsertStarted(s)
      PROVE  TimeInv'
  <2> DEFINE n == Len(rows) + 1
  <2>1. /\ DOMAIN rows' = Rows \cup {n} /\ n \notin Rows
        /\ \A i \in Rows : rows'[i] = rows[i]
        /\ rows'[n].status = "STARTED" /\ rows'[n].startedAt = now + 1
        /\ rows'[n].completedAt = Never
    BY <1>2, Inserted DEF Never
  <2>2. /\ \A i \in Rows : i \in Nat /\ i < n /\ rows[i].startedAt \in Nat
                           /\ rows[i].startedAt < now + 1
        /\ now \in Nat /\ n \in Nat
    <3>1. ASSUME NEW i \in Rows
          PROVE  i \in Nat /\ i < n /\ rows[i].startedAt \in Nat /\ rows[i].startedAt < now + 1
      <4>1. i \in Nat /\ i < n
        BY RowsAre
      <4>2. rows[i].startedAt \in Nat /\ rows[i].startedAt <= now /\ now \in Nat
        BY RowsAre DEF TypeOK, Row
      <4> QED
        BY <4>1, <4>2
    <3> QED
      BY <3>1, RowsAre DEF TypeOK
  <2> HIDE DEF n
  <2>3. \A i \in DOMAIN rows' :
          /\ rows'[i].status = "STARTED" => rows'[i].completedAt = Never
          /\ rows'[i].status = "SUCCEEDED" => rows'[i].startedAt < rows'[i].completedAt
    BY <2>1 DEF TimeInv
  <2>4. ASSUME NEW i \in DOMAIN rows', NEW k \in DOMAIN rows', i < k
        PROVE  rows'[i].startedAt < rows'[k].startedAt
    <3>1. CASE i \in Rows /\ k \in Rows
      BY <2>1, <2>4, <3>1 DEF TimeInv
    <3>2. CASE i \in Rows /\ k = n
      BY <2>1, <2>2, <3>2
    <3>3. CASE i = n
      <4>1. k = n \/ (k \in Nat /\ k < n)
        BY <2>1, <2>2
      <4> QED
        BY <2>2, <2>4, <3>3, <4>1
    <3> QED
      BY <2>1, <3>1, <3>2, <3>3
  <2> QED
    BY <2>3, <2>4 DEF TimeInv, Rows
<1>3. ASSUME NEW s \in Session, RecordSuccess(s)
      PROVE  TimeInv'
  <2>1. /\ DOMAIN rows' = Rows
        /\ \A i \in Rows : /\ ~Completes(s, i) => rows'[i] = rows[i]
                           /\ Completes(s, i) => rows'[i].status = "SUCCEEDED"
                                                  /\ rows'[i].completedAt = now + 1
                           /\ rows'[i].startedAt = rows[i].startedAt
    BY <1>3, Completed
  <2>2. \A i \in Rows : rows[i].startedAt < now + 1
    <3> SUFFICES ASSUME NEW i \in Rows PROVE rows[i].startedAt < now + 1
      OBVIOUS
    <3>1. rows[i].startedAt \in Nat /\ rows[i].startedAt <= now /\ now \in Nat
      BY RowsAre DEF TypeOK, Row
    <3> QED
      BY <3>1
  <2>3. ASSUME NEW i \in Rows
        PROVE  /\ rows'[i].status = "STARTED" => rows'[i].completedAt = Never
               /\ rows'[i].status = "SUCCEEDED" => rows'[i].startedAt < rows'[i].completedAt
    <3>1. CASE Completes(s, i)
      BY <2>1, <2>2, <3>1
    <3>2. CASE ~Completes(s, i)
      BY <2>1, <3>2 DEF TimeInv
    <3> QED
      BY <3>1, <3>2
  <2> QED
    BY <2>1, <2>3 DEF TimeInv, Rows
<1> QED
  BY <1>1, <1>2, <1>3, OtherStepsKeepRows

\* In calm times the one live session works for the last row.
LEMMA CalmAlone ==
  ASSUME TypeOK, BackedInv, Calm, NEW s \in Session, Live(s)
  PROVE  /\ Len(rows) \in Unfinished /\ RowOf(s, Len(rows))
         /\ \A t \in Session : Live(t) => t = s
<1>1. \A t \in Session : Live(t) => Len(rows) \in Unfinished /\ RowOf(t, Len(rows))
  BY DEF BackedInv, Calm, Unfinished
<1> QED
  BY <1>1 DEF BackedInv, RowOf, Calm

\* Steps that touch no row keep what the task is like in calm times.
LEMMA CalmTask ==
  ASSUME TypeOK, BackedInv, StageInv, DoneInv, [Next]_vars, RowsKept
  PROVE  StageInv' /\ DoneInv'
<1> SUFFICES ASSUME Calm'
             PROVE  StageInv' /\ DoneInv'
  <2>1. Calm' \/ ~Calm'
    OBVIOUS
  <2>2. ~Calm' => StageInv'
    BY DEF StageInv
  <2>3. ~Calm' => DoneInv'
    BY DEF DoneInv
  <2> QED
    BY <2>2, <2>3
<1>1. rows' = rows
  BY DEF RowsKept
<1>2. outOfBand' = outOfBand
  BY DEF Calm, Next, Execute, vars, SuspendAfterFailures, CheckDuplicate, InsertStarted,
     SuspendTask, SetSchedule, ResumeTask, RecordSuccess, Stop
<1>3. Calm
  BY <1>1, <1>2 DEF Calm, Overlapping, ExecutedTwice, Unfinished, Rows
<1>a. ASSUME NEW s \in Session, SuspendTask(s) \/ SetSchedule(s) \/ ResumeTask(s)
      PROVE  DoneInv'
  <2>1. Live(s)
    BY <1>a DEF SuspendTask, SetSchedule, ResumeTask, At, Live
  <2>2. Unfinished # {}
    BY <2>1, <1>3, CalmAlone
  <2> QED
    BY <1>1, <2>2 DEF DoneInv, Unfinished, Rows
<1>b. ASSUME NEW s \in Session, Live(s),
             \A t \in Session : t # s => session'[t] = session[t]
      PROVE  \A t \in Session : t # s => session'[t].at \notin {"schedule", "resume", "complete"}
  BY <1>3, <1>b, CalmAlone DEF Live
<1>4. CASE UNCHANGED vars
  BY <1>3, <1>4 DEF vars, StageInv, DoneInv, Unfinished, Rows
<1>5. CASE SuspendAfterFailures
  BY <1>5 DEF SuspendAfterFailures, Calm
<1>6. ASSUME NEW s \in Session, Execute(s)
      PROVE  StageInv' /\ DoneInv'
  <2>1. ASSUME NEW o \in Operation, CheckDuplicate(s, o)
        PROVE  StageInv' /\ DoneInv'
    <3>1. /\ session'[s].at = "insert"
          /\ \A t \in Session : t # s => session'[t] = session[t]
      BY <2>1 DEF CheckDuplicate, TypeOK
    <3>2. resumed' = resumed /\ schedule' = schedule
      BY <2>1 DEF CheckDuplicate, task
    <3>3. StageInv'
      BY <1>3, <3>1, <3>2 DEF StageInv
    <3> QED
      BY <1>1, <1>3, <3>2, <3>3 DEF DoneInv, Unfinished, Rows
  <2>2. CASE SuspendTask(s)
    <3>1. /\ session'[s].at = "schedule"
          /\ \A t \in Session : t # s => session'[t] = session[t]
      BY <2>2, Moved DEF SuspendTask, At, Step
    <3>2. ~resumed' /\ Live(s)
      BY <2>2 DEF SuspendTask, At, Live
    <3>3. StageInv'
      BY <1>b, <3>1, <3>2 DEF StageInv
    <3> QED
      BY <1>a, <2>2, <3>3
  <2>3. CASE SetSchedule(s)
    <3>1. /\ session'[s].at = "resume" /\ session'[s].operation = session[s].operation
          /\ \A t \in Session : t # s => session'[t] = session[t]
      BY <2>3, Moved DEF SetSchedule, At, Step
    <3>2. /\ ~resumed' /\ schedule' = Interval[session[s].operation] /\ Live(s)
      BY <2>3 DEF SetSchedule, Asked, At, Live
    <3>3. StageInv'
      BY <1>b, <3>1, <3>2 DEF StageInv
    <3> QED
      BY <1>a, <2>3, <3>3
  <2>4. CASE ResumeTask(s)
    <3>1. /\ session'[s].at = "complete" /\ session'[s].operation = session[s].operation
          /\ \A t \in Session : t # s => session'[t] = session[t]
      BY <2>4, Moved DEF ResumeTask, At, Step
    <3>2. /\ session[s].at = "resume" /\ Live(s) /\ schedule' = schedule
          /\ resumed' = (Final(session[s].operation) \/ resumed)
      BY <2>4 DEF ResumeTask, Asked, At, Live
    <3>3. ~resumed /\ schedule = Interval[session[s].operation]
      BY <1>3, <3>2 DEF StageInv
    <3>4. schedule' = Interval[session'[s].operation] /\ resumed' = Final(session'[s].operation)
      <4>1. resumed' = Final(session[s].operation)
        BY <3>2, <3>3 DEF Final
      <4> QED
        BY <3>1, <3>2, <3>3, <4>1 DEF Final
    <3>5. StageInv'
      BY <1>b, <3>1, <3>2, <3>4 DEF StageInv
    <3> QED
      BY <1>a, <2>4, <3>5
  <2>5. CASE Stop(s)
    <3>1. /\ session'[s].at = "none"
          /\ \A t \in Session : t # s => session'[t] = session[t]
      BY <2>5, Ended DEF Stop
    <3>2. resumed' = resumed /\ schedule' = schedule
      BY <2>5 DEF Stop, task
    <3>3. StageInv'
      BY <1>3, <3>1, <3>2 DEF StageInv
    <3> QED
      BY <1>1, <1>3, <3>2, <3>3 DEF DoneInv, Unfinished, Rows
  <2>6. CASE InsertStarted(s)
    BY <1>1, <2>6, Inserted, RowsAre
  <2>7. CASE RecordSuccess(s)
    <3>1. Live(s) /\ rows'[Len(rows)].status = rows[Len(rows)].status
      BY <1>1, <2>7 DEF RecordSuccess, At, Live
    <3>2. Completes(s, Len(rows)) /\ Len(rows) \in Rows
      BY <1>3, <3>1, CalmAlone DEF Completes, Unfinished
    <3> QED
      BY <2>7, <3>1, <3>2, Completed DEF Completes
  <2> QED
    BY <1>6, <2>1, <2>2, <2>3, <2>4, <2>5, <2>6, <2>7 DEF Execute
<1> QED
  BY <1>4, <1>5, <1>6 DEF Next

\* Every step keeps what the task is like in calm times.
LEMMA CalmStep ==
  ASSUME TypeOK, TimeInv, BackedInv, StageInv, DoneInv, [Next]_vars
  PROVE  StageInv' /\ DoneInv'
<1>0. SUFFICES ASSUME Calm', ~RowsKept
             PROVE  StageInv' /\ DoneInv'
  <2>1. ~Calm' => StageInv'
    BY DEF StageInv
  <2>2. ~Calm' => DoneInv'
    BY DEF DoneInv
  <2> QED
    BY <2>1, <2>2, CalmTask
<1>1. ASSUME NEW s \in Session, InsertStarted(s)
      PROVE  StageInv' /\ DoneInv'
  <2> DEFINE n == Len(rows) + 1
  <2>1. /\ DOMAIN rows' = Rows \cup {n} /\ n \notin Rows /\ Len(rows') = n
        /\ \A i \in Rows : rows'[i] = rows[i]
        /\ rows'[n].status = "STARTED"
    BY <1>1, Inserted
  <2>2. /\ session'[s].at = "suspend"
        /\ \A t \in Session : t # s => session'[t] = session[t]
    BY <1>1, Moved DEF InsertStarted, At, Step
  <2>3. outOfBand' = outOfBand
    BY <1>1 DEF InsertStarted
  <2> HIDE DEF n
  <2>4. Unfinished = {}
    BY <1>0, <2>1 DEF Calm, Unfinished, Rows
  <2>5. ~Overlapping /\ ~ExecutedTwice
    BY <1>0, <2>1 DEF Calm, Overlapping, ExecutedTwice, Rows
  <2>6. Calm
    BY <1>0, <2>3, <2>4, <2>5 DEF Calm
  <2>7. \A t \in Session : ~Live(t)
    BY <2>4, <2>6, CalmAlone
  <2>8. StageInv'
    BY <2>2, <2>7 DEF StageInv, Live
  <2>9. n \in Unfinished'
    BY <2>1 DEF Unfinished, Rows
  <2> QED
    BY <2>8, <2>9 DEF DoneInv
<1>2. ASSUME NEW s \in Session, RecordSuccess(s)
      PROVE  StageInv' /\ DoneInv'
  <2> DEFINE n == Len(rows)
  <2>1. /\ DOMAIN rows' = Rows /\ Len(rows') = n
        /\ \A i \in Rows : /\ ~Completes(s, i) => rows'[i] = rows[i]
                           /\ Completes(s, i) => rows'[i].status = "SUCCEEDED"
                                                  /\ rows'[i].completedAt = now + 1
                           /\ rows'[i].operation = rows[i].operation
                           /\ rows'[i].startedAt = rows[i].startedAt
    BY <1>2, Completed
  <2>2. /\ session'[s].at = "none"
        /\ \A t \in Session : t # s => session'[t] = session[t]
    BY <1>2, Ended DEF RecordSuccess
  <2>3. /\ outOfBand' = outOfBand /\ resumed' = resumed /\ schedule' = schedule
        /\ session[s].at = "complete" /\ Live(s)
    BY <1>2 DEF RecordSuccess, task, At, Live
  <2>4. /\ n \in Nat /\ now \in Nat /\ Rows = 1..n
        /\ \A i \in Rows : /\ rows[i].startedAt \in Nat /\ rows[i].completedAt \in Nat
                           /\ rows[i].startedAt <= now
    <3>1. n \in Nat /\ now \in Nat /\ Rows = 1..n
      BY RowsAre DEF TypeOK
    <3>2. \A i \in Rows : /\ rows[i].startedAt \in Nat /\ rows[i].completedAt \in Nat
                         /\ rows[i].startedAt <= now
      BY RowsAre DEF TypeOK, Row
    <3> QED
      BY <3>1, <3>2
  <2> HIDE DEF n
  <2>5. ~Overlapping
    <3> SUFFICES ASSUME NEW i \in Rows, NEW k \in Rows, i # k,
                        rows[i].startedAt < rows[k].startedAt,
                        rows[k].startedAt < rows[i].completedAt
                 PROVE  FALSE
      BY DEF Overlapping
    <3>1. rows[i].completedAt # Never
      BY <2>4 DEF Never
    <3>2. ~Completes(s, i)
      BY <3>1 DEF Completes, TimeInv
    <3>3. /\ rows'[i].startedAt < rows'[k].startedAt
          /\ rows'[k].startedAt < rows'[i].completedAt
      BY <2>1, <3>2
    <3> QED
      BY <1>0, <2>1, <3>3 DEF Calm, Overlapping, Rows
  <2>6. ~ExecutedTwice
    BY <1>0, <2>1 DEF Calm, ExecutedTwice, Rows
  <2>7. ASSUME NEW j \in Unfinished
        PROVE  j = n
    <3> SUFFICES ASSUME j # n
                 PROVE  FALSE
      OBVIOUS
    <3>1. j \in Rows /\ n \in Rows /\ j < n
      BY <2>4 DEF Unfinished
    <3>2. rows[j].startedAt < rows[n].startedAt
      BY <3>1 DEF TimeInv
    <3>3. j \notin Unfinished'
      BY <1>0, <2>1 DEF Calm
    <3>4. Completes(s, j)
      BY <2>1, <3>1, <3>3 DEF Unfinished, Rows
    <3>5. rows[n].startedAt < now + 1
      BY <2>4, <3>1
    <3>6. /\ rows'[j].startedAt < rows'[n].startedAt
          /\ rows'[n].startedAt < rows'[j].completedAt
      BY <2>1, <3>1, <3>2, <3>4, <3>5
    <3> QED
      BY <1>0, <2>1, <3>1, <3>6 DEF Calm, Overlapping, Rows
  <2>8. Calm
    BY <1>0, <2>3, <2>5, <2>6, <2>7 DEF Calm, n
  <2>9. /\ RowOf(s, n) /\ \A t \in Session : Live(t) => t = s
    BY <2>3, <2>8, CalmAlone DEF n
  <2>10. n \in Rows
    BY <2>3, <2>8, CalmAlone DEF n, Unfinished
  <2>11. StageInv'
    BY <2>2, <2>9 DEF StageInv, Live
  <2>12. schedule = Interval[rows[n].operation] /\ resumed = Final(rows[n].operation)
    BY <2>3, <2>8, <2>9 DEF StageInv, RowOf
  <2>13. schedule' = Interval[rows'[n].operation] /\ resumed' = Final(rows'[n].operation)
    BY <2>1, <2>3, <2>10, <2>12
  <2>14. DoneInv'
    BY <2>1, <2>13 DEF DoneInv
  <2> QED
    BY <2>11, <2>14
<1> QED
  BY <1>0, <1>1, <1>2, OtherStepsKeepRows

\* If executions follow one another, the row completed last is the last row.
LEMMA RecordedIsLast ==
  ASSUME TypeOK, TimeInv, Unfinished = {}, ~Overlapping, NEW i \in Recorded
  PROVE  i = Len(rows) /\ i \in Rows
<1> DEFINE n == Len(rows)
<1>1. i \in Rows /\ n \in Rows /\ i <= n /\ i \in Nat /\ n \in Nat
  BY RowsAre DEF Recorded
<1>2. ASSUME i # n
      PROVE  FALSE
  <2>1. i < n
    BY <1>1, <1>2
  <2>2. rows[n] \in Row /\ rows[i] \in Row
    BY <1>1, RowsAre
  <2>3. rows[n].status = "SUCCEEDED"
    BY <1>1, <2>2 DEF Unfinished, Row
  <2>4. rows[n].startedAt < rows[n].completedAt /\ rows[i].startedAt < rows[n].startedAt
    BY <1>1, <2>1, <2>3 DEF TimeInv
  <2>5. ~(rows[n].startedAt < rows[i].completedAt)
    BY <1>1, <1>2, <2>4 DEF Overlapping
  <2>6. rows[n].completedAt <= rows[i].completedAt
    BY <1>1, <2>3 DEF Recorded
  <2>7. rows[n].startedAt \in Nat /\ rows[n].completedAt \in Nat /\ rows[i].completedAt \in Nat
    BY <2>2 DEF Row
  <2> QED
    BY <2>4, <2>5, <2>6, <2>7
<1> QED
  BY <1>1, <1>2

\* Without overlap the view of migration 130 is what the task does, for any
\* operations and sessions.
THEOREM RecordIsTruth == Spec => []RecordedIsActual
<1>1. Init => TimeInv /\ BackedInv /\ StageInv /\ DoneInv
  <2> SUFFICES ASSUME Init
               PROVE  TimeInv /\ BackedInv /\ StageInv /\ DoneInv
    OBVIOUS
  <2>1. rows = <<>> /\ Rows = {}
    BY DEF Init, Rows
  <2>2. \A s \in Session : session[s].at = "none"
    BY DEF Init, NoFile
  <2>3. BackedInv /\ StageInv
    BY <2>2 DEF BackedInv, StageInv, Live
  <2> QED
    BY <2>1, <2>3 DEF TimeInv, DoneInv
<1>2. TimeInv /\ BackedInv /\ StageInv /\ DoneInv /\ TypeOK /\ [Next]_vars
        => (TimeInv /\ BackedInv /\ StageInv /\ DoneInv)'
  BY TimeStep, BackedStep, CalmStep
<1>3. TypeOK /\ TimeInv /\ DoneInv => RecordedIsActual
  BY RecordedIsLast DEF DoneInv, RecordedIsActual, Calm
<1> QED
  BY <1>1, <1>2, <1>3, CadenceTypeCorrect, PTL DEF Spec
=============================================================================
