-------------------- MODULE ApplyOnceMigrationsProofs --------------------
(***************************************************************************)
(* Proofs about ApplyOnceMigrations, for any manifests, revisions, runners *)
(* and engineers: the type invariant, that no migration file is handed to  *)
(* Snowflake twice, that files arrive in order, and that a success row is  *)
(* true.  A job only ever gets nearer to its end.  If baselines do not     *)
(* overlap each other: the sequence is locked, only a review unblocks, and *)
(* MigrationLedger is implemented.                                         *)
(***************************************************************************)
EXTENDS ApplyOnceMigrations, TLAPS

\* The manifests of a revision, entry by entry: control paths at the control
\* positions, then silver paths at the silver positions.
LEMMA ManifestEntries ==
  ASSUME NEW r \in Revision
  PROVE  /\ Len(ControlManifest[r]) \in Nat
         /\ Len(SilverManifest[r]) \in Nat
         /\ Size(r) \in Nat
         /\ \A i \in 1..Size(r) :
              /\ PositionAt(r, i) \in Nat \ {0}
              /\ IsControl(r, i) => /\ PositionAt(r, i) \in DOMAIN ControlManifest[r]
                                    /\ PathAt(r, i) \in ControlPath
              /\ ~IsControl(r, i) => /\ PositionAt(r, i) \in DOMAIN SilverManifest[r]
                                     /\ PathAt(r, i) \in Path \ ControlPath
<1>1. /\ ControlManifest[r] \in Seq(ControlPath)
      /\ SilverManifest[r] \in Seq(Path \ ControlPath)
  BY ManifestAssumption
<1>2. Len(ControlManifest[r]) \in Nat /\ Len(SilverManifest[r]) \in Nat
  BY <1>1
<1>3. Size(r) \in Nat
  <2>1. \A m, n \in Nat : m + n \in Nat
    OBVIOUS
  <2> QED
    BY Zenon, <1>2, <2>1 DEF Size
<1>4. ASSUME NEW i \in 1..Size(r), IsControl(r, i)
      PROVE  /\ PositionAt(r, i) \in Nat \ {0}
             /\ PositionAt(r, i) \in DOMAIN ControlManifest[r]
             /\ PathAt(r, i) \in ControlPath
  BY <1>1, <1>2, <1>3, <1>4 DEF PositionAt, PathAt, IsControl
<1>5. ASSUME NEW i \in 1..Size(r), ~IsControl(r, i)
      PROVE  /\ PositionAt(r, i) \in Nat \ {0}
             /\ PositionAt(r, i) \in DOMAIN SilverManifest[r]
             /\ PathAt(r, i) \in Path \ ControlPath
  <2>1. \A m, n \in Nat : \A k \in 1..(m + n) : ~(k <= m) => k - m \in 1..n
    OBVIOUS
  <2>2. PositionAt(r, i) \in 1..Len(SilverManifest[r])
    BY Zenon, <1>2, <1>5, <2>1 DEF PositionAt, IsControl, Size
  <2> QED
    BY <1>1, <1>2, <1>5, <2>2 DEF PathAt
<1> QED
  BY <1>2, <1>3, <1>4, <1>5

\* What load_migrations yields: a path, its position and its checksum.
LEMMA MigrationsType ==
  ASSUME NEW r \in Revision, NEW i \in DOMAIN Migrations(r)
  PROVE  Migrations(r)[i] \in Migration /\ i \in Nat \ {0}
<1>1. ControlPath \subseteq Path /\ FileSum[r] \in [Path -> Checksum]
  BY ManifestAssumption
<1>2. i \in 1..Size(r) /\ Size(r) \in Nat
  BY ManifestEntries DEF Migrations
<1>3. PathAt(r, i) \in Path /\ PositionAt(r, i) \in Nat
  BY <1>1, <1>2, ManifestEntries
<1> QED
  BY <1>1, <1>2, <1>3 DEF Migrations, Migration

\* No path has two entries in the manifests of a revision.
LEMMA MigrationsDistinct ==
  ASSUME NEW r \in Revision,
         NEW i \in DOMAIN Migrations(r), NEW j \in DOMAIN Migrations(r),
         Migrations(r)[i].path = Migrations(r)[j].path
  PROVE  i = j
<1>1. /\ \A k, l \in DOMAIN ControlManifest[r] :
            ControlManifest[r][k] = ControlManifest[r][l] => k = l
      /\ \A k, l \in DOMAIN SilverManifest[r] :
            SilverManifest[r][k] = SilverManifest[r][l] => k = l
  BY ManifestAssumption
<1>2. i \in 1..Size(r) /\ j \in 1..Size(r) /\ PathAt(r, i) = PathAt(r, j)
  BY DEF Migrations
<1>3. i \in Nat /\ j \in Nat /\ Len(ControlManifest[r]) \in Nat
  BY <1>2, ManifestEntries
<1>4. IsControl(r, i) <=> IsControl(r, j)
  BY <1>2, ManifestEntries
<1>5. PositionAt(r, i) = PositionAt(r, j)
  <2>1. CASE IsControl(r, i)
    BY <1>1, <1>2, <1>4, <2>1, ManifestEntries DEF PathAt
  <2>2. CASE ~IsControl(r, i)
    BY <1>1, <1>2, <1>4, <2>2, ManifestEntries DEF PathAt
  <2> QED
    BY <2>1, <2>2
<1> QED
  BY <1>3, <1>4, <1>5 DEF PositionAt

-----------------------------------------------------------------------------
\* Type correctness

\* Appending a row to a path leaves a well-typed history.
LEMMA AddRowType ==
  ASSUME TypeOK, NEW m \in Migration, NEW status \in Terminal \cup Blocking,
         AddRow(m, status)
  PROVE  history' \in [Path -> Seq(Row)]
<1>1. RowOf(m, status) \in Row /\ m.path \in Path
  BY DEF RowOf, Row, Migration
<1>2. history \in [Path -> Seq(Row)]
  BY DEF TypeOK
<1>3. Append(history[m.path], RowOf(m, status)) \in Seq(Row)
  BY <1>1, <1>2
<1> QED
  BY <1>1, <1>2, <1>3 DEF AddRow

\* record_succeeded and record_failed rewrite the status of an existing row.
LEMMA CloseAttemptType ==
  ASSUME TypeOK, NEW w \in Runner, Current(w).path \in Path,
         attempt[w] \in DOMAIN history[Current(w).path],
         NEW status \in Terminal \cup Blocking,
         CloseAttempt(w, status)
  PROVE  history' \in [Path -> Seq(Row)]
<1> DEFINE p == Current(w).path
           row == history[p][attempt[w]]
           closed == [row EXCEPT !.status = IF @ = "STARTED" THEN status ELSE @]
<1>1. history \in [Path -> Seq(Row)] /\ p \in Path
  BY DEF TypeOK
<1>2. history[p] \in Seq(Row) /\ attempt[w] \in DOMAIN history[p]
  BY <1>1
<1>3. row \in Row
  BY <1>2
<1>4. closed \in Row
  BY <1>3 DEF Row
<1>5. [history[p] EXCEPT ![attempt[w]] = closed] \in Seq(Row)
  BY <1>2, <1>4
<1>6. history' = [history EXCEPT ![p] = [history[p] EXCEPT ![attempt[w]] = closed]]
  BY <1>1 DEF CloseAttempt
<1> QED
  BY <1>1, <1>5, <1>6

\* A baseline writes a row of the history's type for each manifest entry.
LEMMA EntryOfType ==
  ASSUME NEW r \in Revision, NEW p \in Path, InManifest(p, r)
  PROVE  EntryOf(p, r) \in Migration /\ EntryOf(p, r).path = p
<1>1. \E i \in DOMAIN Migrations(r) : Migrations(r)[i].path = p
  BY DEF InManifest
<1> QED
  BY <1>1, MigrationsType DEF EntryOf

\* What every step keeps of the history: its type, and the rows of each path.
HistoryGrows ==
  /\ history' \in [Path -> Seq(Row)]
  /\ \A p \in Path : DOMAIN history[p] \subseteq DOMAIN history'[p]

\* record_started and record_remediated add one row and lose none.
LEMMA AddRowGrows ==
  ASSUME TypeOK, NEW m \in Migration, NEW status \in Terminal \cup Blocking,
         AddRow(m, status)
  PROVE  /\ HistoryGrows
         /\ Len(history[m.path]) + 1 \in DOMAIN history'[m.path]
         /\ Len(history[m.path]) + 1 \in Nat
<1>1. RowOf(m, status) \in Row /\ m.path \in Path
  BY DEF RowOf, Row, Migration
<1>2. history \in [Path -> Seq(Row)]
  BY DEF TypeOK
<1>3. \A s \in Seq(Row) : \A row \in Row :
        /\ Append(s, row) \in Seq(Row)
        /\ DOMAIN s \subseteq DOMAIN Append(s, row)
        /\ Len(s) + 1 \in DOMAIN Append(s, row)
        /\ Len(s) + 1 \in Nat
  OBVIOUS
<1>4. history[m.path] \in Seq(Row)
  BY <1>1, <1>2
<1>5. history' = [history EXCEPT ![m.path] = Append(history[m.path], RowOf(m, status))]
  BY DEF AddRow
<1>6. /\ history'[m.path] = Append(history[m.path], RowOf(m, status))
      /\ \A p \in Path : p # m.path => history'[p] = history[p]
  BY <1>1, <1>2, <1>5
<1>7. history' \in [Path -> Seq(Row)]
  BY <1>1, AddRowType
<1> QED
  BY Zenon, <1>1, <1>3, <1>4, <1>6, <1>7 DEF HistoryGrows

\* Closing an attempt loses no row.
LEMMA CloseAttemptGrows ==
  ASSUME TypeOK, NEW w \in Runner, Current(w).path \in Path,
         attempt[w] \in DOMAIN history[Current(w).path],
         NEW status \in Terminal \cup Blocking,
         CloseAttempt(w, status)
  PROVE  HistoryGrows
<1>1. history' \in [Path -> Seq(Row)]
  BY CloseAttemptType
<1>2. history \in [Path -> Seq(Row)]
  BY DEF TypeOK
<1>3. ASSUME NEW p \in Path
      PROVE  DOMAIN history[p] = DOMAIN history'[p]
  BY <1>2 DEF CloseAttempt
<1> QED
  BY <1>1, <1>3 DEF HistoryGrows

\* What an engineer's pending command carries, by its kind.
LEMMA CommandType ==
  ASSUME NEW c \in Command
  PROVE  /\ c.kind = "baseline" => c.rev \in Revision
         /\ c.kind = "resolve" => c.entry \in Migration
<1>1. CASE c = NoCommand
  BY <1>1 DEF NoCommand
<1>2. CASE c \in [kind : {"baseline"}, rev : Revision]
  BY <1>2
<1>3. CASE c \in [kind : {"resolve"}, entry : Migration]
  BY <1>3
<1> QED
  BY <1>1, <1>2, <1>3 DEF Command

\* A baseline loses no row.
LEMMA RecordBaselineGrows ==
  ASSUME TypeOK, NEW e \in Engineer, RecordBaseline(e)
  PROVE  HistoryGrows
<1>1. command[e].rev \in Revision
  BY CommandType DEF TypeOK, RecordBaseline
<1>2. history \in [Path -> Seq(Row)]
  BY DEF TypeOK
<1> DEFINE Rows(p) == IF InManifest(p, command[e].rev)
                        THEN Append(history[p], RowOf(EntryOf(p, command[e].rev), "BASELINED"))
                        ELSE history[p]
<1>3. history' = [p \in Path |-> Rows(p)]
  BY DEF RecordBaseline
<1>4. ASSUME NEW p \in Path
      PROVE  Rows(p) \in Seq(Row) /\ DOMAIN history[p] \subseteq DOMAIN Rows(p)
  <2>1. CASE InManifest(p, command[e].rev)
    <3>1. RowOf(EntryOf(p, command[e].rev), "BASELINED") \in Row
      BY <1>1, <2>1, EntryOfType DEF RowOf, Row, Migration, Terminal
    <3>2. history[p] \in Seq(Row)
      BY <1>2
    <3>3. Rows(p) = Append(history[p], RowOf(EntryOf(p, command[e].rev), "BASELINED"))
      BY <2>1
    <3> HIDE DEF Rows
    <3> QED
      BY <3>1, <3>2, <3>3
  <2>2. CASE ~InManifest(p, command[e].rev)
    BY <1>2, <2>2
  <2> QED
    BY <2>1, <2>2
<1> HIDE DEF Rows
<1> QED
  BY <1>3, <1>4 DEF HistoryGrows

-----------------------------------------------------------------------------
\* The strengthened invariant

\* An environment nobody has deployed to satisfies the invariant.
LEMMA OnceInvInit == Init => OnceInv
<1> SUFFICES ASSUME Init PROVE OnceInv
  OBVIOUS
<1>1. NoRevision \in Revision
  BY ManifestAssumption DEF NoRevision
<1>2. TypeOK
  BY <1>1 DEF Init, TypeOK, Command, RunnerState
<1>3. GroupInv /\ AttemptInv /\ SentInv /\ UnsentInv
  BY DEF Init, GroupInv, AttemptInv, SentInv, UnsentInv
<1> QED
  BY <1>2, <1>3 DEF OnceInv

\* What holds of the decision a job is at, outside planning.
LEMMA CurrentType ==
  ASSUME TypeOK, NEW w \in Runner, at[w] \in DOMAIN Migrations(rev[w])
  PROVE  Current(w) \in Migration /\ Current(w).path \in Path
  BY MigrationsType DEF TypeOK, Current, Migration

\* A job that ends leaves the invariant to the others.
LEMMA JobEndsInv ==
  ASSUME OnceInv, NEW w \in Runner, JobEnds(w), HistoryGrows,
         UNCHANGED <<legacy, file, sent, command>>
  PROVE  OnceInv'
<1> USE DEF OnceInv
<1>1. NoRevision \in Revision
  BY ManifestAssumption DEF NoRevision
<1>2. TypeOK'
  BY <1>1 DEF TypeOK, JobEnds, HistoryGrows, RunnerState
<1>3. /\ pc'[w] = "idle"
      /\ \A v \in Runner : v # w => /\ pc'[v] = pc[v] /\ rev'[v] = rev[v] /\ at'[v] = at[v]
                                    /\ known'[v] = known[v] /\ attempt'[v] = attempt[v]
  BY DEF JobEnds, TypeOK
<1>4. GroupInv'
  BY <1>3 DEF GroupInv
<1>5. AttemptInv'
  <2> SUFFICES ASSUME NEW v \in Runner, pc'[v] \notin {"idle", "deciding"}
               PROVE  /\ at'[v] \in DOMAIN Migrations(rev'[v])
                      /\ Current(v)'.path \notin known'[v]
                      /\ attempt'[v] \in DOMAIN history'[Current(v)'.path]
    BY DEF AttemptInv
  <2>1. v # w
    BY <1>3
  <2>2. Current(v)' = Current(v)
    BY <1>3, <2>1 DEF Current
  <2> QED
    BY <1>3, <2>1, <2>2, CurrentType DEF AttemptInv, HistoryGrows
<1>6. SentInv'
  BY DEF SentInv, HistoryGrows, Recorded, TypeOK
<1>7. UnsentInv'
  BY <1>3 DEF UnsentInv, ToSend
<1> QED
  BY <1>2, <1>4, <1>5, <1>6, <1>7

\* A step of an engineer, or of Snowflake, leaves every job where it is.
LEMMA OutsideInv ==
  ASSUME OnceInv, HistoryGrows, TypeOK', UNCHANGED <<runnerVars, sent>>
  PROVE  OnceInv'
<1> USE DEF OnceInv, runnerVars
<1>1. GroupInv'
  BY DEF GroupInv
<1>2. AttemptInv'
  <2> SUFFICES ASSUME NEW v \in Runner, pc[v] \notin {"idle", "deciding"}
               PROVE  /\ at[v] \in DOMAIN Migrations(rev[v])
                      /\ Current(v).path \notin known[v]
                      /\ attempt[v] \in DOMAIN history'[Current(v).path]
    BY DEF AttemptInv, Current
  <2> QED
    BY CurrentType DEF AttemptInv, HistoryGrows
<1>3. SentInv'
  BY DEF SentInv, HistoryGrows, Recorded, TypeOK
<1>4. UnsentInv'
  BY DEF UnsentInv, ToSend
<1> QED
  BY <1>1, <1>2, <1>3, <1>4

\* baseline and resolve keep the invariant: they only ever add rows.
LEMMA OperateInv ==
  ASSUME OnceInv, NEW e \in Engineer, Operate(e)
  PROVE  OnceInv'
<1> USE DEF OnceInv
<1>1. ASSUME NEW r \in Revision, CheckBaseline(e, r)
      PROVE  OnceInv'
  <2>1. HistoryGrows
    BY <1>1 DEF CheckBaseline, HistoryGrows, TypeOK
  <2>2. [kind |-> "baseline", rev |-> r] \in Command
    BY DEF Command
  <2>3. TypeOK'
    BY <1>1, <2>2 DEF CheckBaseline, TypeOK, runnerVars
  <2> QED
    BY <1>1, <2>1, <2>3, OutsideInv DEF CheckBaseline
<1>2. CASE RecordBaseline(e)
  <2>1. HistoryGrows
    BY <1>2, RecordBaselineGrows
  <2>2. TypeOK'
    BY <1>2, <2>1 DEF RecordBaseline, TypeOK, HistoryGrows, runnerVars, Command
  <2> QED
    BY <1>2, <2>1, <2>2, OutsideInv DEF RecordBaseline
<1>3. ASSUME NEW r \in Revision, NEW p \in Path, CheckResolve(e, r, p)
      PROVE  OnceInv'
  <2>1. HistoryGrows
    BY <1>3 DEF CheckResolve, HistoryGrows, TypeOK
  <2>2. [kind |-> "resolve", entry |-> EntryOf(p, r)] \in Command
    BY <1>3, EntryOfType DEF Command, CheckResolve
  <2>3. TypeOK'
    BY <1>3, <2>2 DEF CheckResolve, TypeOK, runnerVars
  <2> QED
    BY <1>3, <2>1, <2>3, OutsideInv DEF CheckResolve
<1>4. CASE RecordResolve(e)
  <2>1. command[e].entry \in Migration
    BY <1>4, CommandType DEF RecordResolve, TypeOK
  <2>2. HistoryGrows
    BY <1>4, <2>1, AddRowGrows DEF RecordResolve, Terminal
  <2>3. TypeOK'
    BY <1>4, <2>2 DEF RecordResolve, TypeOK, HistoryGrows, runnerVars, Command
  <2> QED
    BY <1>4, <2>2, <2>3, OutsideInv DEF RecordResolve
<1>5. CASE Abandon(e)
  <2>1. HistoryGrows
    BY <1>5 DEF Abandon, HistoryGrows, TypeOK
  <2>2. TypeOK'
    BY <1>5 DEF Abandon, TypeOK, runnerVars, Command
  <2> QED
    BY <1>5, <2>1, <2>2, OutsideInv DEF Abandon
<1> QED
  BY <1>1, <1>2, <1>3, <1>4, <1>5 DEF Operate

\* A file that ends in Snowflake keeps the invariant.
LEMMA SnowflakeEndsInv ==
  ASSUME OnceInv, NEW p \in Path, SnowflakeEnds(p)
  PROVE  OnceInv'
<1>1. HistoryGrows
  BY DEF SnowflakeEnds, HistoryGrows, OnceInv, TypeOK
<1>2. TypeOK'
  BY DEF SnowflakeEnds, OnceInv, TypeOK, runnerVars
<1> QED
  BY <1>1, <1>2, OutsideInv DEF SnowflakeEnds

\* A plan applies only paths without a row, and those were never submitted.
LEMMA StartDeploymentInv ==
  ASSUME OnceInv, NEW w \in Runner, NEW r \in Revision, StartDeployment(w, r)
  PROVE  OnceInv'
<1> USE DEF OnceInv, StartDeployment
<1>1. TypeOK'
  BY DEF TypeOK, RunnerState
<1>2. /\ pc'[w] = "deciding" /\ rev'[w] = r
      /\ known'[w] = {p \in Path : Recorded(p)}
      /\ \A v \in Runner : v # w => pc'[v] = "idle"
  BY DEF TypeOK
<1>3. GroupInv'
  BY <1>2 DEF GroupInv
<1>4. AttemptInv'
  BY <1>2 DEF AttemptInv
<1>5. SentInv'
  BY DEF SentInv, Recorded
<1>6. UnsentInv'
  <2> SUFFICES ASSUME NEW i \in DOMAIN Migrations(r),
                      Migrations(r)[i].path \notin known'[w]
               PROVE  sent[Migrations(r)[i].path] = 0
    BY <1>2 DEF UnsentInv, ToSend
  <2>1. Migrations(r)[i].path \in Path
    BY MigrationsType DEF Migration
  <2>2. ~Recorded(Migrations(r)[i].path)
    BY <1>2, <2>1
  <2> QED
    BY <2>1, <2>2 DEF SentInv
<1> QED
  BY <1>1, <1>3, <1>4, <1>5, <1>6

\* While a job works every other one is idle, so a step that leaves the others
\* alone has to re-establish the job's own part of the invariant only.
LEMMA OwnStep ==
  ASSUME OnceInv, NEW w \in Runner, pc[w] # "idle", TypeOK', SentInv',
         \A v \in Runner : v # w => pc'[v] = pc[v],
         pc'[w] \notin {"idle", "deciding"} =>
           /\ at'[w] \in DOMAIN Migrations(rev'[w])
           /\ Current(w)'.path \notin known'[w]
           /\ attempt'[w] \in DOMAIN history'[Current(w)'.path],
         \A i \in ToSend(w)' : sent'[Migrations(rev'[w])[i].path] = 0
  PROVE  OnceInv'
<1>1. \A v \in Runner : v # w => pc'[v] = "idle"
  BY DEF OnceInv, GroupInv
<1>2. GroupInv'
  BY <1>1 DEF GroupInv
<1>3. AttemptInv'
  <2> SUFFICES ASSUME NEW v \in Runner, pc'[v] \notin {"idle", "deciding"}
               PROVE  /\ at'[v] \in DOMAIN Migrations(rev'[v])
                      /\ Current(v)'.path \notin known'[v]
                      /\ attempt'[v] \in DOMAIN history'[Current(v)'.path]
    BY DEF AttemptInv
  <2>1. v = w
    BY <1>1
  <2> QED
    BY <2>1
<1>4. UnsentInv'
  <2> SUFFICES ASSUME NEW v \in Runner, pc'[v] # "idle"
               PROVE  \A i \in ToSend(v)' : sent'[Migrations(rev'[v])[i].path] = 0
    BY DEF UnsentInv
  <2>1. v = w
    BY <1>1
  <2> QED
    BY <2>1
<1> QED
  BY <1>2, <1>3, <1>4 DEF OnceInv

\* A decision SKIP keeps the invariant.
LEMMA SkipInv ==
  ASSUME OnceInv, NEW w \in Runner, Skip(w)
  PROVE  OnceInv'
<1> USE DEF Skip
<1>1. TypeOK'
  BY DEF OnceInv, TypeOK
<1>2. SentInv'
  BY DEF OnceInv, SentInv, Recorded
<1>3. pc'[w] = "deciding" /\ at'[w] = at[w] + 1 /\ at[w] \in Nat
  BY DEF OnceInv, TypeOK
<1>4. ToSend(w)' \subseteq ToSend(w)
  BY <1>3, MigrationsType DEF ToSend, OnceInv, TypeOK
<1>5. \A i \in ToSend(w)' : sent'[Migrations(rev'[w])[i].path] = 0
  BY <1>4 DEF OnceInv, UnsentInv
<1> QED
  BY <1>1, <1>2, <1>3, <1>5, OwnStep

\* The STARTED row keeps the invariant and announces the path.
LEMMA RecordStartedInv ==
  ASSUME OnceInv, NEW w \in Runner, RecordStarted(w)
  PROVE  OnceInv'
<1> USE DEF RecordStarted
<1>1. Current(w) \in Migration /\ Current(w).path \in Path /\ TypeOK
  BY CurrentType DEF OnceInv
<1>2. /\ HistoryGrows
      /\ Len(history[Current(w).path]) + 1 \in DOMAIN history'[Current(w).path]
      /\ Len(history[Current(w).path]) + 1 \in Nat
  BY <1>1, AddRowGrows DEF Blocking
<1>3. TypeOK'
  BY <1>1, <1>2 DEF TypeOK, HistoryGrows, RunnerState
<1>4. SentInv'
  BY <1>1, <1>2 DEF OnceInv, SentInv, HistoryGrows, Recorded, TypeOK
<1>5. pc'[w] = "recorded" /\ attempt'[w] = Len(history[Current(w).path]) + 1
  BY <1>1 DEF TypeOK
<1>6. Current(w)' = Current(w)
  BY DEF Current
<1>7. ToSend(w)' = ToSend(w)
  BY <1>5 DEF ToSend
<1>8. \A i \in ToSend(w)' : sent'[Migrations(rev'[w])[i].path] = 0
  BY <1>7 DEF OnceInv, UnsentInv
<1>9. \A v \in Runner : v # w => pc'[v] = pc[v]
  BY <1>1 DEF TypeOK
<1> QED
  BY <1>2, <1>3, <1>4, <1>5, <1>6, <1>8, <1>9, OwnStep

\* The file goes out once: it was never sent, and it is not to be sent again.
LEMMA SubmitFileInv ==
  ASSUME OnceInv, NEW w \in Runner, SubmitFile(w)
  PROVE  OnceInv'
<1> USE DEF SubmitFile
<1> DEFINE p == Current(w).path
<1>1. TypeOK /\ at[w] \in DOMAIN Migrations(rev[w])
      /\ p \notin known[w] /\ attempt[w] \in DOMAIN history[p]
  BY DEF OnceInv, AttemptInv
<1>2. p \in Path /\ at[w] \in Nat
  BY <1>1, CurrentType DEF TypeOK
<1>3. sent[p] = 0
  BY <1>1 DEF OnceInv, UnsentInv, ToSend, Current
<1>4. Recorded(p)
  BY <1>1, <1>2 DEF Recorded, TypeOK
<1>5. TypeOK'
  <2>1. sent' = [sent EXCEPT ![p] = 1]
    BY <1>3
  <2> QED
    BY <1>1, <1>2, <2>1 DEF TypeOK, RunnerState
<1>6. SentInv'
  BY <1>2, <1>3, <1>4 DEF OnceInv, SentInv, Recorded, TypeOK
<1>7. /\ pc'[w] = "executing"
      /\ sent'[p] = 1
      /\ \A v \in Runner : v # w => pc'[v] = pc[v]
      /\ \A q \in Path : q # p => sent'[q] = sent[q]
      /\ Current(w)' = Current(w)
  BY <1>2, <1>3, <1>1 DEF TypeOK, Current
<1>8. ASSUME NEW i \in ToSend(w)'
      PROVE  sent'[Migrations(rev'[w])[i].path] = 0
  <2>1. i \in ToSend(w) /\ i > at[w] /\ i \in DOMAIN Migrations(rev[w])
    BY <1>7 DEF ToSend
  <2>2. Migrations(rev[w])[i].path # p
    <3>1. rev[w] \in Revision /\ i # at[w]
      BY <1>1, <1>2, <2>1, MigrationsType DEF TypeOK
    <3> QED
      BY <1>1, <2>1, <3>1, MigrationsDistinct DEF Current
  <2>3. Migrations(rev[w])[i].path \in Path
    BY <1>1, <2>1, MigrationsType DEF Migration, TypeOK
  <2> QED
    BY <1>7, <2>1, <2>2, <2>3 DEF OnceInv, UnsentInv
<1> QED
  BY <1>1, <1>5, <1>6, <1>7, <1>8, OwnStep

\* The answer of Snowflake, or its loss, changes only where the job is.
LEMMA ExecutionReturnsInv ==
  ASSUME OnceInv, NEW w \in Runner, ExecutionSucceeds(w) \/ ExecutionFails(w)
  PROVE  OnceInv'
<1> USE DEF ExecutionSucceeds, ExecutionFails
<1>1. TypeOK'
  BY DEF OnceInv, TypeOK, RunnerState
<1>2. SentInv'
  BY DEF OnceInv, SentInv, Recorded
<1>3. pc'[w] \in {"applied", "failing"} /\ pc[w] \notin {"idle", "deciding"}
  BY DEF OnceInv, TypeOK
<1>4. \A v \in Runner : v # w => pc'[v] = pc[v]
  BY DEF OnceInv, TypeOK
<1>5. ToSend(w)' \subseteq ToSend(w)
  BY <1>3 DEF ToSend
<1>6. \A i \in ToSend(w)' : sent'[Migrations(rev'[w])[i].path] = 0
  BY <1>3, <1>5 DEF OnceInv, UnsentInv
<1>7. Current(w)' = Current(w)
  BY DEF Current
<1>8. /\ at'[w] \in DOMAIN Migrations(rev'[w])
      /\ Current(w)'.path \notin known'[w]
      /\ attempt'[w] \in DOMAIN history'[Current(w)'.path]
  BY <1>3, <1>7 DEF OnceInv, AttemptInv
<1> QED
  BY <1>1, <1>2, <1>3, <1>4, <1>6, <1>8, OwnStep

\* A recorded success moves on to decisions that were never submitted.
LEMMA RecordSucceededInv ==
  ASSUME OnceInv, NEW w \in Runner, RecordSucceeded(w)
  PROVE  OnceInv'
<1> USE DEF RecordSucceeded
<1>1. TypeOK /\ at[w] \in DOMAIN Migrations(rev[w])
      /\ attempt[w] \in DOMAIN history[Current(w).path] /\ Current(w).path \in Path
  BY CurrentType DEF OnceInv, AttemptInv
<1>2. HistoryGrows
  BY <1>1, CloseAttemptGrows DEF Terminal
<1>3. TypeOK'
  BY <1>2 DEF OnceInv, TypeOK, HistoryGrows, RunnerState
<1>4. SentInv'
  BY <1>2 DEF OnceInv, SentInv, HistoryGrows, Recorded, TypeOK
<1>5. pc'[w] = "deciding" /\ at'[w] = at[w] + 1 /\ at[w] \in Nat
      /\ \A v \in Runner : v # w => pc'[v] = pc[v]
  BY <1>1 DEF TypeOK
<1>6. ToSend(w)' \subseteq ToSend(w)
  BY <1>1, <1>5, MigrationsType DEF ToSend, TypeOK
<1>7. \A i \in ToSend(w)' : sent'[Migrations(rev'[w])[i].path] = 0
  BY <1>6 DEF OnceInv, UnsentInv
<1> QED
  BY <1>3, <1>4, <1>5, <1>7, OwnStep

\* A recorded failure ends the job.
LEMMA RecordFailedInv ==
  ASSUME OnceInv, NEW w \in Runner, RecordFailed(w)
  PROVE  OnceInv'
<1>1. TypeOK /\ Current(w).path \in Path
      /\ attempt[w] \in DOMAIN history[Current(w).path]
  BY CurrentType DEF OnceInv, AttemptInv, RecordFailed
<1>2. HistoryGrows
  BY <1>1, CloseAttemptGrows DEF RecordFailed, Blocking
<1> QED
  BY <1>2, JobEndsInv DEF RecordFailed

\* A job that is done, or dies, keeps the invariant.
LEMMA JobStopsInv ==
  ASSUME OnceInv, NEW w \in Runner, FinishDeployment(w) \/ Crash(w)
  PROVE  OnceInv'
<1>1. HistoryGrows
  BY DEF FinishDeployment, Crash, HistoryGrows, OnceInv, TypeOK
<1> QED
  BY <1>1, JobEndsInv DEF FinishDeployment, Crash

\* OnceInv is inductive: one step per action of Next.
LEMMA OnceInvNext == OnceInv /\ [Next]_vars => OnceInv'
<1> SUFFICES ASSUME OnceInv, [Next]_vars PROVE OnceInv'
  OBVIOUS
<1>1. CASE UNCHANGED vars
  BY <1>1 DEF vars, runnerVars, OnceInv, TypeOK, GroupInv, AttemptInv, SentInv,
              UnsentInv, ToSend, Current, Recorded
<1>2. ASSUME NEW w \in Runner, NEW r \in Revision, StartDeployment(w, r)
      PROVE  OnceInv'
  BY <1>2, StartDeploymentInv
<1>3. ASSUME NEW w \in Runner, Proceed(w)
      PROVE  OnceInv'
  BY <1>3, SkipInv, RecordStartedInv, SubmitFileInv, ExecutionReturnsInv,
     RecordSucceededInv, RecordFailedInv, JobStopsInv DEF Proceed
<1>4. ASSUME NEW w \in Runner, Crash(w)
      PROVE  OnceInv'
  BY <1>4, JobStopsInv
<1>5. ASSUME NEW p \in Path, SnowflakeEnds(p)
      PROVE  OnceInv'
  BY <1>5, SnowflakeEndsInv
<1>6. ASSUME NEW e \in Engineer, Operate(e)
      PROVE  OnceInv'
  BY <1>6, OperateInv
<1> QED
  BY <1>1, <1>2, <1>3, <1>4, <1>5, <1>6 DEF Next

-----------------------------------------------------------------------------
\* Rows: what the history says of the files, and of the order of the manifest

\* A step leaves the rows of a path alone, or adds one with one of the statuses.
Kept(p) == history'[p] = history[p]
Adds(p, statuses) ==
  \E row \in Row : row.status \in statuses /\ history'[p] = Append(history[p], row)

\* The rows of a history after one more.
LEMMA AppendedRows ==
  ASSUME NEW rows \in Seq(Row), NEW row \in Row
  PROVE  /\ Append(rows, row) # <<>>
         /\ Len(Append(rows, row)) = Len(rows) + 1
         /\ DOMAIN Append(rows, row) = DOMAIN rows \cup {Len(rows) + 1}
         /\ Append(rows, row)[Len(rows) + 1] = row
         /\ \A i \in DOMAIN rows : Append(rows, row)[i] = rows[i]
  OBVIOUS

\* A settled path stays settled while nobody adds an unresolved attempt.
LEMMA SettledStays ==
  ASSUME TypeOK, NEW p \in Path, Settled(p), Kept(p) \/ Adds(p, Terminal)
  PROVE  Settled(p)'
<1>1. CASE Kept(p)
  BY <1>1 DEF Kept, Settled, Recorded, Latest
<1>2. CASE Adds(p, Terminal)
  <2>1. PICK row \in Row : row.status \in Terminal /\ history'[p] = Append(history[p], row)
    BY <1>2 DEF Adds
  <2>2. history[p] \in Seq(Row)
    BY DEF TypeOK
  <2> QED
    BY <2>1, <2>2, AppendedRows DEF Settled, Recorded, Latest
<1> QED
  BY <1>1, <1>2

\* baseline and resolve only add rows that claim no execution.
LEMMA EngineerRows ==
  ASSUME TypeOK, NEW e \in Engineer, Operate(e)
  PROVE  /\ UNCHANGED <<file, sent, runnerVars>>
         /\ \A p \in Path : Kept(p) \/ Adds(p, {"BASELINED", "REMEDIATED"})
<1>1. ASSUME UNCHANGED history, NEW p \in Path
      PROVE  Kept(p)
  BY <1>1 DEF Kept
<1>2. CASE RecordBaseline(e)
  <2>1. command[e].rev \in Revision
    BY <1>2, CommandType DEF TypeOK, RecordBaseline
  <2> SUFFICES ASSUME NEW p \in Path
               PROVE  Kept(p) \/ Adds(p, {"BASELINED", "REMEDIATED"})
    BY <1>2 DEF RecordBaseline
  <2>2. CASE InManifest(p, command[e].rev)
    <3>1. history'[p] = Append(history[p], RowOf(EntryOf(p, command[e].rev), "BASELINED"))
      BY <1>2, <2>2 DEF RecordBaseline
    <3>2. RowOf(EntryOf(p, command[e].rev), "BASELINED") \in Row
          /\ RowOf(EntryOf(p, command[e].rev), "BASELINED").status = "BASELINED"
      BY <2>1, <2>2, EntryOfType DEF RowOf, Row, Migration, Terminal
    <3> QED
      BY <3>1, <3>2 DEF Adds
  <2>3. CASE ~InManifest(p, command[e].rev)
    BY <1>2, <2>3 DEF RecordBaseline, Kept
  <2> QED
    BY <2>2, <2>3
<1>3. CASE RecordResolve(e)
  <2>1. command[e].entry \in Migration
    BY <1>3, CommandType DEF RecordResolve, TypeOK
  <2> DEFINE row == RowOf(command[e].entry, "REMEDIATED")
  <2>2. row \in Row /\ row.status = "REMEDIATED"
    BY <2>1 DEF RowOf, Row, Migration, Terminal
  <2>3. history' = [history EXCEPT ![command[e].entry.path] =
                      Append(history[command[e].entry.path], row)]
    BY <1>3 DEF RecordResolve, AddRow
  <2> HIDE DEF row
  <2>4. ASSUME NEW p \in Path
        PROVE  Kept(p) \/ Adds(p, {"BASELINED", "REMEDIATED"})
    BY <2>2, <2>3 DEF Kept, Adds, TypeOK
  <2> QED
    BY <1>3, <2>4 DEF RecordResolve
<1> QED
  BY <1>1, <1>2, <1>3 DEF Operate, CheckBaseline, CheckResolve, Abandon

\* record_started adds the STARTED row of its path and touches no other.
LEMMA StartedRows ==
  ASSUME OnceInv, NEW w \in Runner, RecordStarted(w)
  PROVE  /\ Current(w) \in Migration /\ Current(w).path \in Path
         /\ RowOf(Current(w), "STARTED") \in Row
         /\ history'[Current(w).path] =
              Append(history[Current(w).path], RowOf(Current(w), "STARTED"))
         /\ \A p \in Path : p # Current(w).path => Kept(p)
<1>1. Current(w) \in Migration /\ Current(w).path \in Path
  BY CurrentType DEF OnceInv, RecordStarted
<1>2. RowOf(Current(w), "STARTED") \in Row
  BY <1>1 DEF RowOf, Row, Migration, Blocking
<1>3. history' = [history EXCEPT ![Current(w).path] =
                    Append(history[Current(w).path], RowOf(Current(w), "STARTED"))]
  BY DEF RecordStarted, AddRow
<1>4. history \in [Path -> Seq(Row)]
  BY DEF OnceInv, TypeOK
<1> QED
  BY <1>1, <1>2, <1>3, <1>4 DEF Kept

\* record_succeeded and record_failed rewrite one row, if it is STARTED.
LEMMA ClosedRows ==
  ASSUME OnceInv, NEW w \in Runner, pc[w] \notin {"idle", "deciding"},
         NEW status \in Terminal \cup Blocking, CloseAttempt(w, status)
  PROVE  /\ Current(w).path \in Path /\ attempt[w] \in DOMAIN history[Current(w).path]
         /\ \A p \in Path : p # Current(w).path => Kept(p)
         /\ DOMAIN history'[Current(w).path] = DOMAIN history[Current(w).path]
         /\ Len(history'[Current(w).path]) = Len(history[Current(w).path])
         /\ \A i \in DOMAIN history[Current(w).path] : i # attempt[w] =>
              history'[Current(w).path][i] = history[Current(w).path][i]
         /\ history'[Current(w).path][attempt[w]].status =
              IF history[Current(w).path][attempt[w]].status = "STARTED"
                THEN status ELSE history[Current(w).path][attempt[w]].status
         /\ \A i \in DOMAIN history[Current(w).path] :
              /\ history'[Current(w).path][i].pos = history[Current(w).path][i].pos
              /\ history'[Current(w).path][i].sum = history[Current(w).path][i].sum
<1> DEFINE p == Current(w).path
           row == history[p][attempt[w]]
           closed == [row EXCEPT !.status = IF @ = "STARTED" THEN status ELSE @]
<1>1. p \in Path /\ attempt[w] \in DOMAIN history[p]
  BY CurrentType DEF OnceInv, AttemptInv
<1>2. history \in [Path -> Seq(Row)]
  BY DEF OnceInv, TypeOK
<1>3. history[p] \in Seq(Row) /\ row \in Row
  BY <1>1, <1>2
<1>4. /\ closed.status = IF row.status = "STARTED" THEN status ELSE row.status
      /\ closed.pos = row.pos /\ closed.sum = row.sum
  BY <1>3 DEF Row
<1>5. history' = [history EXCEPT ![p] = [history[p] EXCEPT ![attempt[w]] = closed]]
  BY <1>2 DEF CloseAttempt
<1>6. history'[p] = [history[p] EXCEPT ![attempt[w]] = closed]
      /\ \A q \in Path : q # p => Kept(q)
  BY <1>1, <1>2, <1>5 DEF Kept
<1>7. DOMAIN history'[p] = DOMAIN history[p] /\ Len(history'[p]) = Len(history[p])
  <2>1. history' \in [Path -> Seq(Row)]
    BY <1>1, CloseAttemptType DEF OnceInv
  <2>2. history'[p] \in Seq(Row)
    BY <1>1, <2>1
  <2>3. DOMAIN history'[p] = DOMAIN history[p]
    BY <1>6
  <2> QED
    BY <1>3, <2>2, <2>3
<1> QED
  BY <1>1, <1>3, <1>4, <1>6, <1>7
-----------------------------------------------------------------------------
\* The order of the manifest

\* The attempt of a job is open until the job closes it, and whoever has added a
\* row after it was an engineer; what a plan skips is settled and stays so; and a
\* job goes no further than the end of its plan.
OpenInv ==
  \A w \in Runner : pc[w] \notin {"idle", "deciding"} =>
    /\ history[Current(w).path][attempt[w]].status = "STARTED"
    /\ \A i \in DOMAIN history[Current(w).path] :
         i > attempt[w] => history[Current(w).path][i].status \in Terminal
KnownInv == \A w \in Runner : pc[w] # "idle" => \A p \in known[w] : Settled(p)
Passed(w) == \A i \in 1..(at[w] - 1) : Settled(Migrations(rev[w])[i].path)
ReachInv == \A w \in Runner : pc[w] # "idle" => at[w] - 1 \in 0..Size(rev[w])
OrderInv == OpenInv /\ KnownInv /\ ReachInv /\ InOrder

\* The entries a job has passed have paths,
LEMMA PassedPaths ==
  ASSUME TypeOK, ReachInv, NEW w \in Runner, pc[w] # "idle", NEW i \in 1..(at[w] - 1)
  PROVE  /\ i \in DOMAIN Migrations(rev[w])
         /\ Migrations(rev[w])[i].path \in Path
<1>1. rev[w] \in Revision /\ at[w] - 1 \in 0..Size(rev[w])
  BY DEF TypeOK, ReachInv
<1>2. DOMAIN Migrations(rev[w]) = 1..Size(rev[w]) /\ Size(rev[w]) \in Nat
  BY <1>1, ManifestEntries DEF Migrations
<1>3. i \in DOMAIN Migrations(rev[w])
  BY <1>1, <1>2
<1> QED
  BY <1>1, <1>3, MigrationsType DEF Migration

\* other than that of the entry it is at.
LEMMA PassedEntries ==
  ASSUME TypeOK, NEW w \in Runner, at[w] \in DOMAIN Migrations(rev[w]),
         NEW i \in 1..(at[w] - 1)
  PROVE  /\ i \in DOMAIN Migrations(rev[w])
         /\ Migrations(rev[w])[i].path \in Path
         /\ Migrations(rev[w])[i].path # Current(w).path
<1>1. rev[w] \in Revision /\ at[w] \in Nat \ {0}
  BY DEF TypeOK
<1>2. DOMAIN Migrations(rev[w]) = 1..Size(rev[w]) /\ Size(rev[w]) \in Nat
  BY <1>1, ManifestEntries DEF Migrations
<1>3. i \in DOMAIN Migrations(rev[w]) /\ i # at[w]
  BY <1>1, <1>2
<1> QED
  BY <1>1, <1>3, MigrationsType, MigrationsDistinct DEF Current, Migration

\* One job works at a time, so its own part of the invariant is all there is.
LEMMA OwnOrder ==
  ASSUME OnceInv, NEW w \in Runner, pc[w] # "idle",
         \A v \in Runner : v # w => pc'[v] = pc[v],
         pc'[w] \notin {"idle", "deciding"} =>
           /\ history'[Current(w)'.path][attempt'[w]].status = "STARTED"
           /\ \A i \in DOMAIN history'[Current(w)'.path] :
                i > attempt'[w] => history'[Current(w)'.path][i].status \in Terminal,
         \A p \in known'[w] : Settled(p)',
         at'[w] - 1 \in 0..Size(rev'[w]), Passed(w)'
  PROVE  OrderInv'
<1>1. \A v \in Runner : v # w => pc'[v] = "idle"
  BY DEF OnceInv, GroupInv
<1>2. OpenInv'
  <2> SUFFICES ASSUME NEW v \in Runner, pc'[v] \notin {"idle", "deciding"}
               PROVE  /\ history'[Current(v)'.path][attempt'[v]].status = "STARTED"
                      /\ \A i \in DOMAIN history'[Current(v)'.path] : i > attempt'[v] =>
                           history'[Current(v)'.path][i].status \in Terminal
    BY DEF OpenInv
  <2>1. v = w
    BY <1>1
  <2> QED
    BY <2>1
<1>3. KnownInv'
  BY <1>1 DEF KnownInv
<1>4. ReachInv'
  <2> SUFFICES ASSUME NEW v \in Runner, pc'[v] # "idle"
               PROVE  at'[v] - 1 \in 0..Size(rev'[v])
    BY DEF ReachInv
  <2>1. v = w
    BY <1>1
  <2> QED
    BY <2>1
<1>5. InOrder'
  <2> SUFFICES ASSUME NEW v \in Runner, pc'[v] # "idle"
               PROVE  Passed(v)'
    BY DEF InOrder, Passed
  <2>1. v = w
    BY <1>1
  <2> QED
    BY <2>1
<1> QED
  BY <1>2, <1>3, <1>4, <1>5 DEF OrderInv

\* An engineer's rows settle paths; Snowflake writes no row.
LEMMA OutsideOrder ==
  ASSUME OnceInv, OrderInv, UNCHANGED runnerVars,
         \A p \in Path : Kept(p) \/ Adds(p, Terminal)
  PROVE  OrderInv'
<1> USE DEF runnerVars
<1>1. TypeOK
  BY DEF OnceInv
<1>2. \A p \in Path : Settled(p) => Settled(p)'
  BY <1>1, SettledStays
<1>3. OpenInv'
  <2> SUFFICES ASSUME NEW w \in Runner, pc[w] \notin {"idle", "deciding"}
               PROVE  /\ history'[Current(w).path][attempt[w]].status = "STARTED"
                      /\ \A i \in DOMAIN history'[Current(w).path] : i > attempt[w] =>
                           history'[Current(w).path][i].status \in Terminal
    BY DEF OpenInv, Current
  <2> DEFINE p == Current(w).path
  <2>1. /\ attempt[w] \in DOMAIN history[p] /\ p \in Path
        /\ history[p][attempt[w]].status = "STARTED"
        /\ \A i \in DOMAIN history[p] : i > attempt[w] => history[p][i].status \in Terminal
    BY CurrentType DEF OnceInv, AttemptInv, OrderInv, OpenInv
  <2> HIDE DEF p
  <2>2. CASE Kept(p)
    BY <2>1, <2>2 DEF Kept, p
  <2>3. CASE Adds(p, Terminal)
    <3>1. PICK row \in Row : row.status \in Terminal /\ history'[p] = Append(history[p], row)
      BY <2>3 DEF Adds
    <3>2. history[p] \in Seq(Row)
      BY <1>1, <2>1 DEF TypeOK
    <3>3. /\ DOMAIN history'[p] = DOMAIN history[p] \cup {Len(history[p]) + 1}
          /\ history'[p][Len(history[p]) + 1] = row
          /\ \A i \in DOMAIN history[p] : history'[p][i] = history[p][i]
      BY <3>1, <3>2, AppendedRows
    <3> QED
      BY <2>1, <3>1, <3>3 DEF p
  <2> QED
    BY <2>1, <2>2, <2>3
<1>4. KnownInv'
  BY <1>1, <1>2 DEF OrderInv, KnownInv, TypeOK
<1>5. InOrder'
  <2> SUFFICES ASSUME NEW w \in Runner, pc[w] # "idle"
               PROVE  Passed(w)'
    BY DEF InOrder, Passed
  <2>1. \A i \in 1..(at[w] - 1) : Migrations(rev[w])[i].path \in Path
    BY <1>1, PassedPaths DEF OrderInv
  <2>2. Passed(w)
    BY DEF OrderInv, InOrder, Passed
  <2> QED
    BY <1>2, <2>1, <2>2 DEF Passed
<1>6. ReachInv'
  BY DEF OrderInv, ReachInv
<1> QED
  BY <1>3, <1>4, <1>5, <1>6 DEF OrderInv

\* A plan exists only if every recorded path is settled.
LEMMA StartDeploymentOrder ==
  ASSUME OnceInv, NEW w \in Runner, NEW r \in Revision, StartDeployment(w, r)
  PROVE  OrderInv'
<1> USE DEF StartDeployment
<1>1. TypeOK /\ UNCHANGED history
  BY DEF OnceInv
<1>2. /\ pc'[w] = "deciding" /\ at'[w] = 1 /\ known'[w] = {p \in Path : Recorded(p)}
      /\ \A v \in Runner : v # w => pc'[v] = "idle"
  BY <1>1 DEF TypeOK
<1>3. \A p \in Path : Recorded(p) => Settled(p)'
  BY <1>1 DEF PlanReady, Settled, Recorded, Latest
<1>4. OpenInv' /\ KnownInv' /\ InOrder'
  BY <1>2, <1>3 DEF OpenInv, KnownInv, InOrder
<1>5. Size(r) \in Nat /\ rev'[w] = r
  BY <1>1, ManifestEntries DEF TypeOK
<1>6. ReachInv'
  BY <1>2, <1>5 DEF ReachInv
<1> QED
  BY <1>4, <1>6 DEF OrderInv

\* A decision is skipped because its path was settled when the plan was made.
LEMMA SkipOrder ==
  ASSUME OnceInv, OrderInv, NEW w \in Runner, Skip(w)
  PROVE  OrderInv'
<1> USE DEF Skip
<1>1. TypeOK /\ rev[w] \in Revision /\ at[w] \in Nat \ {0}
  BY DEF OnceInv, TypeOK
<1>2. pc'[w] = "deciding" /\ at'[w] = at[w] + 1 /\ \A p \in Path : Settled(p) => Settled(p)'
  BY <1>1 DEF TypeOK, Settled, Recorded, Latest
<1>3. at'[w] - 1 \in 0..Size(rev'[w])
  BY <1>1, <1>2, ManifestEntries DEF Migrations
<1>4. \A p \in known[w] : p \in Path /\ Settled(p)
  BY <1>1 DEF OrderInv, KnownInv, TypeOK
<1>5. Passed(w)'
  <2> SUFFICES ASSUME NEW i \in 1..at[w]
               PROVE  Settled(Migrations(rev[w])[i].path)'
    BY <1>1, <1>2 DEF Passed
  <2>1. CASE i = at[w]
    BY <1>2, <1>4, <2>1 DEF Current
  <2>2. CASE i # at[w]
    <3>1. i \in 1..(at[w] - 1)
      BY <1>1, <2>2
    <3> QED
      BY <1>1, <1>2, <3>1, PassedEntries DEF OrderInv, InOrder
  <2> QED
    BY <2>1, <2>2
<1> QED
  BY <1>2, <1>3, <1>4, <1>5, OwnOrder

\* The STARTED row is the last of its path, which is none that has been passed.
LEMMA RecordStartedOrder ==
  ASSUME OnceInv, OrderInv, NEW w \in Runner, RecordStarted(w)
  PROVE  OrderInv'
<1> DEFINE p == Current(w).path
<1>1. TypeOK /\ p \in Path /\ Current(w)' = Current(w)
      /\ \A q \in Path : q # p => Kept(q)
  BY StartedRows DEF OnceInv, RecordStarted, Current
<1>2. history[p] \in Seq(Row) /\ RowOf(Current(w), "STARTED") \in Row
      /\ history'[p] = Append(history[p], RowOf(Current(w), "STARTED"))
  BY <1>1, StartedRows DEF TypeOK
<1>3. attempt'[w] = Len(history[p]) + 1
      /\ \A v \in Runner : v # w => pc'[v] = pc[v]
  BY <1>1 DEF RecordStarted, TypeOK
<1>4. history'[p][attempt'[w]].status = "STARTED"
      /\ \A i \in DOMAIN history'[p] : ~(i > attempt'[w])
  <2>1. /\ DOMAIN history'[p] = DOMAIN history[p] \cup {Len(history[p]) + 1}
        /\ history'[p][Len(history[p]) + 1] = RowOf(Current(w), "STARTED")
    BY <1>2, AppendedRows
  <2> QED
    BY <1>2, <1>3, <2>1 DEF RowOf
<1>5. ASSUME NEW q \in Path, q # p, Settled(q)
      PROVE  Settled(q)'
  BY <1>1, <1>5, SettledStays
<1>6. \A q \in known'[w] : Settled(q)'
  BY <1>1, <1>5 DEF RecordStarted, OrderInv, KnownInv, TypeOK
<1>7. Passed(w)'
  <2>1. \A i \in 1..(at[w] - 1) :
          Migrations(rev[w])[i].path \in Path /\ Migrations(rev[w])[i].path # p
    BY <1>1, PassedEntries DEF RecordStarted
  <2>2. \A i \in 1..(at[w] - 1) : Settled(Migrations(rev[w])[i].path)
    BY DEF OrderInv, InOrder, RecordStarted
  <2> QED
    BY <1>5, <2>1, <2>2 DEF Passed, RecordStarted
<1>8. at'[w] - 1 \in 0..Size(rev'[w]) /\ pc[w] # "idle"
  BY DEF OrderInv, ReachInv, RecordStarted
<1> QED
  BY <1>1, <1>3, <1>4, <1>6, <1>7, <1>8, OwnOrder

\* The submission of the file and its end write no row.
LEMMA ExecutionOrder ==
  ASSUME OnceInv, OrderInv, NEW w \in Runner,
         SubmitFile(w) \/ ExecutionSucceeds(w) \/ ExecutionFails(w)
  PROVE  OrderInv'
<1> USE DEF SubmitFile, ExecutionSucceeds, ExecutionFails
<1>1. TypeOK /\ UNCHANGED <<history, rev, at, known, attempt>> /\ Current(w)' = Current(w)
  BY DEF OnceInv, Current
<1>2. pc[w] \notin {"idle", "deciding"} /\ \A v \in Runner : v # w => pc'[v] = pc[v]
  BY <1>1 DEF TypeOK
<1>3. (\A q \in known[w] : Settled(q)') /\ Passed(w)'
  BY <1>1, <1>2 DEF OrderInv, KnownInv, InOrder, Passed, Settled, Recorded, Latest
<1> QED
  BY <1>1, <1>2, <1>3, OwnOrder DEF OrderInv, OpenInv, ReachInv

\* The success settles the path: its own row becomes SUCCEEDED, and if it is not
\* the newest, the newest is an engineer's.
LEMMA RecordSucceededOrder ==
  ASSUME OnceInv, OrderInv, NEW w \in Runner, RecordSucceeded(w)
  PROVE  OrderInv'
<1> DEFINE p == Current(w).path
<1>1. TypeOK /\ pc[w] \notin {"idle", "deciding"} /\ CloseAttempt(w, "SUCCEEDED")
      /\ at[w] \in DOMAIN Migrations(rev[w]) /\ p \notin known[w]
  BY DEF OnceInv, AttemptInv, RecordSucceeded
<1>2. /\ p \in Path /\ attempt[w] \in DOMAIN history[p]
      /\ \A q \in Path : q # p => Kept(q)
      /\ DOMAIN history'[p] = DOMAIN history[p] /\ Len(history'[p]) = Len(history[p])
      /\ \A i \in DOMAIN history[p] : i # attempt[w] => history'[p][i] = history[p][i]
  BY <1>1, ClosedRows DEF Terminal
<1>3. history[p] \in Seq(Row)
  BY <1>1, <1>2 DEF TypeOK
<1>4. history'[p][attempt[w]].status = "SUCCEEDED"
      /\ \A i \in DOMAIN history[p] : i > attempt[w] => history[p][i].status \in Terminal
  BY <1>1, ClosedRows DEF Terminal, OrderInv, OpenInv
<1>5. \A q \in Path : q = p => Settled(q)'
  <2>1. Len(history[p]) \in DOMAIN history[p] /\ attempt[w] <= Len(history[p])
        /\ attempt[w] \in Nat /\ Len(history[p]) \in Nat
    BY <1>2, <1>3
  <2>2. history'[p][Len(history[p])].status \in Terminal
    <3>1. CASE attempt[w] = Len(history[p])
      BY <1>4, <3>1 DEF Terminal
    <3>2. CASE attempt[w] # Len(history[p])
      <4>1. Len(history[p]) > attempt[w]
        BY <2>1, <3>2
      <4> QED
        BY <1>2, <1>4, <2>1, <3>2, <4>1
    <3> QED
      BY <3>1, <3>2
  <2>3. history'[p] # <<>>
    BY <1>2, <2>1
  <2> QED
    BY <1>2, <2>2, <2>3 DEF Settled, Recorded, Latest
<1>6. ASSUME NEW q \in Path, q # p, Settled(q)
      PROVE  Settled(q)'
  BY <1>1, <1>2, <1>6, SettledStays
<1>7. \A q \in known'[w] : Settled(q)'
  BY <1>1, <1>6 DEF RecordSucceeded, OrderInv, KnownInv, TypeOK
<1>8. pc'[w] = "deciding" /\ at'[w] = at[w] + 1 /\ rev' = rev
      /\ \A v \in Runner : v # w => pc'[v] = pc[v]
  BY <1>1 DEF RecordSucceeded, TypeOK
<1>9. at[w] \in Nat \ {0} /\ at'[w] - 1 \in 0..Size(rev'[w])
  BY <1>1, <1>8, ManifestEntries DEF Migrations, TypeOK
<1>10. Passed(w)'
  <2> SUFFICES ASSUME NEW i \in 1..at[w]
               PROVE  Settled(Migrations(rev[w])[i].path)'
    BY <1>8, <1>9 DEF Passed
  <2>1. CASE i = at[w]
    BY <1>2, <1>5, <1>8, <2>1 DEF Current
  <2>2. CASE i # at[w]
    <3>1. i \in 1..(at[w] - 1)
      BY <1>9, <2>2
    <3>2. Migrations(rev[w])[i].path \in Path /\ Migrations(rev[w])[i].path # p
      BY <1>1, <3>1, PassedEntries
    <3>3. Settled(Migrations(rev[w])[i].path)
      BY <1>1, <3>1 DEF OrderInv, InOrder
    <3> QED
      BY <1>6, <1>8, <3>2, <3>3
  <2> QED
    BY <2>1, <2>2
<1> QED
  BY <1>1, <1>7, <1>8, <1>9, <1>10, OwnOrder

\* A job that is gone leaves no order to keep.
LEMMA JobEndsOrder ==
  ASSUME OnceInv, NEW w \in Runner, pc[w] # "idle", JobEnds(w)
  PROVE  OrderInv'
<1>1. \A v \in Runner : pc'[v] = "idle"
  BY DEF OnceInv, TypeOK, GroupInv, JobEnds
<1> QED
  BY <1>1 DEF OrderInv, OpenInv, KnownInv, ReachInv, InOrder

\* OrderInv is inductive with OnceInv: one step per action of Next.
LEMMA OrderNext == OnceInv /\ OrderInv /\ [Next]_vars => OrderInv'
<1> SUFFICES ASSUME OnceInv, OrderInv, [Next]_vars PROVE OrderInv'
  OBVIOUS
<1>1. CASE UNCHANGED vars
  BY <1>1, OutsideOrder DEF vars, runnerVars, Kept
<1>2. ASSUME NEW w \in Runner, NEW r \in Revision, StartDeployment(w, r)
      PROVE  OrderInv'
  BY <1>2, StartDeploymentOrder
<1>3. ASSUME NEW w \in Runner, Proceed(w)
      PROVE  OrderInv'
  <2>1. CASE RecordFailed(w) \/ FinishDeployment(w)
    BY <2>1, JobEndsOrder DEF RecordFailed, FinishDeployment
  <2> QED
    BY <1>3, <2>1, SkipOrder, RecordStartedOrder, ExecutionOrder, RecordSucceededOrder
       DEF Proceed
<1>4. ASSUME NEW w \in Runner, Crash(w)
      PROVE  OrderInv'
  BY <1>4, JobEndsOrder DEF Crash
<1>5. ASSUME NEW p \in Path, SnowflakeEnds(p)
      PROVE  OrderInv'
  BY <1>5, OutsideOrder DEF SnowflakeEnds, Kept
<1>6. ASSUME NEW e \in Engineer, Operate(e)
      PROVE  OrderInv'
  <2>1. TypeOK
    BY DEF OnceInv
  <2>2. UNCHANGED runnerVars /\ \A p \in Path : Kept(p) \/ Adds(p, {"BASELINED", "REMEDIATED"})
    BY <1>6, <2>1, EngineerRows
  <2>3. \A p \in Path : Adds(p, {"BASELINED", "REMEDIATED"}) => Adds(p, Terminal)
    BY DEF Adds, Terminal
  <2> QED
    BY <2>2, <2>3, OutsideOrder
<1> QED
  BY <1>1, <1>2, <1>3, <1>4, <1>5, <1>6 DEF Next

-----------------------------------------------------------------------------
\* The truth of a success

\* A file that was not sent has not run, and the job that is about to record a
\* success has seen its file run to the end.
FileInv == \A p \in Path : sent[p] = 0 => file[p] = "unsent"
AppliedInv == \A w \in Runner : pc[w] = "applied" => file[Current(w).path] = "full"
RealInv == FileInv /\ AppliedInv /\ SuccessIsReal

\* What has run to the end stays so: no file is sent again.
LEMMA FullStays ==
  ASSUME OnceInv, FileInv, [Next]_vars
  PROVE  /\ FileInv'
         /\ \A p \in Path : file[p] = "full" => file'[p] = "full"
<1>1. CASE UNCHANGED <<file, sent>>
  BY <1>1 DEF FileInv
<1>2. ASSUME NEW w \in Runner, SubmitFile(w)
      PROVE  FileInv' /\ \A p \in Path : file[p] = "full" => file'[p] = "full"
  <2>1. TypeOK /\ at[w] \in DOMAIN Migrations(rev[w])
    BY <1>2 DEF OnceInv, AttemptInv, SubmitFile
  <2>2. sent[Current(w).path] = 0 /\ Current(w).path \in Path
    BY <1>2, <2>1, CurrentType, MigrationsType
       DEF OnceInv, AttemptInv, UnsentInv, ToSend, Current, SubmitFile
  <2>3. file[Current(w).path] = "unsent"
    BY <2>2 DEF FileInv
  <2>4. sent'[Current(w).path] = 1
        /\ \A p \in Path : p # Current(w).path => file'[p] = file[p] /\ sent'[p] = sent[p]
    BY <1>2, <2>1, <2>2 DEF SubmitFile, TypeOK
  <2> QED
    BY <2>3, <2>4 DEF FileInv
<1>3. ASSUME NEW p \in Path, SnowflakeEnds(p)
      PROVE  FileInv' /\ \A q \in Path : file[q] = "full" => file'[q] = "full"
  BY <1>3 DEF SnowflakeEnds, FileInv, OnceInv, TypeOK
<1>4. ASSUME NEW e \in Engineer, Operate(e)
      PROVE  UNCHANGED <<file, sent>>
  BY <1>4 DEF Operate, CheckBaseline, RecordBaseline, CheckResolve, RecordResolve, Abandon
<1> QED
  BY <1>1, <1>2, <1>3, <1>4
     DEF Next, vars, StartDeployment, Proceed, Skip, RecordStarted, ExecutionSucceeds,
         ExecutionFails, RecordSucceeded, RecordFailed, FinishDeployment, Crash

\* Rows that claim no execution, or none at all, are no lie.
LEMMA RowsStayReal ==
  ASSUME TypeOK, NEW p \in Path,
         \A i \in DOMAIN history[p] : history[p][i].status = "SUCCEEDED" => file[p] = "full",
         file[p] = "full" => file'[p] = "full",
         Kept(p) \/ Adds(p, {"BASELINED", "REMEDIATED", "STARTED"})
  PROVE  \A i \in DOMAIN history'[p] : history'[p][i].status = "SUCCEEDED" => file'[p] = "full"
<1>1. CASE Kept(p)
  BY <1>1 DEF Kept
<1>2. CASE Adds(p, {"BASELINED", "REMEDIATED", "STARTED"})
  <2>1. PICK row \in Row : /\ row.status \in {"BASELINED", "REMEDIATED", "STARTED"}
                           /\ history'[p] = Append(history[p], row)
    BY <1>2 DEF Adds
  <2>2. history[p] \in Seq(Row)
    BY DEF TypeOK
  <2>3. /\ DOMAIN history'[p] = DOMAIN history[p] \cup {Len(history[p]) + 1}
        /\ history'[p][Len(history[p]) + 1] = row
        /\ \A i \in DOMAIN history[p] : history'[p][i] = history[p][i]
    BY <2>1, <2>2, AppendedRows
  <2> QED
    BY <2>1, <2>3
<1> QED
  BY <1>1, <1>2

\* SUCCEEDED is written by a job that has seen its file run to the end.
LEMMA SuccessStep ==
  ASSUME OnceInv, RealInv, [Next]_vars
  PROVE  SuccessIsReal'
<1> SUFFICES ASSUME NEW p \in Path
             PROVE  \A i \in DOMAIN history'[p] :
                      history'[p][i].status = "SUCCEEDED" => file'[p] = "full"
  BY DEF SuccessIsReal
<1>1. /\ TypeOK
      /\ file[p] = "full" => file'[p] = "full"
      /\ \A i \in DOMAIN history[p] : history[p][i].status = "SUCCEEDED" => file[p] = "full"
  BY FullStays DEF OnceInv, RealInv, SuccessIsReal
<1>2. CASE Kept(p) \/ Adds(p, {"BASELINED", "REMEDIATED", "STARTED"})
  BY <1>1, <1>2, RowsStayReal
<1>3. ASSUME NEW w \in Runner, RecordStarted(w)
      PROVE  Kept(p) \/ Adds(p, {"BASELINED", "REMEDIATED", "STARTED"})
  <2>1. RowOf(Current(w), "STARTED").status = "STARTED"
    BY DEF RowOf
  <2> QED
    BY <1>3, <2>1, StartedRows DEF Adds
<1>4. ASSUME NEW w \in Runner, RecordSucceeded(w)
      PROVE  Kept(p) \/ file[p] = "full"
  <2>1. p # Current(w).path => Kept(p)
    BY <1>4, ClosedRows DEF RecordSucceeded, Terminal
  <2> QED
    BY <1>4, <2>1 DEF RecordSucceeded, RealInv, AppliedInv
<1>5. ASSUME NEW w \in Runner, RecordFailed(w)
      PROVE  \A i \in DOMAIN history'[p] :
               history'[p][i].status = "SUCCEEDED" => file'[p] = "full"
  <2>1. CASE Kept(p)
    BY <1>2, <2>1
  <2>2. CASE p = Current(w).path
    <3>1. /\ pc[w] \notin {"idle", "deciding"} /\ CloseAttempt(w, "FAILED")
          /\ "FAILED" \in Terminal \cup Blocking
      BY <1>5 DEF RecordFailed, Blocking
    <3>2. /\ DOMAIN history'[p] = DOMAIN history[p]
          /\ \A i \in DOMAIN history[p] : i # attempt[w] => history'[p][i] = history[p][i]
          /\ history'[p][attempt[w]].status =
               IF history[p][attempt[w]].status = "STARTED"
                 THEN "FAILED" ELSE history[p][attempt[w]].status
      BY <2>2, <3>1, ClosedRows
    <3> QED
      BY <1>1, <3>2
  <2> QED
    BY <1>5, <2>1, <2>2, ClosedRows DEF RecordFailed, Blocking
<1>6. ASSUME NEW e \in Engineer, Operate(e)
      PROVE  Kept(p) \/ Adds(p, {"BASELINED", "REMEDIATED", "STARTED"})
  <2>1. Kept(p) \/ Adds(p, {"BASELINED", "REMEDIATED"})
    BY <1>1, <1>6, EngineerRows
  <2> QED
    BY <2>1 DEF Adds
<1>7. ASSUME UNCHANGED history
      PROVE  Kept(p)
  BY <1>7 DEF Kept
<1>8. ASSUME file[p] = "full"
      PROVE  \A i \in DOMAIN history'[p] :
               history'[p][i].status = "SUCCEEDED" => file'[p] = "full"
  BY <1>1, <1>8
<1> QED
  BY <1>2, <1>3, <1>4, <1>5, <1>6, <1>7, <1>8
     DEF Next, vars, StartDeployment, Proceed, Skip, SubmitFile, ExecutionSucceeds,
         ExecutionFails, FinishDeployment, Crash, SnowflakeEnds

\* A job gets to "applied" by a file that has run to the end, and stays at it.
LEMMA AppliedStep ==
  ASSUME OnceInv, RealInv, [Next]_vars
  PROVE  AppliedInv'
<1> SUFFICES ASSUME NEW w \in Runner, pc'[w] = "applied"
             PROVE  file'[Current(w)'.path] = "full"
  BY DEF AppliedInv
<1>1. TypeOK /\ \A p \in Path : file[p] = "full" => file'[p] = "full"
  BY FullStays DEF OnceInv, RealInv
<1>2. ASSUME ExecutionSucceeds(w)
      PROVE  file'[Current(w)'.path] = "full"
  BY <1>2 DEF ExecutionSucceeds, Current
<1>3. ASSUME pc[w] = "applied", rev'[w] = rev[w], at'[w] = at[w]
      PROVE  file'[Current(w)'.path] = "full"
  <2>1. Current(w).path \in Path /\ Current(w)' = Current(w)
    BY <1>1, <1>3, CurrentType DEF OnceInv, AttemptInv, Current
  <2> QED
    BY <1>1, <1>3, <2>1 DEF RealInv, AppliedInv
<1>4. ASSUME UNCHANGED runnerVars
      PROVE  pc[w] = "applied" /\ rev'[w] = rev[w] /\ at'[w] = at[w]
  BY <1>4 DEF runnerVars
<1>5. ASSUME NEW v \in Runner, Proceed(v) \/ Crash(v)
      PROVE  ExecutionSucceeds(w) \/ (pc[w] = "applied" /\ rev'[w] = rev[w] /\ at'[w] = at[w])
  <2>1. CASE v = w
    BY <1>1, <1>5, <2>1
       DEF Proceed, Crash, JobEnds, Skip, RecordStarted, SubmitFile, ExecutionSucceeds,
           ExecutionFails, RecordSucceeded, RecordFailed, FinishDeployment, TypeOK
  <2>2. CASE v # w
    BY <1>1, <1>5, <2>2
       DEF Proceed, Crash, JobEnds, Skip, RecordStarted, SubmitFile, ExecutionSucceeds,
           ExecutionFails, RecordSucceeded, RecordFailed, FinishDeployment, TypeOK
  <2> QED
    BY <2>1, <2>2
<1>6. ASSUME NEW v \in Runner, NEW r \in Revision, StartDeployment(v, r)
      PROVE  FALSE
  BY <1>1, <1>6 DEF StartDeployment, TypeOK
<1>7. ASSUME NEW e \in Engineer, Operate(e)
      PROVE  UNCHANGED runnerVars
  BY <1>1, <1>7, EngineerRows
<1> QED
  BY <1>2, <1>3, <1>4, <1>5, <1>6, <1>7 DEF Next, vars, SnowflakeEnds, runnerVars

\* RealInv is inductive with OnceInv.
LEMMA RealNext == OnceInv /\ RealInv /\ [Next]_vars => RealInv'
  BY FullStays, SuccessStep, AppliedStep DEF RealInv

-----------------------------------------------------------------------------
\* The sequence of a scope

\* Where an entry stands in the manifests: its scope is that of its path,
LEMMA EntryPlace ==
  ASSUME NEW r \in Revision, NEW i \in DOMAIN Migrations(r)
  PROVE  /\ Migrations(r)[i].pos = PositionAt(r, i)
         /\ Migrations(r)[i].path \in Path
         /\ Migrations(r)[i].path \in ControlPath <=> IsControl(r, i)
<1>1. i \in 1..Size(r) /\ Migrations(r)[i].pos = PositionAt(r, i)
      /\ Migrations(r)[i].path = PathAt(r, i)
  BY DEF Migrations
<1> QED
  BY <1>1, ManifestEntries, ManifestAssumption

\* no two entries of a scope have one position,
LEMMA OnePlace ==
  ASSUME NEW r \in Revision,
         NEW i \in DOMAIN Migrations(r), NEW j \in DOMAIN Migrations(r),
         Migrations(r)[i].pos = Migrations(r)[j].pos,
         Migrations(r)[i].path \in ControlPath <=> Migrations(r)[j].path \in ControlPath
  PROVE  i = j
<1>1. /\ PositionAt(r, i) = PositionAt(r, j)
      /\ IsControl(r, i) <=> IsControl(r, j)
  BY EntryPlace
<1>2. i \in Nat /\ j \in Nat /\ Len(ControlManifest[r]) \in Nat
  BY MigrationsType, ManifestEntries
<1> QED
  BY <1>1, <1>2 DEF PositionAt

\* and before every entry but the first of a scope stands one of that scope.
LEMMA PlaceBefore ==
  ASSUME NEW r \in Revision, NEW i \in DOMAIN Migrations(r), Migrations(r)[i].pos > 1
  PROVE  /\ i - 1 \in DOMAIN Migrations(r)
         /\ Migrations(r)[i - 1].pos = Migrations(r)[i].pos - 1
         /\ Migrations(r)[i - 1].path \in ControlPath <=> Migrations(r)[i].path \in ControlPath
<1>1. /\ i \in 1..Size(r) /\ Size(r) \in Nat /\ Len(ControlManifest[r]) \in Nat
      /\ DOMAIN Migrations(r) = 1..Size(r) /\ PositionAt(r, i) > 1
  BY ManifestEntries, EntryPlace DEF Migrations
<1>2. /\ i - 1 \in 1..Size(r) /\ (IsControl(r, i - 1) <=> IsControl(r, i))
      /\ PositionAt(r, i - 1) = PositionAt(r, i) - 1
  BY <1>1 DEF PositionAt, IsControl
<1> QED
  BY <1>1, <1>2, EntryPlace

\* Nobody baselines while another baseline is between its check and its insert.
BaselinesApart ==
  \A e, other \in Engineer :
    command[e].kind = "baseline" /\ command[other].kind = "baseline" => e = other

\* A baseline is checked, and recorded, in an environment without a history, which
\* no job has begun to deploy to.
AdoptInv ==
  /\ legacy /\ HistoryEmpty => \A w \in Runner : pc[w] = "idle"
  /\ \A e \in Engineer : command[e].kind = "baseline" => legacy /\ HistoryEmpty

\* A review is of a recorded attempt at the same file, and what is newer than the
\* open attempt of a job is a review.
ReviewInv ==
  /\ \A e \in Engineer : command[e].kind = "resolve" =>
       /\ Recorded(command[e].entry.path)
       /\ Matches(command[e].entry, Latest(command[e].entry.path))
  /\ \A w \in Runner : pc[w] \notin {"idle", "deciding"} =>
       \A i \in DOMAIN history[Current(w).path] :
         i > attempt[w] => history[Current(w).path][i].status = "REMEDIATED"

\* While a job works, what is recorded is what its manifests say, and what it has
\* yet to record is not.
Ahead(w) ==
  {i \in DOMAIN Migrations(rev[w]) :
     /\ Migrations(rev[w])[i].path \notin known[w]
     /\ i > at[w] \/ (i = at[w] /\ pc[w] = "deciding")}
PlanInv ==
  \A w \in Runner : pc[w] # "idle" =>
    /\ \A p \in Path : Recorded(p) => InManifestAs(p, rev[w], Latest(p))
    /\ \A i \in Ahead(w) : ~Recorded(Migrations(rev[w])[i].path)
LockInv == FileInv /\ AdoptInv /\ ReviewInv /\ PlanInv /\ SequenceLocked

\* A step that records no new path, and writes only rows for the file that a path
\* was recorded with, leaves every sequence as it is.
SameFiles ==
  \A p \in Path :
    /\ Recorded(p)' <=> Recorded(p)
    /\ Recorded(p) => Latest(p)'.pos = Latest(p).pos /\ Latest(p)'.sum = Latest(p).sum
    /\ \A i \in DOMAIN history'[p] :
         history'[p][i].pos = Latest(p).pos /\ history'[p][i].sum = Latest(p).sum

LEMMA SequenceStays ==
  ASSUME TypeOK, SequenceLocked, SameFiles
  PROVE  SequenceLocked'
<1>1. \A p \in Path : \A i \in DOMAIN history'[p] : Recorded(p)
  BY DEF SameFiles, Recorded, TypeOK
<1>2. \A p \in Path : \A i \in DOMAIN history'[p] : Matches(history'[p][i], Latest(p)')
  BY <1>1 DEF SameFiles, Matches
<1>3. ASSUME NEW scope \in Scopes
      PROVE  RecordedIn(scope)' = RecordedIn(scope) /\ RecordedIn(scope) \subseteq Path
  BY <1>3, ManifestAssumption DEF Scopes, RecordedIn, SameFiles
<1>4. ASSUME NEW scope \in Scopes, NEW p \in RecordedIn(scope)
      PROVE  Latest(p)'.pos = Latest(p).pos
  BY <1>3, <1>4 DEF SameFiles, RecordedIn
<1>5. ASSUME NEW scope \in Scopes, NEW p \in RecordedIn(scope)'
      PROVE  /\ \A q \in RecordedIn(scope)' : Latest(p)'.pos = Latest(q)'.pos => p = q
             /\ Latest(p)'.pos > 1 =>
                  \E q \in RecordedIn(scope)' : Latest(q)'.pos = Latest(p)'.pos - 1
  BY <1>3, <1>4 DEF SequenceLocked
<1> QED
  BY <1>2, <1>5 DEF SequenceLocked

LEMMA KeptFiles ==
  ASSUME TypeOK, SequenceLocked, UNCHANGED history
  PROVE  SameFiles
  BY DEF SameFiles, Recorded, Latest, SequenceLocked, Matches

LEMMA ClosedFiles ==
  ASSUME OnceInv, SequenceLocked, NEW w \in Runner, pc[w] \notin {"idle", "deciding"},
         NEW status \in Terminal \cup Blocking, CloseAttempt(w, status)
  PROVE  SameFiles
<1> SUFFICES ASSUME NEW p \in Path
             PROVE  /\ history'[p] # <<>> <=> history[p] # <<>>
                    /\ Recorded(p) => /\ history'[p][Len(history'[p])].pos = Latest(p).pos
                                      /\ history'[p][Len(history'[p])].sum = Latest(p).sum
                    /\ \A i \in DOMAIN history'[p] :
                         history'[p][i].pos = Latest(p).pos /\ history'[p][i].sum = Latest(p).sum
  BY DEF SameFiles, Recorded, Latest
<1>1. \A i \in DOMAIN history[p] :
        history[p][i].pos = Latest(p).pos /\ history[p][i].sum = Latest(p).sum
  BY DEF SequenceLocked, Matches
<1>2. history[p] \in Seq(Row)
  BY DEF OnceInv, TypeOK
<1>3. CASE p # Current(w).path
  <2>1. history'[p] = history[p]
    BY <1>3, ClosedRows DEF Kept
  <2> QED
    BY <1>1, <2>1 DEF Latest
<1>4. CASE p = Current(w).path
  <2>1. /\ DOMAIN history'[p] = DOMAIN history[p] /\ Len(history'[p]) = Len(history[p])
        /\ attempt[w] \in DOMAIN history[p]
        /\ \A i \in DOMAIN history[p] :
             history'[p][i].pos = history[p][i].pos /\ history'[p][i].sum = history[p][i].sum
    BY <1>4, ClosedRows
  <2>2. Len(history[p]) \in DOMAIN history[p] /\ history[p] # <<>> /\ history'[p] # <<>>
    BY <1>2, <2>1
  <2> QED
    BY <1>1, <2>1, <2>2
<1> QED
  BY <1>3, <1>4

LEMMA ReviewedFiles ==
  ASSUME OnceInv, SequenceLocked, ReviewInv, NEW e \in Engineer, RecordResolve(e)
  PROVE  SameFiles
<1> DEFINE m == command[e].entry
           row == RowOf(m, "REMEDIATED")
<1>1. /\ m \in Migration /\ m.path \in Path /\ Recorded(m.path)
      /\ m.pos = Latest(m.path).pos /\ m.sum = Latest(m.path).sum
  BY CommandType DEF OnceInv, RecordResolve, TypeOK, ReviewInv, Matches, Migration
<1>2. /\ row \in Row /\ row.pos = m.pos /\ row.sum = m.sum
      /\ history' = [history EXCEPT ![m.path] = Append(history[m.path], row)]
  BY <1>1 DEF RowOf, Row, Migration, Terminal, RecordResolve, AddRow
<1> HIDE DEF m, row
<1> SUFFICES ASSUME NEW p \in Path
             PROVE  /\ history'[p] # <<>> <=> history[p] # <<>>
                    /\ Recorded(p) => /\ history'[p][Len(history'[p])].pos = Latest(p).pos
                                      /\ history'[p][Len(history'[p])].sum = Latest(p).sum
                    /\ \A i \in DOMAIN history'[p] :
                         history'[p][i].pos = Latest(p).pos /\ history'[p][i].sum = Latest(p).sum
  BY DEF SameFiles, Recorded, Latest
<1>3. /\ history \in [Path -> Seq(Row)]
      /\ \A i \in DOMAIN history[p] :
           history[p][i].pos = Latest(p).pos /\ history[p][i].sum = Latest(p).sum
  BY DEF OnceInv, TypeOK, SequenceLocked, Matches
<1>4. CASE p # m.path
  <2>1. history'[p] = history[p]
    BY <1>2, <1>3, <1>4
  <2> QED
    BY <1>3, <2>1 DEF Latest
<1>5. CASE p = m.path
  <2>1. history'[p] = Append(history[p], row) /\ history[p] \in Seq(Row)
    BY <1>1, <1>2, <1>3, <1>5
  <2> QED
    BY <1>1, <1>2, <1>3, <1>5, <2>1, AppendedRows DEF Recorded
<1> QED
  BY <1>4, <1>5

\* Only a STARTED row and a baseline record paths that were not recorded.
LEMMA HistorySteps ==
  ASSUME OnceInv, LockInv, [Next]_vars
  PROVE  \/ SameFiles
         \/ \E w \in Runner : RecordStarted(w)
         \/ \E e \in Engineer : RecordBaseline(e)
<1>1. TypeOK /\ SequenceLocked /\ ReviewInv
  BY DEF OnceInv, LockInv
<1>2. CASE UNCHANGED history
  BY <1>1, <1>2, KeptFiles
<1>3. ASSUME NEW w \in Runner, RecordSucceeded(w) \/ RecordFailed(w)
      PROVE  SameFiles
  <2>1. /\ pc[w] \notin {"idle", "deciding"}
        /\ CloseAttempt(w, "SUCCEEDED") \/ CloseAttempt(w, "FAILED")
    BY <1>3 DEF RecordSucceeded, RecordFailed
  <2> QED
    BY <1>1, <2>1, ClosedFiles DEF Terminal, Blocking
<1>4. ASSUME NEW e \in Engineer, RecordResolve(e)
      PROVE  SameFiles
  BY <1>1, <1>4, ReviewedFiles
<1> QED
  BY <1>2, <1>3, <1>4
     DEF Next, vars, StartDeployment, Proceed, Skip, SubmitFile, ExecutionSucceeds,
         ExecutionFails, FinishDeployment, Crash, SnowflakeEnds, Operate, CheckBaseline,
         CheckResolve, Abandon

\* While a job works nobody is about to record a baseline.
LEMMA NoBaseline ==
  ASSUME LockInv, NEW w \in Runner, pc[w] # "idle", NEW e \in Engineer
  PROVE  command[e].kind # "baseline"
  BY DEF LockInv, AdoptInv

\* A job that works was started now, or has the same work or less ahead of it.
LEMMA AheadShrinks ==
  ASSUME OnceInv, [Next]_vars, NEW w \in Runner, pc'[w] # "idle"
  PROVE  \/ \E r \in Revision : StartDeployment(w, r)
         \/ pc[w] # "idle" /\ rev'[w] = rev[w] /\ Ahead(w)' \subseteq Ahead(w)
<1>1. TypeOK
  BY DEF OnceInv
<1>2. ASSUME pc[w] # "idle", pc'[w] = pc[w], UNCHANGED <<rev, at, known>>
      PROVE  rev'[w] = rev[w] /\ Ahead(w)' \subseteq Ahead(w)
  BY <1>2 DEF Ahead
<1>3. ASSUME NEW v \in Runner, Proceed(v) \/ Crash(v)
      PROVE  pc[w] # "idle" /\ rev'[w] = rev[w] /\ Ahead(w)' \subseteq Ahead(w)
  <2>1. v = w
    <3>1. pc[v] # "idle"
      BY <1>3 DEF Proceed, Crash, Skip, RecordStarted, SubmitFile, ExecutionSucceeds,
                  ExecutionFails, RecordSucceeded, RecordFailed, FinishDeployment
    <3>2. v # w => pc'[w] = pc[w]
      BY <1>1, <1>3
         DEF Proceed, Crash, JobEnds, Skip, RecordStarted, SubmitFile, ExecutionSucceeds,
             ExecutionFails, RecordSucceeded, RecordFailed, FinishDeployment, TypeOK
    <3> QED
      BY <3>1, <3>2 DEF OnceInv, GroupInv
  <2>2. /\ pc[w] # "idle" /\ UNCHANGED <<rev, known>>
        /\ \/ at'[w] = at[w] /\ (pc'[w] = "deciding" => pc[w] = "deciding")
           \/ at'[w] = at[w] + 1
    BY <1>1, <1>3, <2>1
       DEF Proceed, Crash, JobEnds, Skip, RecordStarted, SubmitFile, ExecutionSucceeds,
           ExecutionFails, RecordSucceeded, RecordFailed, FinishDeployment, TypeOK
  <2>3. rev[w] \in Revision /\ at[w] \in Nat
    BY <1>1 DEF TypeOK
  <2> QED
    BY <2>2, <2>3, MigrationsType DEF Ahead
<1>4. ASSUME UNCHANGED runnerVars
      PROVE  pc[w] # "idle" /\ rev'[w] = rev[w] /\ Ahead(w)' \subseteq Ahead(w)
  BY <1>2, <1>4 DEF runnerVars
<1>5. ASSUME NEW v \in Runner, NEW r \in Revision, StartDeployment(v, r)
      PROVE  v = w
  BY <1>1, <1>5 DEF StartDeployment, TypeOK
<1>6. ASSUME NEW e \in Engineer, Operate(e)
      PROVE  UNCHANGED runnerVars
  BY <1>1, <1>6, EngineerRows
<1> QED
  BY <1>3, <1>4, <1>5, <1>6 DEF Next, vars, runnerVars, SnowflakeEnds

\* What is recorded stays recorded.
LEMMA RecordsStay ==
  ASSUME OnceInv, LockInv, [Next]_vars, NEW p \in Path, Recorded(p)
  PROVE  Recorded(p)'
<1>1. TypeOK /\ history[p] \in Seq(Row)
  BY DEF OnceInv, TypeOK
<1>2. CASE SameFiles
  BY <1>2 DEF SameFiles
<1>3. ASSUME NEW w \in Runner, RecordStarted(w)
      PROVE  Recorded(p)'
  BY <1>1, <1>3, StartedRows, AppendedRows DEF Recorded, Kept
<1>4. ASSUME NEW e \in Engineer, RecordBaseline(e)
      PROVE  Recorded(p)'
  BY <1>1, <1>4, EngineerRows, AppendedRows DEF Recorded, Kept, Adds, Operate
<1> QED
  BY <1>2, <1>3, <1>4, HistorySteps

\* What an engineer is about to record changes only by an engineer's step.
LEMMA CommandSteps ==
  ASSUME OnceInv, [Next]_vars, NEW e \in Engineer, command'[e] # NoCommand
  PROVE  /\ ~RecordBaseline(e) /\ ~RecordResolve(e)
         /\ \/ command'[e] = command[e]
            \/ \E r \in Revision : /\ CheckBaseline(e, r) /\ UNCHANGED history
                                   /\ command'[e].kind = "baseline"
            \/ \E r \in Revision, p \in Path :
                 /\ CheckResolve(e, r, p) /\ UNCHANGED history
                 /\ command'[e] = [kind |-> "resolve", entry |-> EntryOf(p, r)]
<1>1. TypeOK
  BY DEF OnceInv
<1>2. ~RecordBaseline(e) /\ ~RecordResolve(e) /\ ~Abandon(e)
  BY <1>1 DEF RecordBaseline, RecordResolve, Abandon, TypeOK
<1>3. ASSUME NEW other \in Engineer \ {e}, Operate(other)
      PROVE  command'[e] = command[e]
  BY <1>1, <1>3 DEF Operate, CheckBaseline, RecordBaseline, CheckResolve, RecordResolve,
                    Abandon, TypeOK
<1>4. ASSUME NEW r \in Revision, CheckBaseline(e, r)
      PROVE  UNCHANGED history /\ command'[e].kind = "baseline"
  BY <1>1, <1>4 DEF CheckBaseline, TypeOK
<1>5. ASSUME NEW r \in Revision, NEW p \in Path, CheckResolve(e, r, p)
      PROVE  UNCHANGED history /\ command'[e] = [kind |-> "resolve", entry |-> EntryOf(p, r)]
  BY <1>1, <1>5 DEF CheckResolve, TypeOK
<1>6. \/ UNCHANGED command
      \/ \E other \in Engineer : Operate(other)
  BY DEF Next, vars, StartDeployment, Proceed, Skip, RecordStarted, SubmitFile,
         ExecutionSucceeds, ExecutionFails, RecordSucceeded, RecordFailed,
         FinishDeployment, Crash, SnowflakeEnds
<1> QED
  BY <1>2, <1>3, <1>4, <1>5, <1>6 DEF Operate

\* A baseline stays alone with the environment it was checked in.
LEMMA AdoptStep ==
  ASSUME BaselinesApart, OnceInv, LockInv, [Next]_vars
  PROVE  AdoptInv'
<1>1. HistoryEmpty' => HistoryEmpty
  BY RecordsStay DEF HistoryEmpty
<1>2. UNCHANGED legacy
  BY DEF Next, vars, StartDeployment, Proceed, Skip, RecordStarted, SubmitFile,
         ExecutionSucceeds, ExecutionFails, RecordSucceeded, RecordFailed,
         FinishDeployment, Crash, SnowflakeEnds, Operate, CheckBaseline, RecordBaseline,
         CheckResolve, RecordResolve, Abandon
<1>3. ASSUME legacy, HistoryEmpty', NEW w \in Runner, pc'[w] # "idle"
      PROVE  FALSE
  <2>1. HistoryEmpty /\ pc[w] = "idle"
    BY <1>1, <1>3 DEF LockInv, AdoptInv
  <2>2. PICK r \in Revision : StartDeployment(w, r)
    BY <1>3, <2>1, AheadShrinks
  <2> QED
    BY <1>3, <2>1, <2>2 DEF StartDeployment, ManagedObjects
<1>4. ASSUME NEW e \in Engineer, command'[e].kind = "baseline"
      PROVE  legacy /\ HistoryEmpty'
  <2>1. command'[e] # NoCommand /\ ~RecordBaseline(e)
    BY <1>4, CommandSteps DEF NoCommand
  <2>2. CASE command'[e] = command[e]
    <3>1. legacy /\ HistoryEmpty /\ \A w \in Runner : pc[w] = "idle"
      BY <1>4, <2>2 DEF LockInv, AdoptInv
    <3>2. \A other \in Engineer : ~RecordBaseline(other)
      BY <1>4, <2>1, <2>2 DEF BaselinesApart, RecordBaseline
    <3>3. SameFiles
      BY <3>1, <3>2, HistorySteps DEF RecordStarted
    <3> QED
      BY <3>1, <3>3 DEF SameFiles, HistoryEmpty
  <2>3. ASSUME NEW r \in Revision, CheckBaseline(e, r), UNCHANGED history
        PROVE  legacy /\ HistoryEmpty'
    <3>1. HistoryEmpty /\ ManagedObjects
      BY <2>3 DEF CheckBaseline
    <3>2. \A p \in Path : sent[p] = 0
      BY <3>1 DEF OnceInv, SentInv, HistoryEmpty
    <3>3. legacy
      BY <3>1, <3>2 DEF ManagedObjects, LockInv, FileInv
    <3> QED
      BY <2>3, <3>1, <3>3 DEF HistoryEmpty, Recorded
  <2>4. ASSUME NEW r \in Revision, NEW p \in Path,
               command'[e] = [kind |-> "resolve", entry |-> EntryOf(p, r)]
        PROVE  FALSE
    BY <1>4, <2>4
  <2> QED
    BY <2>1, <2>2, <2>3, <2>4, CommandSteps
<1> QED
  BY <1>2, <1>3, <1>4 DEF AdoptInv

\* The STARTED row is the first of its path.
LEMMA StartedFirst ==
  ASSUME OnceInv, LockInv, NEW w \in Runner, RecordStarted(w)
  PROVE  /\ Current(w).path \in Path /\ ~Recorded(Current(w).path)
         /\ history'[Current(w).path] # <<>>
         /\ \A i \in DOMAIN history'[Current(w).path] :
              history'[Current(w).path][i] = RowOf(Current(w), "STARTED")
         /\ history'[Current(w).path][Len(history'[Current(w).path])] =
              RowOf(Current(w), "STARTED")
<1> DEFINE p == Current(w).path
           row == RowOf(Current(w), "STARTED")
<1>1. p \in Path /\ row \in Row /\ history'[p] = Append(history[p], row)
  BY StartedRows
<1>2. at[w] \in Ahead(w)
  BY DEF RecordStarted, Ahead, Current
<1>3. ~Recorded(p)
  BY <1>2 DEF LockInv, PlanInv, RecordStarted, Current
<1>4. /\ DOMAIN history'[p] = {1} /\ Len(history'[p]) = 1
      /\ history'[p][1] = row /\ history'[p] # <<>>
  <2>1. history[p] = <<>> /\ <<>> \in Seq(Row) /\ Len(<<>>) = 0 /\ DOMAIN <<>> = {}
    BY <1>3 DEF Recorded
  <2> QED
    BY <1>1, <2>1, AppendedRows
<1> HIDE DEF row
<1> QED
  BY <1>1, <1>3, <1>4 DEF row, Recorded

\* A job's attempt begins with its STARTED row; until the job closes it, rows are
\* added by reviews only.
LEMMA AttemptKept ==
  ASSUME OnceInv, LockInv, [Next]_vars, NEW w \in Runner,
         pc'[w] \notin {"idle", "deciding"}, ~RecordStarted(w)
  PROVE  /\ pc[w] \notin {"idle", "deciding"} /\ Current(w)' = Current(w)
         /\ attempt'[w] = attempt[w]
         /\ \/ UNCHANGED history
            \/ \E e \in Engineer : RecordResolve(e)
<1>1. TypeOK
  BY DEF OnceInv
<1>2. ASSUME UNCHANGED runnerVars
      PROVE  /\ pc[w] \notin {"idle", "deciding"} /\ Current(w)' = Current(w)
             /\ attempt'[w] = attempt[w]
  BY <1>2 DEF runnerVars, Current
<1>3. ASSUME NEW v \in Runner, Proceed(v) \/ Crash(v)
      PROVE  /\ pc[w] \notin {"idle", "deciding"} /\ Current(w)' = Current(w)
             /\ attempt'[w] = attempt[w] /\ UNCHANGED history
  <2>1. v = w
    <3>1. pc[v] # "idle"
      BY <1>3 DEF Proceed, Crash, Skip, RecordStarted, SubmitFile, ExecutionSucceeds,
                  ExecutionFails, RecordSucceeded, RecordFailed, FinishDeployment
    <3>2. v # w => pc'[w] = pc[w]
      BY <1>1, <1>3
         DEF Proceed, Crash, JobEnds, Skip, RecordStarted, SubmitFile, ExecutionSucceeds,
             ExecutionFails, RecordSucceeded, RecordFailed, FinishDeployment, TypeOK
    <3> QED
      BY <3>1, <3>2 DEF OnceInv, GroupInv
  <2>2. SubmitFile(w) \/ ExecutionSucceeds(w) \/ ExecutionFails(w)
    BY <1>1, <1>3, <2>1
       DEF Proceed, Crash, JobEnds, Skip, RecordSucceeded, RecordFailed, FinishDeployment,
           TypeOK
  <2> QED
    BY <2>2 DEF SubmitFile, ExecutionSucceeds, ExecutionFails, Current
<1>4. ASSUME NEW v \in Runner, NEW r \in Revision, StartDeployment(v, r)
      PROVE  FALSE
  BY <1>1, <1>4 DEF StartDeployment, TypeOK
<1>5. ASSUME NEW e \in Engineer, Operate(e), pc[w] # "idle"
      PROVE  UNCHANGED history \/ RecordResolve(e)
  BY <1>5, NoBaseline DEF Operate, CheckBaseline, RecordBaseline, CheckResolve, Abandon
<1>6. ASSUME NEW e \in Engineer, Operate(e)
      PROVE  UNCHANGED runnerVars
  BY <1>1, <1>6, EngineerRows
<1> QED
  BY <1>2, <1>3, <1>4, <1>5, <1>6 DEF Next, vars, runnerVars, SnowflakeEnds

\* A review adds a REMEDIATED row, and no other.
LEMMA ReviewRows ==
  ASSUME TypeOK, NEW e \in Engineer, RecordResolve(e), NEW p \in Path
  PROVE  Kept(p) \/ Adds(p, {"REMEDIATED"})
<1> DEFINE row == RowOf(command[e].entry, "REMEDIATED")
<1>1. command[e].entry \in Migration
  BY CommandType DEF RecordResolve, TypeOK
<1>2. row \in Row /\ row.status = "REMEDIATED"
  BY <1>1 DEF RowOf, Row, Migration, Terminal
<1>3. history' = [history EXCEPT ![command[e].entry.path] =
                    Append(history[command[e].entry.path], row)]
  BY DEF RecordResolve, AddRow
<1> HIDE DEF row
<1> QED
  BY <1>2, <1>3 DEF Kept, Adds, TypeOK

\* Reviews stay about the file that was recorded.
LEMMA ReviewStep ==
  ASSUME OnceInv, LockInv, [Next]_vars
  PROVE  ReviewInv'
<1>1. TypeOK /\ TypeOK'
  BY OnceInvNext DEF OnceInv
<1>2. ASSUME NEW e \in Engineer, command'[e].kind = "resolve"
      PROVE  /\ history'[command'[e].entry.path] # <<>>
             /\ Matches(command'[e].entry,
                        history'[command'[e].entry.path][Len(history'[command'[e].entry.path])])
  <2>1. command'[e] # NoCommand
    BY <1>2 DEF NoCommand
  <2> DEFINE m == command'[e].entry
  <2>2. m.path \in Path
    BY <1>1, <1>2, CommandType DEF TypeOK, Migration
  <2>3. ASSUME NEW r \in Revision, NEW p \in Path, CheckResolve(e, r, p), UNCHANGED history,
               command'[e] = [kind |-> "resolve", entry |-> EntryOf(p, r)]
        PROVE  /\ history'[m.path] # <<>>
               /\ Matches(m, history'[m.path][Len(history'[m.path])])
    BY <2>3, EntryOfType DEF CheckResolve, Blocked, Recorded, Latest
  <2>4. ASSUME command'[e] = command[e]
        PROVE  /\ history'[m.path] # <<>>
               /\ Matches(m, history'[m.path][Len(history'[m.path])])
    <3>1. Recorded(m.path) /\ Matches(m, Latest(m.path))
      BY <1>2, <2>4 DEF LockInv, ReviewInv
    <3>2. CASE SameFiles
      BY <2>2, <3>1, <3>2 DEF SameFiles, Recorded, Latest, Matches
    <3>3. ASSUME NEW w \in Runner, RecordStarted(w)
          PROVE  Kept(m.path)
      BY <2>2, <3>1, <3>3, StartedFirst, StartedRows
    <3>4. ASSUME NEW f \in Engineer, RecordBaseline(f)
          PROVE  FALSE
      BY <2>2, <3>1, <3>4 DEF RecordBaseline, LockInv, AdoptInv, HistoryEmpty
    <3> QED
      BY <3>1, <3>2, <3>3, <3>4, HistorySteps DEF Kept, Recorded, Latest
  <2> QED
    BY <1>2, <2>1, <2>3, <2>4, CommandSteps
<1>3. ASSUME NEW w \in Runner, pc'[w] \notin {"idle", "deciding"}
      PROVE  \A i \in DOMAIN history'[Current(w)'.path] :
               i > attempt'[w] => history'[Current(w)'.path][i].status = "REMEDIATED"
  <2>1. CASE RecordStarted(w)
    <3>1. /\ Current(w)' = Current(w) /\ attempt'[w] = Len(history[Current(w).path]) + 1
          /\ history'[Current(w).path] =
               Append(history[Current(w).path], RowOf(Current(w), "STARTED"))
          /\ history[Current(w).path] \in Seq(Row)
          /\ RowOf(Current(w), "STARTED") \in Row
      BY <1>1, <2>1, StartedRows DEF RecordStarted, Current, TypeOK
    <3> QED
      BY <3>1, AppendedRows
  <2>2. CASE ~RecordStarted(w)
    <3>1. /\ pc[w] \notin {"idle", "deciding"} /\ Current(w)' = Current(w)
          /\ attempt'[w] = attempt[w]
          /\ \/ UNCHANGED history
             \/ \E e \in Engineer : RecordResolve(e)
      BY <1>1, <1>3, <2>2, AttemptKept
    <3>2. /\ Current(w).path \in Path /\ attempt[w] \in DOMAIN history[Current(w).path]
          /\ \A i \in DOMAIN history[Current(w).path] :
               i > attempt[w] => history[Current(w).path][i].status = "REMEDIATED"
      BY <1>1, <3>1, CurrentType DEF OnceInv, AttemptInv, LockInv, ReviewInv
    <3>3. ASSUME NEW e \in Engineer, RecordResolve(e)
          PROVE  \A i \in DOMAIN history'[Current(w).path] :
                   i > attempt[w] => history'[Current(w).path][i].status = "REMEDIATED"
      <4>1. Kept(Current(w).path) \/ Adds(Current(w).path, {"REMEDIATED"})
        BY <1>1, <3>2, <3>3, ReviewRows
      <4>2. history[Current(w).path] \in Seq(Row)
        BY <1>1, <3>2 DEF TypeOK
      <4>3. CASE Kept(Current(w).path)
        BY <3>2, <4>3 DEF Kept
      <4>4. CASE Adds(Current(w).path, {"REMEDIATED"})
        <5>1. PICK row \in Row : /\ row.status = "REMEDIATED"
                                 /\ history'[Current(w).path] =
                                      Append(history[Current(w).path], row)
          BY <4>4 DEF Adds
        <5>2. /\ DOMAIN history'[Current(w).path] =
                   DOMAIN history[Current(w).path] \cup {Len(history[Current(w).path]) + 1}
              /\ history'[Current(w).path][Len(history[Current(w).path]) + 1] = row
              /\ \A i \in DOMAIN history[Current(w).path] :
                   history'[Current(w).path][i] = history[Current(w).path][i]
          BY <4>2, <5>1, AppendedRows
        <5> QED
          BY <3>2, <5>1, <5>2
      <4> QED
        BY <4>1, <4>3, <4>4
    <3> QED
      BY <3>1, <3>2, <3>3
  <2> QED
    BY <2>1, <2>2
<1> QED
  BY <1>2, <1>3 DEF ReviewInv, Recorded, Latest

\* An entry of the manifests that a recorded path is in as recorded.
LEMMA SameEntry ==
  ASSUME NEW r \in Revision, NEW p \in Path, NEW row, NEW other,
         InManifestAs(p, r, row), other.pos = row.pos, other.sum = row.sum
  PROVE  InManifestAs(p, r, other)
  BY DEF InManifestAs, Matches

\* A working job's manifests go on saying what is recorded, and what is not yet.
LEMMA PlanStep ==
  ASSUME BaselinesApart, OnceInv, LockInv, [Next]_vars
  PROVE  PlanInv'
<1>1. TypeOK
  BY DEF OnceInv
<1> SUFFICES ASSUME NEW w \in Runner, pc'[w] # "idle"
             PROVE  /\ \A p \in Path : history'[p] # <<>> =>
                         InManifestAs(p, rev'[w], history'[p][Len(history'[p])])
                    /\ \A i \in Ahead(w)' : history'[Migrations(rev'[w])[i].path] = <<>>
  BY DEF PlanInv, Recorded, Latest
<1>2. ASSUME NEW r \in Revision, StartDeployment(w, r)
      PROVE  /\ \A p \in Path : history'[p] # <<>> =>
                  InManifestAs(p, rev'[w], history'[p][Len(history'[p])])
             /\ \A i \in Ahead(w)' : history'[Migrations(rev'[w])[i].path] = <<>>
  <2>1. rev'[w] = r /\ known'[w] = {p \in Path : Recorded(p)} /\ UNCHANGED history
    BY <1>1, <1>2 DEF StartDeployment, TypeOK
  <2>2. \A i \in Ahead(w)' : Migrations(r)[i].path \in Path /\ Migrations(r)[i].path \notin known'[w]
    BY <2>1, EntryPlace DEF Ahead
  <2> QED
    BY <1>2, <2>1, <2>2 DEF StartDeployment, PlanReady, Recorded, Latest
<1>3. ASSUME pc[w] # "idle", rev'[w] = rev[w], Ahead(w)' \subseteq Ahead(w)
      PROVE  /\ \A p \in Path : history'[p] # <<>> =>
                  InManifestAs(p, rev'[w], history'[p][Len(history'[p])])
             /\ \A i \in Ahead(w)' : history'[Migrations(rev'[w])[i].path] = <<>>
  <2>1. /\ rev[w] \in Revision
        /\ \A p \in Path : Recorded(p) => InManifestAs(p, rev[w], Latest(p))
        /\ \A i \in Ahead(w) : /\ ~Recorded(Migrations(rev[w])[i].path)
                               /\ Migrations(rev[w])[i].path \in Path
    BY <1>1, <1>3, EntryPlace DEF LockInv, PlanInv, Ahead, TypeOK
  <2>2. CASE SameFiles
    <3>1. \A p \in Path : history'[p] # <<>> =>
            /\ Recorded(p) /\ history'[p][Len(history'[p])].pos = Latest(p).pos
            /\ history'[p][Len(history'[p])].sum = Latest(p).sum
      BY <2>2 DEF SameFiles, Recorded, Latest
    <3> QED
      BY <1>3, <2>1, <3>1, SameEntry
  <2>3. ASSUME NEW v \in Runner, RecordStarted(v)
        PROVE  /\ \A p \in Path : history'[p] # <<>> =>
                    InManifestAs(p, rev'[w], history'[p][Len(history'[p])])
               /\ \A i \in Ahead(w)' : history'[Migrations(rev'[w])[i].path] = <<>>
    <3>1. v = w
      BY <1>3, <2>3 DEF RecordStarted, OnceInv, GroupInv
    <3>2. /\ at[w] \in DOMAIN Migrations(rev[w]) /\ pc'[w] = "recorded"
          /\ UNCHANGED <<rev, at, known>>
          /\ history'[Current(w).path][Len(history'[Current(w).path])] =
               RowOf(Current(w), "STARTED")
          /\ \A p \in Path : p # Current(w).path => history'[p] = history[p]
      BY <1>1, <2>3, <3>1, StartedFirst, StartedRows DEF RecordStarted, TypeOK, Kept
    <3>3. InManifestAs(Current(w).path, rev[w], RowOf(Current(w), "STARTED"))
      BY <3>2 DEF InManifestAs, Matches, RowOf, Current
    <3>4. ASSUME NEW i \in Ahead(w)'
          PROVE  i \in Ahead(w) /\ Migrations(rev[w])[i].path # Current(w).path
      <4>1. i \in DOMAIN Migrations(rev[w]) /\ i > at[w] /\ i \in Ahead(w) /\ at[w] \in Nat
        BY <1>1, <1>3, <3>2, <3>4 DEF Ahead, TypeOK
      <4>2. i # at[w]
        BY <2>1, <4>1, MigrationsType
      <4> QED
        BY <2>1, <3>2, <4>1, <4>2, MigrationsDistinct DEF Current
    <3> QED
      BY <1>3, <2>1, <3>2, <3>3, <3>4 DEF Recorded, Latest
  <2>4. ASSUME NEW e \in Engineer, RecordBaseline(e)
        PROVE  FALSE
    BY <1>3, <2>4, NoBaseline DEF RecordBaseline
  <2> QED
    BY <2>2, <2>3, <2>4, HistorySteps
<1> QED
  BY <1>2, <1>3, AheadShrinks

\* Which scope a path is in.
LEMMA ScopePaths ==
  ASSUME NEW scope \in Scopes, NEW p \in Path, NEW q \in Path
  PROVE  /\ scope \subseteq Path
         /\ p \in scope => (q \in scope <=> (p \in ControlPath <=> q \in ControlPath))
  BY ManifestAssumption DEF Scopes

\* A history that is in the manifests of one revision, and in which no entry is
\* recorded without the one before it, is a locked sequence.
LEMMA SequenceOfManifest ==
  ASSUME NEW r \in Revision,
         \A p \in Path : \A i \in DOMAIN history'[p] :
           Matches(history'[p][i], history'[p][Len(history'[p])]),
         \A p \in Path : history'[p] # <<>> =>
           InManifestAs(p, r, history'[p][Len(history'[p])]),
         \A p \in Path :
           history'[p] # <<>> /\ history'[p][Len(history'[p])].pos > 1 =>
             \E q \in Path : /\ history'[q] # <<>>
                             /\ history'[q][Len(history'[q])].pos =
                                  history'[p][Len(history'[p])].pos - 1
                             /\ q \in ControlPath <=> p \in ControlPath
  PROVE  SequenceLocked'
<1>1. \A p \in Path : \A i \in DOMAIN history'[p] : Matches(history'[p][i], Latest(p)')
  BY DEF Latest
<1>2. ASSUME NEW scope \in Scopes, NEW p \in RecordedIn(scope)', NEW q \in RecordedIn(scope)',
             Latest(p)'.pos = Latest(q)'.pos
      PROVE  p = q
  <2>1. /\ p \in Path /\ q \in Path /\ (p \in ControlPath <=> q \in ControlPath)
        /\ history'[p] # <<>> /\ history'[q] # <<>>
    BY <1>2, ManifestAssumption DEF RecordedIn, Scopes, Recorded
  <2>2. PICK i \in DOMAIN Migrations(r) :
          Migrations(r)[i].path = p /\ Migrations(r)[i].pos = Latest(p)'.pos
    BY <2>1 DEF InManifestAs, Matches, Latest
  <2>3. PICK j \in DOMAIN Migrations(r) :
          Migrations(r)[j].path = q /\ Migrations(r)[j].pos = Latest(q)'.pos
    BY <2>1 DEF InManifestAs, Matches, Latest
  <2>4. i = j
    BY <1>2, <2>1, <2>2, <2>3, OnePlace
  <2> QED
    BY <2>2, <2>3, <2>4
<1>3. ASSUME NEW scope \in Scopes, NEW p \in RecordedIn(scope)', Latest(p)'.pos > 1
      PROVE  \E q \in RecordedIn(scope)' : Latest(q)'.pos = Latest(p)'.pos - 1
  <2>1. p \in Path /\ p \in scope /\ history'[p] # <<>>
    BY <1>3, ManifestAssumption DEF RecordedIn, Scopes, Recorded
  <2>2. PICK q \in Path : /\ history'[q] # <<>>
                          /\ history'[q][Len(history'[q])].pos =
                               history'[p][Len(history'[p])].pos - 1
                          /\ q \in ControlPath <=> p \in ControlPath
    BY <1>3, <2>1 DEF Latest
  <2>3. q \in scope
    BY <2>1, <2>2, ScopePaths
  <2> QED
    BY <2>2, <2>3 DEF RecordedIn, Recorded, Latest
<1> QED
  BY <1>1, <1>2, <1>3 DEF SequenceLocked

\* The STARTED row of a job comes at the end of the sequence of its scope.
LEMMA StartedLocked ==
  ASSUME BaselinesApart, OnceInv, OrderInv, LockInv, NEW w \in Runner, RecordStarted(w)
  PROVE  SequenceLocked'
<1> DEFINE cp == Current(w).path
<1>1. /\ TypeOK /\ rev[w] \in Revision /\ at[w] \in Nat \ {0}
      /\ pc[w] # "idle" /\ at[w] \in DOMAIN Migrations(rev[w])
      /\ rev'[w] = rev[w] /\ pc'[w] = "recorded"
  BY DEF OnceInv, TypeOK, RecordStarted
<1>2. /\ cp \in Path /\ history[cp] = <<>> /\ history'[cp] # <<>>
      /\ \A i \in DOMAIN history'[cp] : history'[cp][i] = RowOf(Current(w), "STARTED")
      /\ history'[cp][Len(history'[cp])] = RowOf(Current(w), "STARTED")
  BY StartedFirst DEF Recorded
<1>3. \A p \in Path : p # cp => history'[p] = history[p]
  BY StartedRows DEF Kept
<1>4. \A p \in Path : \A i \in DOMAIN history'[p] :
        Matches(history'[p][i], history'[p][Len(history'[p])])
  BY <1>2, <1>3 DEF LockInv, SequenceLocked, Latest, Matches
<1>5. \A p \in Path : history'[p] # <<>> =>
        InManifestAs(p, rev[w], history'[p][Len(history'[p])])
  <2>1. [Next]_vars
    BY DEF Next, Proceed
  <2>2. PlanInv'
    BY <2>1, PlanStep
  <2> QED
    BY <1>1, <2>2 DEF PlanInv, Recorded, Latest
<1>6. ASSUME NEW p \in Path, history'[p] # <<>>, history'[p][Len(history'[p])].pos > 1
      PROVE  \E q \in Path : /\ history'[q] # <<>>
                             /\ history'[q][Len(history'[q])].pos =
                                  history'[p][Len(history'[p])].pos - 1
                             /\ q \in ControlPath <=> p \in ControlPath
  <2>1. CASE p = cp
    <3> DEFINE j == at[w] - 1
               q == Migrations(rev[w])[j].path
    <3>1. history'[cp][Len(history'[cp])].pos = Migrations(rev[w])[at[w]].pos
      BY <1>2 DEF RowOf, Current
    <3>2. /\ j \in DOMAIN Migrations(rev[w])
          /\ Migrations(rev[w])[j].pos = history'[cp][Len(history'[cp])].pos - 1
          /\ q \in ControlPath <=> cp \in ControlPath
      BY <1>1, <1>6, <2>1, <3>1, PlaceBefore DEF Current
    <3>3. j \in 1..(at[w] - 1)
      BY <1>1, <3>2, MigrationsType
    <3>4. Recorded(q) /\ q \in Path /\ q # cp
      BY <1>1, <3>3, PassedEntries DEF OrderInv, InOrder, Settled
    <3>5. PICK k \in DOMAIN Migrations(rev[w]) :
            Migrations(rev[w])[k].path = q /\ Migrations(rev[w])[k].pos = Latest(q).pos
      BY <1>1, <3>4 DEF LockInv, PlanInv, InManifestAs, Matches
    <3>6. k = j
      BY <1>1, <3>2, <3>5, MigrationsDistinct
    <3> QED
      BY <1>3, <2>1, <3>2, <3>4, <3>5, <3>6 DEF Recorded, Latest
  <2>2. CASE p # cp
    <3>1. history'[p] = history[p] /\ Recorded(p) /\ Latest(p).pos > 1
      BY <1>3, <1>6, <2>2 DEF Recorded, Latest
    <3>2. PICK scope \in Scopes : p \in scope
      BY DEF Scopes
    <3>3. p \in RecordedIn(scope)
      BY <3>1, <3>2 DEF RecordedIn
    <3>4. PICK q \in RecordedIn(scope) : Latest(q).pos = Latest(p).pos - 1
      BY <3>1, <3>3 DEF LockInv, SequenceLocked
    <3>5. q \in Path /\ q \in scope /\ Recorded(q)
      BY <3>2, <3>4, ScopePaths DEF RecordedIn
    <3>6. q # cp /\ (q \in ControlPath <=> p \in ControlPath)
      BY <1>2, <3>2, <3>5, ScopePaths DEF Recorded
    <3> QED
      BY <1>3, <3>1, <3>4, <3>5, <3>6 DEF Recorded, Latest
  <2> QED
    BY <2>1, <2>2
<1> QED
  BY <1>1, <1>4, <1>5, <1>6, SequenceOfManifest

\* A baseline writes the sequences of its manifests into an empty history.
LEMMA BaselineLocked ==
  ASSUME OnceInv, LockInv, NEW e \in Engineer, RecordBaseline(e)
  PROVE  SequenceLocked'
<1> DEFINE r == command[e].rev
           row(p) == RowOf(EntryOf(p, r), "BASELINED")
<1>1. r \in Revision
  BY CommandType DEF OnceInv, TypeOK, RecordBaseline
<1>2. \A p \in Path : history[p] = <<>>
  BY DEF LockInv, AdoptInv, RecordBaseline, HistoryEmpty, Recorded
<1>3. ASSUME NEW p \in Path, history'[p] # <<>>
      PROVE  InManifest(p, r)
  BY <1>2, <1>3 DEF RecordBaseline
<1>4. ASSUME NEW p \in Path, InManifest(p, r)
      PROVE  /\ row(p) \in Row /\ row(p).pos = EntryOf(p, r).pos
             /\ row(p).sum = EntryOf(p, r).sum
             /\ history'[p] # <<>> /\ DOMAIN history'[p] = {1} /\ Len(history'[p]) = 1
             /\ history'[p][1] = row(p)
  <2>1. row(p) \in Row /\ row(p).pos = EntryOf(p, r).pos /\ row(p).sum = EntryOf(p, r).sum
    BY <1>1, <1>4, EntryOfType DEF RowOf, Row, Migration, Terminal
  <2>2. history'[p] = Append(history[p], row(p))
    BY <1>4 DEF RecordBaseline
  <2>3. history[p] = <<>> /\ <<>> \in Seq(Row) /\ Len(<<>>) = 0 /\ DOMAIN <<>> = {}
    BY <1>2
  <2> HIDE DEF row
  <2> QED
    BY <2>1, <2>2, <2>3, AppendedRows
<1>5. ASSUME NEW p \in Path, NEW i \in DOMAIN Migrations(r), Migrations(r)[i].path = p
      PROVE  InManifest(p, r) /\ EntryOf(p, r) = Migrations(r)[i]
  <2>1. InManifest(p, r)
    BY <1>5 DEF InManifest
  <2>2. PICK k \in DOMAIN Migrations(r) :
          Migrations(r)[k].path = p /\ EntryOf(p, r) = Migrations(r)[k]
    BY <1>5 DEF EntryOf
  <2>3. k = i
    BY <1>1, <1>5, <2>2, MigrationsDistinct
  <2> QED
    BY <2>1, <2>2, <2>3
<1>6. ASSUME NEW p \in Path, history'[p] # <<>>
      PROVE  /\ \E i \in DOMAIN Migrations(r) :
                  /\ Migrations(r)[i].path = p
                  /\ Migrations(r)[i].pos = history'[p][Len(history'[p])].pos
                  /\ Migrations(r)[i].sum = history'[p][Len(history'[p])].sum
             /\ \A i \in DOMAIN history'[p] : history'[p][i] = history'[p][Len(history'[p])]
  <2>1. InManifest(p, r)
    BY <1>3, <1>6
  <2>2. PICK i \in DOMAIN Migrations(r) : Migrations(r)[i].path = p
    BY <2>1 DEF InManifest
  <2>3. EntryOf(p, r) = Migrations(r)[i]
    BY <1>5, <2>2
  <2> HIDE DEF row
  <2> QED
    BY <1>4, <2>1, <2>2, <2>3
<1> HIDE DEF row, r
<1>7. \A p \in Path : history'[p] # <<>> =>
        InManifestAs(p, r, history'[p][Len(history'[p])])
  BY <1>6 DEF InManifestAs, Matches
<1>8. \A p \in Path : \A i \in DOMAIN history'[p] :
        Matches(history'[p][i], history'[p][Len(history'[p])])
  <2>1. \A p \in Path : history'[p] = <<>> => DOMAIN history'[p] = {}
    OBVIOUS
  <2> QED
    BY <1>6, <2>1 DEF Matches
<1>9. ASSUME NEW p \in Path, history'[p] # <<>>, history'[p][Len(history'[p])].pos > 1
      PROVE  \E q \in Path : /\ history'[q] # <<>>
                             /\ history'[q][Len(history'[q])].pos =
                                  history'[p][Len(history'[p])].pos - 1
                             /\ q \in ControlPath <=> p \in ControlPath
  <2>1. PICK i \in DOMAIN Migrations(r) :
          /\ Migrations(r)[i].path = p
          /\ Migrations(r)[i].pos = history'[p][Len(history'[p])].pos
    BY <1>6, <1>9
  <2> DEFINE q == Migrations(r)[i - 1].path
  <2>2. /\ i - 1 \in DOMAIN Migrations(r)
        /\ Migrations(r)[i - 1].pos = history'[p][Len(history'[p])].pos - 1
        /\ q \in ControlPath <=> p \in ControlPath
    BY <1>1, <1>9, <2>1, PlaceBefore
  <2>3. q \in Path
    BY <1>1, <2>2, MigrationsType DEF Migration
  <2>4. InManifest(q, r) /\ EntryOf(q, r) = Migrations(r)[i - 1]
    BY <1>5, <2>2, <2>3
  <2> QED
    BY <1>4, <2>2, <2>3, <2>4
<1> QED
  BY <1>1, <1>7, <1>8, <1>9, SequenceOfManifest

\* The first deployment finds no sequence.
LEMMA LockInvInit == Init => LockInv
<1> SUFFICES ASSUME Init PROVE LockInv
  OBVIOUS
<1>1. \A p \in Path : history[p] = <<>>
  BY DEF Init
<1>2. FileInv /\ AdoptInv /\ ReviewInv /\ PlanInv
  BY DEF Init, FileInv, AdoptInv, ReviewInv, PlanInv, NoCommand
<1>3. \A scope \in Scopes : RecordedIn(scope) = {}
  BY <1>1, ManifestAssumption DEF Scopes, RecordedIn, Recorded
<1>4. \A p \in Path : \A i \in DOMAIN history[p] : FALSE
  <2>1. \A i \in DOMAIN <<>> : FALSE
    OBVIOUS
  <2> QED
    BY <1>1, <2>1
<1> QED
  BY <1>2, <1>3, <1>4 DEF LockInv, SequenceLocked

\* LockInv is inductive with OnceInv and OrderInv: one step per conjunct.
LEMMA LockNext ==
  ASSUME BaselinesApart, OnceInv, OrderInv, LockInv, [Next]_vars
  PROVE  LockInv'
<1>1. FileInv'
  BY FullStays DEF LockInv
<1>2. AdoptInv' /\ ReviewInv' /\ PlanInv'
  BY AdoptStep, ReviewStep, PlanStep
<1>3. SequenceLocked'
  BY HistorySteps, SequenceStays, StartedLocked, BaselineLocked DEF OnceInv, LockInv
<1> QED
  BY <1>1, <1>2, <1>3 DEF LockInv

-----------------------------------------------------------------------------
\* What unblocks a migration

\* The row of a recorded failure blocks its path, or is older than a review.
LEMMA FailedRow ==
  ASSUME OnceInv, OrderInv, LockInv, NEW w \in Runner, RecordFailed(w), NEW p \in Path
  PROVE  \/ Kept(p)
         \/ FailureRecorded(p) /\ (Blocked(p)' \/ Latest(p)'.status = "REMEDIATED")
<1>1. /\ pc[w] \notin {"idle", "deciding"} /\ CloseAttempt(w, "FAILED")
      /\ "FAILED" \in Terminal \cup Blocking
  BY DEF RecordFailed, Blocking
<1>2. CASE p # Current(w).path
  BY <1>1, <1>2, ClosedRows
<1>3. CASE p = Current(w).path
  <2>1. /\ history[p] \in Seq(Row) /\ attempt[w] \in DOMAIN history[p]
        /\ history[p][attempt[w]].status = "STARTED"
        /\ \A i \in DOMAIN history[p] :
             i > attempt[w] => history[p][i].status = "REMEDIATED"
    BY <1>1, <1>3 DEF OnceInv, AttemptInv, TypeOK, OrderInv, OpenInv, LockInv, ReviewInv
  <2>2. /\ DOMAIN history'[p] = DOMAIN history[p] /\ Len(history'[p]) = Len(history[p])
        /\ \A i \in DOMAIN history[p] : i # attempt[w] => history'[p][i] = history[p][i]
        /\ history'[p][attempt[w]].status = "FAILED"
    BY <1>1, <1>3, <2>1, ClosedRows
  <2>3. FailureRecorded(p)
    BY <2>1, <2>2 DEF FailureRecorded
  <2>4. /\ Len(history[p]) \in DOMAIN history[p] /\ history'[p] # <<>>
        /\ attempt[w] = Len(history[p]) \/ Len(history[p]) > attempt[w]
    BY <2>1, <2>2
  <2>5. \/ history'[p][Len(history'[p])].status = "FAILED"
        \/ history'[p][Len(history'[p])].status = "REMEDIATED"
    BY <2>1, <2>2, <2>4
  <2> QED
    BY <2>3, <2>4, <2>5 DEF Blocked, Recorded, Latest, Blocking
<1> QED
  BY <1>2, <1>3

\* The row of a recorded success unblocks its path only if it is the newest.
LEMMA SucceededRow ==
  ASSUME OnceInv, RealInv, NEW w \in Runner, RecordSucceeded(w), NEW p \in Path
  PROVE  /\ ~FailureRecorded(p)
         /\ Blocked(p) /\ Settled(p)' =>
              file[p] = "full" /\ Latest(p)'.status = "SUCCEEDED"
<1>1. /\ pc[w] \notin {"idle", "deciding"} /\ CloseAttempt(w, "SUCCEEDED")
      /\ "SUCCEEDED" \in Terminal \cup Blocking /\ pc[w] = "applied"
  BY DEF RecordSucceeded, Terminal
<1>2. CASE p # Current(w).path
  <2>1. history'[p] = history[p]
    BY <1>1, <1>2, ClosedRows DEF Kept
  <2> QED
    BY <2>1 DEF FailureRecorded, Blocked, Settled, Recorded, Latest, Blocking, Terminal
<1>3. CASE p = Current(w).path
  <2>1. /\ Len(history'[p]) = Len(history[p])
        /\ \A i \in DOMAIN history[p] : i # attempt[w] => history'[p][i] = history[p][i]
        /\ history'[p][attempt[w]].status =
             IF history[p][attempt[w]].status = "STARTED"
               THEN "SUCCEEDED" ELSE history[p][attempt[w]].status
    BY <1>1, <1>3, ClosedRows
  <2>2. ~FailureRecorded(p)
    BY <2>1 DEF FailureRecorded
  <2>3. ASSUME Blocked(p), Settled(p)'
        PROVE  file[p] = "full" /\ Latest(p)'.status = "SUCCEEDED"
    <3>1. /\ history[p] # <<>> /\ history[p][Len(history[p])].status \in Blocking
          /\ history'[p][Len(history'[p])].status \in Terminal
      BY <2>3 DEF Blocked, Settled, Recorded, Latest
    <3>2. history[p] \in Seq(Row) /\ Len(history[p]) \in DOMAIN history[p]
      BY <3>1 DEF OnceInv, TypeOK
    <3>3. Len(history[p]) = attempt[w]
      BY <2>1, <3>1, <3>2 DEF Blocking, Terminal
    <3> QED
      BY <1>1, <1>3, <2>1, <3>1, <3>3 DEF RealInv, AppliedInv, Latest, Blocking, Terminal
  <2> QED
    BY <2>2, <2>3
<1> QED
  BY <1>2, <1>3

\* No other step records a failure, and only a review settles what is blocked.
LEMMA UnblockingStep ==
  ASSUME BaselinesApart, OnceInv, OrderInv, RealInv, LockInv, [Next]_vars, NEW p \in Path
  PROVE  /\ Blocked(p) /\ Settled(p)' /\ ~FailureRecorded(p) =>
              Reviewed(p) \/ (file[p] = "full" /\ Latest(p)'.status = "SUCCEEDED")
         /\ FailureRecorded(p) => Blocked(p)' \/ Latest(p)'.status = "REMEDIATED"
<1>1. TypeOK /\ history[p] \in Seq(Row)
  BY DEF OnceInv, TypeOK
<1>2. ASSUME Kept(p)
      PROVE  ~FailureRecorded(p) /\ ~(Blocked(p) /\ Settled(p)')
  BY <1>2 DEF Kept, FailureRecorded, Blocked, Settled, Recorded, Latest, Blocking, Terminal
<1>3. ASSUME NEW row \in Row, history'[p] = Append(history[p], row)
      PROVE  /\ ~FailureRecorded(p)
             /\ Settled(p)' => row.status \in Terminal
  <2>1. /\ \A i \in DOMAIN history[p] : history'[p][i] = history[p][i]
        /\ history'[p][Len(history'[p])] = row
    BY <1>1, <1>3, AppendedRows
  <2> QED
    BY <2>1 DEF FailureRecorded, Settled, Latest
<1>4. ASSUME NEW w \in Runner, RecordStarted(w)
      PROVE  ~FailureRecorded(p) /\ ~(Blocked(p) /\ Settled(p)')
  <2>1. CASE p = Current(w).path
    <3>1. /\ RowOf(Current(w), "STARTED") \in Row
          /\ history'[p] = Append(history[p], RowOf(Current(w), "STARTED"))
          /\ RowOf(Current(w), "STARTED").status \notin Terminal
      BY <1>4, <2>1, StartedRows DEF RowOf, Terminal
    <3> QED
      BY <1>3, <3>1
  <2> QED
    BY <1>2, <1>4, <2>1, StartedRows
<1>5. ASSUME NEW e \in Engineer, RecordBaseline(e)
      PROVE  ~FailureRecorded(p) /\ ~Blocked(p)
  <2>1. ~Recorded(p)
    BY <1>5 DEF RecordBaseline, LockInv, AdoptInv, HistoryEmpty
  <2> QED
    BY <2>1 DEF FailureRecorded, Blocked, Recorded
<1>6. ASSUME NEW e \in Engineer, RecordResolve(e)
      PROVE  ~FailureRecorded(p) /\ (Kept(p) \/ Reviewed(p))
  <2> DEFINE m == command[e].entry
  <2>1. m \in Migration /\ RowOf(m, "REMEDIATED") \in Row
    BY <1>1, <1>6, CommandType DEF RecordResolve, TypeOK, RowOf, Row, Migration, Terminal
  <2>2. history' = [history EXCEPT ![m.path] = Append(history[m.path], RowOf(m, "REMEDIATED"))]
    BY <1>6 DEF RecordResolve, AddRow
  <2>3. CASE p = m.path
    <3>1. Reviewed(p)
      BY <1>1, <1>6, <2>3 DEF Reviewed, RecordResolve, TypeOK
    <3>2. history'[p] = Append(history[p], RowOf(m, "REMEDIATED"))
      BY <1>1, <2>2, <2>3 DEF TypeOK
    <3> QED
      BY <1>3, <2>1, <3>1, <3>2
  <2>4. CASE p # m.path
    <3>1. Kept(p)
      BY <1>1, <2>2, <2>4 DEF TypeOK, Kept
    <3> QED
      BY <1>2, <3>1
  <2> QED
    BY <2>3, <2>4
<1>7. UNCHANGED history => Kept(p)
  BY DEF Kept
<1> QED
  BY <1>2, <1>4, <1>5, <1>6, <1>7, FailedRow, SucceededRow
     DEF Next, vars, StartDeployment, Proceed, Skip, SubmitFile, ExecutionSucceeds,
         ExecutionFails, FinishDeployment, Crash, SnowflakeEnds, Operate, CheckBaseline,
         CheckResolve, Abandon

-----------------------------------------------------------------------------
\* The ledger

\* The standing of a path is what its rows say, and changes only with them.
LEMMA StandingOf ==
  ASSUME NEW p \in Path
  PROVE  Standing[p] = IF history[p] = <<>> THEN "new"
                       ELSE IF history[p][Len(history[p])].status \in Terminal
                         THEN "settled" ELSE "attempted"
  BY DEF Standing, Settled, Recorded, Latest

LEMMA StandingOfNext ==
  ASSUME NEW p \in Path
  PROVE  Standing'[p] = IF history'[p] = <<>> THEN "new"
                        ELSE IF history'[p][Len(history'[p])].status \in Terminal
                          THEN "settled" ELSE "attempted"
  BY DEF Standing, Settled, Recorded, Latest

LEMMA OneStanding ==
  ASSUME NEW p \in Path, \A q \in Path : q # p => Kept(q), NEW s, Standing'[p] = s
  PROVE  Standing' = [Standing EXCEPT ![p] = s]
<1>1. \A q \in Path : q # p => Standing'[q] = Standing[q]
  BY StandingOf, StandingOfNext DEF Kept
<1>2. /\ Standing' = [q \in Path |-> Standing'[q]]
      /\ Standing = [q \in Path |-> Standing[q]]
  BY DEF Standing
<1> HIDE DEF Standing
<1>3. DOMAIN Standing' = Path /\ DOMAIN Standing = Path
  BY <1>2
<1> QED
  BY <1>1, <1>2, <1>3

LEMMA SameStanding ==
  ASSUME \A q \in Path : Standing'[q] = Standing[q]
  PROVE  Standing' = Standing
<1>1. /\ Standing' = [q \in Path |-> Standing'[q]]
      /\ Standing = [q \in Path |-> Standing[q]]
  BY DEF Standing
<1> HIDE DEF Standing
<1> QED
  BY <1>1

\* Closing an attempt settles its path, or changes no standing.
LEMMA ClosedStanding ==
  ASSUME OnceInv, OrderInv, NEW w \in Runner, pc[w] \notin {"idle", "deciding"},
         NEW status \in {"SUCCEEDED", "FAILED"}, CloseAttempt(w, status), UNCHANGED sent
  PROVE  Standing' = Standing \/ Ledger!Settle(Current(w).path)
<1> DEFINE p == Current(w).path
<1>1. status \in Terminal \cup Blocking
  BY DEF Terminal, Blocking
<1>2. /\ p \in Path /\ attempt[w] \in DOMAIN history[p]
      /\ \A q \in Path : q # p => Kept(q)
      /\ DOMAIN history'[p] = DOMAIN history[p]
      /\ Len(history'[p]) = Len(history[p])
      /\ \A i \in DOMAIN history[p] : i # attempt[w] => history'[p][i] = history[p][i]
      /\ history[p][attempt[w]].status = "STARTED" => history'[p][attempt[w]].status = status
  BY <1>1, ClosedRows
<1>3. /\ history[p][attempt[w]].status = "STARTED" /\ history[p] \in Seq(Row)
  BY <1>2 DEF OrderInv, OpenInv, OnceInv, TypeOK
<1>4. /\ Len(history[p]) \in DOMAIN history[p] /\ history[p] # <<>> /\ history'[p] # <<>>
  BY <1>2, <1>3
<1> HIDE DEF p
<1>5. CASE Standing'[p] = Standing[p]
  BY <1>2, <1>5, OneStanding, SameStanding, StandingOf, StandingOfNext DEF Kept
<1>6. CASE Standing'[p] # Standing[p]
  <2>1. Len(history[p]) = attempt[w]
    BY <1>2, <1>4, <1>6, StandingOf, StandingOfNext
  <2>2. Standing[p] = "attempted"
    BY <1>2, <1>3, <1>4, <2>1, StandingOf DEF Terminal
  <2>3. Standing'[p] = "settled"
    BY <1>2, <1>4, <1>6, <2>2, StandingOfNext
  <2> QED
    BY <1>2, <2>2, <2>3, OneStanding DEF Ledger!Settle, p
<1> QED
  BY <1>5, <1>6

\* A review settles the attempt it is about, or changes no standing.
LEMMA ReviewedStanding ==
  ASSUME OnceInv, LockInv, NEW e \in Engineer, RecordResolve(e)
  PROVE  Standing' = Standing \/ Ledger!Settle(command[e].entry.path)
<1> DEFINE m == command[e].entry
           row == RowOf(m, "REMEDIATED")
           p == m.path
<1>1. /\ TypeOK /\ m \in Migration /\ p \in Path /\ history[p] # <<>>
  BY CommandType DEF OnceInv, RecordResolve, TypeOK, LockInv, ReviewInv, Recorded, Migration
<1>2. /\ row \in Row /\ row.status \in Terminal
      /\ history' = [history EXCEPT ![p] = Append(history[p], row)]
  BY <1>1 DEF RowOf, Row, Migration, Terminal, RecordResolve, AddRow
<1>3. /\ history[p] \in Seq(Row) /\ history'[p] = Append(history[p], row)
      /\ \A q \in Path : q # p => Kept(q)
  BY <1>1, <1>2 DEF TypeOK, Kept
<1> HIDE DEF row
<1>4. Standing'[p] = "settled"
  <2>1. history'[p] # <<>> /\ history'[p][Len(history'[p])] = row
    BY <1>2, <1>3, AppendedRows
  <2> QED
    BY <1>1, <1>2, <2>1, StandingOfNext
<1>5. Standing[p] \in {"settled", "attempted"}
  BY <1>1, StandingOf
<1>6. CASE Standing[p] = "settled"
  <2>1. \A q \in Path : Standing'[q] = Standing[q]
    BY <1>3, <1>4, <1>6, StandingOf, StandingOfNext DEF Kept
  <2> QED
    BY <2>1, SameStanding
<1>7. CASE Standing[p] = "attempted"
  <2>1. Standing' = [Standing EXCEPT ![p] = "settled"]
    BY <1>1, <1>3, <1>4, OneStanding
  <2> QED
    BY <1>7, <2>1 DEF Ledger!Settle, RecordResolve
<1> QED
  BY <1>5, <1>6, <1>7

\* Every step of the deployment, or of an engineer, is one of the ledger.
LEMMA LedgerStep ==
  ASSUME BaselinesApart, OnceInv, OrderInv, LockInv, [Next]_vars
  PROVE  [Ledger!LedgerNext]_(Ledger!ledgerVars)
<1> USE DEF Ledger!ledgerVars
<1>1. TypeOK
  BY DEF OnceInv
<1>2. UNCHANGED history => Standing' = Standing
  BY SameStanding, StandingOf, StandingOfNext
<1>3. ASSUME NEW w \in Runner, RecordStarted(w)
      PROVE  Ledger!LedgerNext
  <2> DEFINE p == Current(w).path
  <2>1. /\ p \in Path /\ history[p] = <<>> /\ history'[p] # <<>>
        /\ history'[p][Len(history'[p])] = RowOf(Current(w), "STARTED")
        /\ \A q \in Path : q # p => Kept(q)
    BY <1>3, StartedFirst, StartedRows DEF Recorded
  <2>2. Standing[p] = "new" /\ Standing'[p] = "attempted"
    BY <2>1, StandingOf, StandingOfNext DEF RowOf, Terminal
  <2>3. Ledger!Attempt(p)
    BY <1>3, <2>1, <2>2, OneStanding DEF Ledger!Attempt, RecordStarted
  <2> QED
    BY <2>1, <2>3 DEF Ledger!LedgerNext
<1>4. ASSUME NEW w \in Runner, SubmitFile(w)
      PROVE  Ledger!LedgerNext
  <2> DEFINE p == Current(w).path
  <2>1. /\ at[w] \in DOMAIN Migrations(rev[w]) /\ p \notin known[w]
        /\ attempt[w] \in DOMAIN history[p] /\ p \in Path
    BY <1>1, <1>4, CurrentType DEF OnceInv, AttemptInv, SubmitFile
  <2>2. sent[p] = 0 /\ history[p] # <<>>
    <3>1. sent[p] = 0
      BY <1>4, <2>1 DEF OnceInv, UnsentInv, ToSend, Current, SubmitFile
    <3>2. history[p] \in Seq(Row)
      BY <1>1, <2>1 DEF TypeOK
    <3> QED
      BY <2>1, <3>1, <3>2
  <2>3. Standing[p] # "new" /\ Standing' = Standing
    BY <1>2, <1>4, <2>1, <2>2, StandingOf DEF SubmitFile
  <2>4. Ledger!Send(p)
    BY <1>4, <2>2, <2>3 DEF Ledger!Send, SubmitFile
  <2> QED
    BY <2>1, <2>4 DEF Ledger!LedgerNext
<1>5. ASSUME NEW w \in Runner, RecordSucceeded(w) \/ RecordFailed(w)
      PROVE  Ledger!LedgerNext \/ UNCHANGED <<Standing, sent>>
  <2>1. /\ pc[w] \notin {"idle", "deciding"} /\ UNCHANGED sent
        /\ CloseAttempt(w, "SUCCEEDED") \/ CloseAttempt(w, "FAILED")
    BY <1>5 DEF RecordSucceeded, RecordFailed
  <2>2. Current(w).path \in Path
    BY <1>1, <2>1, CurrentType DEF OnceInv, AttemptInv
  <2> QED
    BY <2>1, <2>2, ClosedStanding DEF Ledger!LedgerNext
<1>6. ASSUME NEW e \in Engineer, RecordBaseline(e)
      PROVE  Ledger!LedgerNext
  <2> DEFINE adopted == {p \in Path : InManifest(p, command[e].rev)}
  <2>1. \A p \in Path : history[p] = <<>>
    BY <1>6 DEF LockInv, AdoptInv, RecordBaseline, HistoryEmpty, Recorded
  <2>2. command[e].rev \in Revision
    BY <1>1, <1>6, CommandType DEF TypeOK, RecordBaseline
  <2>3. ASSUME NEW p \in Path
        PROVE  Standing'[p] = IF p \in adopted THEN "settled" ELSE "new"
    <3>1. CASE p \in adopted
      <4> DEFINE row == RowOf(EntryOf(p, command[e].rev), "BASELINED")
      <4>1. row \in Row /\ row.status \in Terminal
        BY <2>2, <3>1, EntryOfType DEF RowOf, Row, Migration, Terminal
      <4>2. history'[p] = Append(history[p], row) /\ history[p] \in Seq(Row)
        BY <1>1, <1>6, <3>1 DEF RecordBaseline, TypeOK
      <4> HIDE DEF row
      <4> QED
        BY <3>1, <4>1, <4>2, AppendedRows, StandingOfNext
    <3>2. CASE p \notin adopted
      <4>1. history'[p] = <<>>
        BY <1>6, <2>1, <3>2 DEF RecordBaseline
      <4> QED
        BY <3>2, <4>1, StandingOfNext
    <3> QED
      BY <3>1, <3>2
  <2>4. Standing' = [p \in Path |-> IF p \in adopted THEN "settled" ELSE "new"]
    <3>1. Standing' = [p \in Path |-> Standing'[p]]
      BY DEF Standing
    <3> HIDE DEF adopted
    <3> QED
      BY <2>3, <3>1
  <2>5. Ledger!Adopt(adopted)
    BY <1>6, <2>1, <2>4, StandingOf DEF Ledger!Adopt, RecordBaseline
  <2> QED
    BY <2>5 DEF Ledger!LedgerNext
<1>7. ASSUME NEW e \in Engineer, RecordResolve(e)
      PROVE  Ledger!LedgerNext \/ UNCHANGED <<Standing, sent>>
  <2>1. command[e].entry.path \in Path
    BY <1>1, <1>7, CommandType DEF RecordResolve, TypeOK, Migration
  <2> QED
    BY <1>7, <2>1, ReviewedStanding DEF Ledger!LedgerNext, RecordResolve
<1>8. ASSUME UNCHANGED <<history, sent>>
      PROVE  UNCHANGED <<Standing, sent>>
  BY <1>2, <1>8
<1> QED
  BY <1>3, <1>4, <1>5, <1>6, <1>7, <1>8
     DEF Next, vars, StartDeployment, Proceed, Skip, ExecutionSucceeds, ExecutionFails,
         FinishDeployment, Crash, SnowflakeEnds, Operate, CheckBaseline, CheckResolve,
         Abandon

-----------------------------------------------------------------------------
\* Progress of a job

\* A job that works is at an entry of its plan, or just past the last one.
PlaceInv == \A w \in Runner : pc[w] # "idle" => at[w] <= Size(rev[w]) + 1

\* A bound on the steps a job has left: five for each entry before it (skip, or
\* record, submit, return, close), fewer within an entry, none when it is idle.
Within(state) ==
  IF state = "deciding" THEN 1 ELSE
  IF state = "recorded" THEN 0 ELSE
  IF state = "executing" THEN -1 ELSE
  IF state = "applied" THEN -2 ELSE -3
StepsLeft(w) ==
  IF pc[w] = "idle" THEN 0 ELSE 5 * (Size(rev[w]) + 1 - at[w]) + Within(pc[w])

\* What the bound counts, while a job works.
LEMMA PlaceFacts ==
  ASSUME OnceInv, PlaceInv, NEW w \in Runner, pc[w] # "idle"
  PROVE  /\ Size(rev[w]) \in Nat /\ at[w] \in Nat \ {0}
         /\ at[w] <= Size(rev[w]) + 1
         /\ pc[w] # "deciding" => at[w] <= Size(rev[w])
         /\ DOMAIN Migrations(rev[w]) = 1..Size(rev[w])
         /\ pc[w] \in {"deciding", "recorded", "executing", "applied", "failing"}
<1>1. TypeOK /\ rev[w] \in Revision
  BY DEF OnceInv, TypeOK
<1>2. Size(rev[w]) \in Nat /\ DOMAIN Migrations(rev[w]) = 1..Size(rev[w])
  BY <1>1, ManifestEntries DEF Migrations
<1>3. pc[w] # "deciding" => at[w] \in DOMAIN Migrations(rev[w])
  BY DEF OnceInv, AttemptInv
<1> QED
  BY <1>1, <1>2, <1>3 DEF PlaceInv, TypeOK, RunnerState

\* The bound of a working job is a positive number.
LEMMA StepsLeftType ==
  ASSUME OnceInv, PlaceInv, NEW w \in Runner
  PROVE  StepsLeft(w) \in Nat /\ (pc[w] # "idle" => StepsLeft(w) > 0)
  BY PlaceFacts DEF StepsLeft, Within

\* Each step of a job itself brings it nearer to its end.
LEMMA ProceedNearer ==
  ASSUME OnceInv, PlaceInv, NEW w \in Runner, Proceed(w)
  PROVE  /\ StepsLeft(w)' < StepsLeft(w)
         /\ StepsLeft(w)' <= StepsLeft(w)
         /\ pc'[w] # "idle" => at'[w] <= Size(rev'[w]) + 1
<1>1. pc[w] # "idle"
  BY DEF Proceed, Skip, RecordStarted, SubmitFile, ExecutionSucceeds, ExecutionFails,
         RecordSucceeded, RecordFailed, FinishDeployment
<1>2. /\ Size(rev[w]) \in Nat /\ at[w] \in Nat \ {0}
      /\ at[w] <= Size(rev[w]) + 1
      /\ pc[w] # "deciding" => at[w] <= Size(rev[w])
      /\ DOMAIN Migrations(rev[w]) = 1..Size(rev[w])
      /\ pc[w] \in {"deciding", "recorded", "executing", "applied", "failing"}
  BY <1>1, PlaceFacts
<1>3. /\ pc \in [Runner -> RunnerState]
      /\ at \in [Runner -> Nat \ {0}]
  BY DEF OnceInv, TypeOK
<1>4. /\ StepsLeft(w) = 5 * (Size(rev[w]) + 1 - at[w]) + Within(pc[w])
      /\ pc'[w] # "idle" =>
           StepsLeft(w)' = 5 * (Size(rev'[w]) + 1 - at'[w]) + Within(pc'[w])
      /\ pc'[w] = "idle" => StepsLeft(w)' = 0
  BY <1>1 DEF StepsLeft, Size, Within
<1>5. CASE Skip(w)
  <2>1. /\ pc[w] = "deciding" /\ pc'[w] = "deciding" /\ rev'[w] = rev[w]
        /\ at'[w] = at[w] + 1 /\ at[w] <= Size(rev[w])
    BY <1>2, <1>3, <1>5 DEF Skip
  <2> QED
    BY <1>2, <1>4, <2>1 DEF Within
<1>6. CASE RecordStarted(w)
  <2>1. /\ pc[w] = "deciding" /\ pc'[w] = "recorded" /\ rev'[w] = rev[w]
        /\ at'[w] = at[w]
    BY <1>3, <1>6 DEF RecordStarted
  <2> QED
    BY <1>2, <1>4, <2>1 DEF Within
<1>7. CASE SubmitFile(w) \/ ExecutionSucceeds(w) \/ ExecutionFails(w)
  <2>1. /\ rev'[w] = rev[w] /\ at'[w] = at[w]
        /\ \/ pc[w] = "recorded" /\ pc'[w] = "executing"
           \/ pc[w] = "executing" /\ pc'[w] = "applied"
           \/ pc[w] \in {"recorded", "executing"} /\ pc'[w] = "failing"
    BY <1>3, <1>7 DEF SubmitFile, ExecutionSucceeds, ExecutionFails
  <2> QED
    BY <1>2, <1>4, <2>1 DEF Within
<1>8. CASE RecordSucceeded(w)
  <2>1. /\ pc[w] = "applied" /\ pc'[w] = "deciding" /\ rev'[w] = rev[w]
        /\ at'[w] = at[w] + 1
    BY <1>3, <1>8 DEF RecordSucceeded
  <2> QED
    BY <1>2, <1>4, <2>1 DEF Within
<1>9. CASE RecordFailed(w) \/ FinishDeployment(w)
  <2>1. pc'[w] = "idle"
    BY <1>3, <1>9 DEF RecordFailed, FinishDeployment, JobEnds
  <2> QED
    BY <1>1, <1>4, <2>1, StepsLeftType
<1> QED
  BY <1>5, <1>6, <1>7, <1>8, <1>9 DEF Proceed

\* No step of anybody else moves a working job, except that it may die.
LEMMA OthersLeaveJob ==
  ASSUME OnceInv, [Next]_vars, NEW w \in Runner, pc[w] # "idle", ~Proceed(w)
  PROVE  \/ pc'[w] = "idle"
         \/ pc'[w] = pc[w] /\ rev'[w] = rev[w] /\ at'[w] = at[w]
<1>1. ASSUME NEW v \in Runner, NEW r \in Revision, StartDeployment(v, r)
      PROVE  FALSE
  BY <1>1 DEF StartDeployment
<1>2. ASSUME NEW v \in Runner, Proceed(v)
      PROVE  pc'[w] = pc[w] /\ rev'[w] = rev[w] /\ at'[w] = at[w]
  BY <1>2 DEF Proceed, Skip, RecordStarted, SubmitFile, ExecutionSucceeds,
              ExecutionFails, RecordSucceeded, RecordFailed, FinishDeployment,
              OnceInv, GroupInv
<1>3. ASSUME NEW v \in Runner, Crash(v)
      PROVE  \/ pc'[w] = "idle"
             \/ pc'[w] = pc[w] /\ rev'[w] = rev[w] /\ at'[w] = at[w]
  BY <1>3 DEF Crash, JobEnds, OnceInv, TypeOK
<1>4. CASE UNCHANGED runnerVars
  BY <1>4 DEF runnerVars
<1>5. ASSUME NEW p \in Path, SnowflakeEnds(p)
      PROVE  UNCHANGED runnerVars
  BY <1>5 DEF SnowflakeEnds
<1>6. ASSUME NEW e \in Engineer, Operate(e)
      PROVE  UNCHANGED runnerVars
  BY <1>6 DEF Operate, CheckBaseline, RecordBaseline, CheckResolve, RecordResolve, Abandon
<1>7. UNCHANGED vars => UNCHANGED runnerVars
  BY DEF vars, runnerVars
<1> QED
  BY <1>1, <1>2, <1>3, <1>4, <1>5, <1>6, <1>7 DEF Next

\* A step keeps the job at its plan and never takes it further from its end.
LEMMA NearerNext ==
  ASSUME OnceInv, PlaceInv, [Next]_vars
  PROVE  /\ PlaceInv'
         /\ \A w \in Runner : /\ Proceed(w) => StepsLeft(w)' < StepsLeft(w)
                              /\ pc[w] # "idle" => StepsLeft(w)' <= StepsLeft(w)
<1>1. ASSUME NEW w \in Runner, pc[w] = "idle", pc'[w] # "idle"
      PROVE  at'[w] <= Size(rev'[w]) + 1
  <2>1. at'[w] = 1
    <3>1. ASSUME NEW v \in Runner, NEW r \in Revision, StartDeployment(v, r)
          PROVE  at'[w] = 1
      BY <1>1, <3>1 DEF StartDeployment, OnceInv, TypeOK
    <3>2. ASSUME NEW v \in Runner, Proceed(v) \/ Crash(v)
          PROVE  pc'[w] = "idle"
      <4>1. v # w
        BY <1>1, <3>2 DEF Proceed, Skip, RecordStarted, SubmitFile, ExecutionSucceeds,
             ExecutionFails, RecordSucceeded, RecordFailed, FinishDeployment, Crash
      <4>2. pc \in [Runner -> RunnerState]
        BY DEF OnceInv, TypeOK
      <4> QED
        BY <1>1, <3>2, <4>1, <4>2 DEF Proceed, Skip, RecordStarted, SubmitFile,
           ExecutionSucceeds, ExecutionFails, RecordSucceeded, RecordFailed,
           FinishDeployment, Crash, JobEnds
    <3>3. ASSUME UNCHANGED runnerVars
          PROVE  FALSE
      BY <1>1, <3>3 DEF runnerVars
    <3>4. ASSUME NEW p \in Path, SnowflakeEnds(p)
          PROVE  UNCHANGED runnerVars
      BY <3>4 DEF SnowflakeEnds
    <3>5. ASSUME NEW e \in Engineer, Operate(e)
          PROVE  UNCHANGED runnerVars
      BY <3>5 DEF Operate, CheckBaseline, RecordBaseline, CheckResolve, RecordResolve,
                  Abandon
    <3>6. UNCHANGED vars => UNCHANGED runnerVars
      BY DEF vars, runnerVars
    <3> QED
      BY <1>1, <3>1, <3>2, <3>3, <3>4, <3>5, <3>6 DEF Next
  <2>2. TypeOK'
    BY OnceInvNext DEF OnceInv
  <2>3. Size(rev'[w]) \in Nat
    BY <2>2, ManifestEntries DEF TypeOK
  <2> QED
    BY <2>1, <2>3
<1>2. ASSUME NEW w \in Runner, pc[w] # "idle", ~Proceed(w)
      PROVE  /\ pc'[w] # "idle" => at'[w] <= Size(rev'[w]) + 1
             /\ StepsLeft(w)' <= StepsLeft(w)
  <2>1. CASE pc'[w] = "idle"
    BY <1>2, <2>1, StepsLeftType DEF StepsLeft
  <2>2. CASE pc'[w] = pc[w] /\ rev'[w] = rev[w] /\ at'[w] = at[w]
    <3>1. StepsLeft(w)' = StepsLeft(w)
      BY <2>2 DEF StepsLeft, Size, Within
    <3> QED
      BY <1>2, <2>2, <3>1, StepsLeftType DEF PlaceInv
  <2> QED
    BY <1>2, <2>1, <2>2, OthersLeaveJob
<1>3. PlaceInv'
  <2> SUFFICES ASSUME NEW w \in Runner, pc'[w] # "idle"
               PROVE  at'[w] <= Size(rev'[w]) + 1
    BY DEF PlaceInv, Size
  <2> QED
    BY <1>1, <1>2, ProceedNearer
<1>4. ASSUME NEW w \in Runner, pc[w] # "idle"
      PROVE  StepsLeft(w)' <= StepsLeft(w)
  <2>1. CASE Proceed(w)
    BY <2>1, ProceedNearer
  <2> QED
    BY <1>2, <1>4, <2>1
<1> QED
  BY <1>3, <1>4, ProceedNearer

-----------------------------------------------------------------------------
\* Theorems

\* The strengthened invariant holds of every behaviour of the deployment.
THEOREM OnceInvariant == Spec => []OnceInv
  BY OnceInvInit, OnceInvNext, PTL DEF Spec

\* The types of the variables, the DEPLOYMENT_HISTORY rows included, hold for
\* every manifest, however jobs and engineers interleave.
THEOREM TypeCorrect == Spec => []TypeOK
<1>1. OnceInv => TypeOK
  BY DEF OnceInv
<1> QED
  BY <1>1, OnceInvariant, PTL

\* deploy_migrations hands no migration file to Snowflake twice: for any
\* manifests, any order of revisions, any crashes, and any number of engineers
\* baselining and resolving while a deployment runs.
THEOREM AppliedAtMostOnce == Spec => []AtMostOnce
<1>1. OnceInv => AtMostOnce
  <2> SUFFICES ASSUME OnceInv, NEW p \in Path PROVE sent[p] <= 1
    BY DEF AtMostOnce
  <2>1. sent[p] = 0 \/ sent[p] = 1
    BY DEF OnceInv, SentInv
  <2> QED
    BY <2>1
<1> QED
  BY <1>1, OnceInvariant, PTL

\* deploy_migrations gets past a manifest entry only when it is settled, for any
\* manifests, revisions, jobs and engineers: after a failure, a death or a lost
\* answer nothing is executed that comes later in the manifest.
THEOREM DeployedInOrder == Spec => []InOrder
<1>1. Init => OrderInv
  BY DEF Init, OrderInv, OpenInv, KnownInv, ReachInv, InOrder
<1>2. OrderInv => InOrder
  BY DEF OrderInv
<1> QED
  BY <1>1, <1>2, OnceInvariant, OrderNext, PTL DEF Spec

\* A SUCCEEDED row of DEPLOYMENT_HISTORY is true, for any manifests, revisions,
\* jobs and engineers: the whole file of its path has run.
THEOREM SuccessIsTrue == Spec => []SuccessIsReal
<1>1. Init => RealInv
  BY DEF Init, RealInv, FileInv, AppliedInv, SuccessIsReal
<1>2. RealInv => SuccessIsReal
  BY DEF RealInv
<1> QED
  BY <1>1, <1>2, OnceInvariant, RealNext, PTL DEF Spec

\* If no two baselines overlap, whatever else engineers do, the recorded paths of a
\* scope are positions 1..n of one sequence, whatever revisions are deployed in
\* whatever order: manifests grow at their end or are refused.  (Two baselines of
\* different revisions, both checked before either is recorded, would break it.)
THEOREM SequenceIsLocked == Spec /\ []BaselinesApart => []SequenceLocked
<1>1. Init => OrderInv
  BY DEF Init, OrderInv, OpenInv, KnownInv, ReachInv, InOrder
<1>2. Init => LockInv
  BY LockInvInit
<1>3. BaselinesApart /\ OnceInv /\ OrderInv /\ LockInv /\ [Next]_vars => LockInv'
  BY LockNext
<1>4. LockInv => SequenceLocked
  BY DEF LockInv
<1> QED
  BY <1>1, <1>2, <1>3, <1>4, OnceInvariant, OrderNext, PTL DEF Spec

\* If no two baselines overlap, an unresolved attempt is
\* settled only by the end of its own file or by a review of it, and a recorded
\* failure blocks its migration unless its review was recorded before it.
THEOREM UnblockedOnlyByReview == Spec /\ []BaselinesApart => UnblockedByReview
<1>1. Init => OrderInv /\ RealInv
  BY DEF Init, OrderInv, OpenInv, KnownInv, ReachInv, InOrder,
         RealInv, FileInv, AppliedInv, SuccessIsReal
<1>2. BaselinesApart /\ OnceInv /\ OrderInv /\ LockInv /\ [Next]_vars => LockInv'
  BY LockNext
<1>3. BaselinesApart /\ OnceInv /\ OrderInv /\ RealInv /\ LockInv /\ [Next]_vars =>
        [\A p \in Path :
           /\ Blocked(p) /\ Settled(p)' /\ ~FailureRecorded(p) =>
                Reviewed(p) \/ (file[p] = "full" /\ Latest(p)'.status = "SUCCEEDED")
           /\ FailureRecorded(p) => Blocked(p)' \/ Latest(p)'.status = "REMEDIATED"]_vars
  BY UnblockingStep
<1> QED
  BY <1>1, <1>2, <1>3, LockInvInit, OnceInvariant, OrderNext, RealNext, PTL
     DEF Spec, UnblockedByReview

\* If no two baselines overlap, deployment implements the
\* abstract ledger: a migration is new, then attempted, then settled, never goes
\* back, and its file goes out at most once, after it was announced.
THEOREM LedgerImplemented == Spec /\ []BaselinesApart => ImplementsLedger
<1>1. Init => OrderInv
  BY DEF Init, OrderInv, OpenInv, KnownInv, ReachInv, InOrder
<1>2. Init => Ledger!LedgerInit
  BY DEF Init, Ledger!LedgerInit, Standing, Recorded
<1>3. BaselinesApart /\ OnceInv /\ OrderInv /\ LockInv /\ [Next]_vars => LockInv'
  BY LockNext
<1>4. BaselinesApart /\ OnceInv /\ OrderInv /\ LockInv /\ [Next]_vars =>
        [Ledger!LedgerNext]_(Ledger!ledgerVars)
  BY LedgerStep
<1> QED
  BY <1>1, <1>2, <1>3, <1>4, LockInvInit, OnceInvariant, OrderNext, PTL
     DEF Spec, ImplementsLedger, Ledger!LedgerSpec

\* A job of deploy_migrations has a bounded way to go, for any manifests, jobs and
\* engineers: each of its own steps, a skip included, brings it nearer to its end, and
\* no step of an engineer, of Snowflake or of another job ever takes it further away.
\* (With fair scheduling this is why the concurrency group is released.)
THEOREM JobsGetNearer ==
  Spec => /\ [](\A w \in Runner : /\ StepsLeft(w) \in Nat
                                  /\ pc[w] # "idle" => StepsLeft(w) > 0)
          /\ [][\A w \in Runner :
                  /\ Proceed(w) => StepsLeft(w)' < StepsLeft(w)
                  /\ pc[w] # "idle" => StepsLeft(w)' <= StepsLeft(w)]_vars
<1>1. Init => PlaceInv
  BY DEF Init, PlaceInv
<1>2. OnceInv /\ PlaceInv /\ [Next]_vars => PlaceInv'
  BY NearerNext
<1>3. OnceInv /\ PlaceInv =>
        \A w \in Runner : /\ StepsLeft(w) \in Nat
                          /\ pc[w] # "idle" => StepsLeft(w) > 0
  BY StepsLeftType
<1>4. OnceInv /\ PlaceInv /\ [Next]_vars =>
        [\A w \in Runner :
           /\ Proceed(w) => StepsLeft(w)' < StepsLeft(w)
           /\ pc[w] # "idle" => StepsLeft(w)' <= StepsLeft(w)]_vars
  BY NearerNext
<1> QED
  BY <1>1, <1>2, <1>3, <1>4, OnceInvariant, PTL DEF Spec
=============================================================================
