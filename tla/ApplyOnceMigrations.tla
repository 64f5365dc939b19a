----------------------- MODULE ApplyOnceMigrations -----------------------
(***************************************************************************)
(* Apply-once deployment of the CONTROL and SILVER manifests into one      *)
(* Snowflake environment (migration_model.py, migration_snowflake.py).     *)
(*                                                                         *)
(* Runners are jobs of the reusable deployment workflow; its concurrency   *)
(* group lets one of them work at a time.  Engineers run `esf-migrate      *)
(* baseline` and `esf-migrate resolve` by hand, outside that group.  Each  *)
(* call of the Snowflake CLI is a step of its own, and a runner may die    *)
(* between any two of them while Snowflake goes on with a submitted file.  *)
(***************************************************************************)
EXTENDS Integers, Sequences

CONSTANTS
  Path,             \* migration paths
  ControlPath,      \* the paths under control_plane/; the rest are silver
  Checksum,         \* SHA-256 values
  Revision,         \* committed project revisions that may be deployed
  ControlManifest,  \* revision -> sequence of control paths
  SilverManifest,   \* revision -> sequence of silver paths
  FileSum,          \* revision -> path -> checksum of the file at that path
  Runner,           \* workflow jobs
  Engineer,         \* people running baseline and resolve
  MaxRows           \* bound: history rows kept for one path

\* What load_migrations accepts: no path twice, none under the wrong prefix.
ASSUME ManifestAssumption ==
  /\ Revision # {}
  /\ ControlPath \subseteq Path
  /\ ControlManifest \in [Revision -> Seq(ControlPath)]
  /\ SilverManifest \in [Revision -> Seq(Path \ ControlPath)]
  /\ FileSum \in [Revision -> [Path -> Checksum]]
  /\ \A r \in Revision :
       /\ ControlManifest[r] # <<>> /\ SilverManifest[r] # <<>>
       /\ \A i, j \in DOMAIN ControlManifest[r] :
            ControlManifest[r][i] = ControlManifest[r][j] => i = j
       /\ \A i, j \in DOMAIN SilverManifest[r] :
            SilverManifest[r][i] = SilverManifest[r][j] => i = j

ASSUME BoundAssumption == MaxRows \in Nat

VARIABLES
  history,    \* CONTROL.DEPLOYMENT_HISTORY: path -> rows, oldest STARTED_AT first
  legacy,     \* managed objects were there before any recorded migration
  file,       \* what Snowflake has done with the file of a path
  sent,       \* how often the file of a path was submitted (ghost)
  pc,         \* where a runner is in deploy_migrations
  rev,        \* the revision a runner has checked out
  at,         \* index of the plan decision a runner has reached
  known,      \* paths that had a history row when a runner planned
  attempt,    \* the row (its attempt id) a runner has inserted last
  command     \* what an engineer has checked and is about to record

runnerVars == <<pc, rev, at, known, attempt>>
vars == <<history, legacy, file, sent, pc, rev, at, known, attempt, command>>

-----------------------------------------------------------------------------
\* Types

Terminal == {"SUCCEEDED", "BASELINED", "REMEDIATED"}
Blocking == {"STARTED", "FAILED"}
Migration == [path : Path, pos : Nat, sum : Checksum]
Row == [sum : Checksum, pos : Nat, status : Terminal \cup Blocking]
NoCommand == [kind |-> "none"]
Command == {NoCommand}
             \cup [kind : {"baseline"}, rev : Revision]
             \cup [kind : {"resolve"}, entry : Migration]
RunnerState == {"idle", "deciding", "recorded", "executing", "applied", "failing"}

TypeOK ==
  /\ history \in [Path -> Seq(Row)]
  /\ legacy \in BOOLEAN
  /\ file \in [Path -> {"unsent", "running", "partial", "full"}]
  /\ sent \in [Path -> Nat]
  /\ pc \in [Runner -> RunnerState]
  /\ rev \in [Runner -> Revision]
  /\ at \in [Runner -> Nat \ {0}]
  /\ known \in [Runner -> SUBSET Path]
  /\ attempt \in [Runner -> Nat]
  /\ command \in [Engineer -> Command]

-----------------------------------------------------------------------------
\* Manifests and history

\* load_migrations: control entries, then silver entries, each with its
\* position in its own manifest and the checksum of the checked-out bytes.
Size(r) == Len(ControlManifest[r]) + Len(SilverManifest[r])
IsControl(r, i) == i <= Len(ControlManifest[r])
PositionAt(r, i) == IF IsControl(r, i) THEN i ELSE i - Len(ControlManifest[r])
PathAt(r, i) == IF IsControl(r, i) THEN ControlManifest[r][PositionAt(r, i)]
                                  ELSE SilverManifest[r][PositionAt(r, i)]
Migrations(r) ==
  [i \in 1..Size(r) |-> [path |-> PathAt(r, i), pos |-> PositionAt(r, i),
                         sum |-> FileSum[r][PathAt(r, i)]]]

Recorded(p) == history[p] # <<>>

\* latest_history: the row of a path with the newest STARTED_AT.
Latest(p) == history[p][Len(history[p])]

Settled(p) == Recorded(p) /\ Latest(p).status \in Terminal
Blocked(p) == Recorded(p) /\ Latest(p).status \in Blocking

HistoryEmpty == \A p \in Path : ~Recorded(p)
\* existing_managed_object_count > 0.  A file that was submitted has a row,
\* and with a row the count decides nothing, so a file counts at once.
ManagedObjects == legacy \/ \E p \in Path : file[p] # "unsent"

Matches(m, row) == m.pos = row.pos /\ m.sum = row.sum

RowOf(m, status) == [sum |-> m.sum, pos |-> m.pos, status |-> status]

AddRow(m, status) ==
  history' = [history EXCEPT ![m.path] = Append(@, RowOf(m, status))]

InManifestAs(p, r, row) ==
  \E i \in DOMAIN Migrations(r) :
    Migrations(r)[i].path = p /\ Matches(Migrations(r)[i], row)

\* Faulty: a recorded path may move within its manifest.
PlanReadyAnywhere(r) ==
  \A p \in Path : Recorded(p) =>
    /\ Latest(p).status \in Terminal
    /\ \E i \in DOMAIN Migrations(r) :
         Migrations(r)[i].path = p /\ Migrations(r)[i].sum = Latest(p).sum

\* build_migration_plan has no error: every recorded path is still in the
\* manifests, where it was, unchanged, and its latest row is terminal.
PlanReady(r) ==
  \A p \in Path : Recorded(p) =>
    Latest(p).status \in Terminal /\ InManifestAs(p, r, Latest(p))

\* The decision a runner has reached.
Current(w) == Migrations(rev[w])[at[w]]

\* The process is gone, and its locals with it.
NoRevision == CHOOSE r \in Revision : TRUE
JobEnds(w) ==
  /\ pc' = [pc EXCEPT ![w] = "idle"]
  /\ rev' = [rev EXCEPT ![w] = NoRevision]
  /\ at' = [at EXCEPT ![w] = 1]
  /\ known' = [known EXCEPT ![w] = {}]
  /\ attempt' = [attempt EXCEPT ![w] = 0]

-----------------------------------------------------------------------------
\* deploy_migrations

\* Faulty: two jobs at once, as without the concurrency group.
StartDeploymentUngrouped(w, r) ==
  /\ pc[w] = "idle"
  /\ HistoryEmpty => ~ManagedObjects
  /\ PlanReady(r)
  /\ pc' = [pc EXCEPT ![w] = "deciding"]
  /\ rev' = [rev EXCEPT ![w] = r]
  /\ at' = [at EXCEPT ![w] = 1]
  /\ known' = [known EXCEPT ![w] = {p \in Path : Recorded(p)}]
  /\ UNCHANGED <<history, legacy, file, sent, attempt, command>>

\* Faulty: an unresolved attempt is retried instead of blocking.
StartDeploymentRetrying(w, r) ==
  /\ \A other \in Runner : pc[other] = "idle"
  /\ HistoryEmpty => ~ManagedObjects
  /\ \A p \in Path : Recorded(p) => InManifestAs(p, r, Latest(p))
  /\ pc' = [pc EXCEPT ![w] = "deciding"]
  /\ rev' = [rev EXCEPT ![w] = r]
  /\ at' = [at EXCEPT ![w] = 1]
  /\ known' = [known EXCEPT ![w] = {p \in Path : Settled(p)}]
  /\ UNCHANGED <<history, legacy, file, sent, attempt, command>>

\* The workflow's concurrency group admits a job only while no other works.
\* Counting objects, the bootstrap and reading the history change nothing
\* else, and objects are never dropped, so they are one step; a deployment
\* that is blocked here leaves no trace.
StartDeployment(w, r) ==
  /\ \A other \in Runner : pc[other] = "idle"
  /\ HistoryEmpty => ~ManagedObjects
  /\ PlanReady(r)
  /\ pc' = [pc EXCEPT ![w] = "deciding"]
  /\ rev' = [rev EXCEPT ![w] = r]
  /\ at' = [at EXCEPT ![w] = 1]
  /\ known' = [known EXCEPT ![w] = {p \in Path : Recorded(p)}]
  /\ UNCHANGED <<history, legacy, file, sent, attempt, command>>

\* Faulty: a skipped decision is not left behind.
SkipForever(w) ==
  /\ pc[w] = "deciding"
  /\ at[w] \in DOMAIN Migrations(rev[w])
  /\ Current(w).path \in known[w]
  /\ UNCHANGED vars

\* SKIP: the path had a (terminal) row when the plan was made.
Skip(w) ==
  /\ pc[w] = "deciding"
  /\ at[w] \in DOMAIN Migrations(rev[w])
  /\ Current(w).path \in known[w]
  /\ at' = [at EXCEPT ![w] = @ + 1]
  /\ UNCHANGED <<history, legacy, file, sent, pc, rev, known, attempt, command>>

\* APPLY: the STARTED row is committed before anything is executed.
RecordStarted(w) ==
  /\ pc[w] = "deciding"
  /\ at[w] \in DOMAIN Migrations(rev[w])
  /\ Current(w).path \notin known[w]
  /\ Len(history[Current(w).path]) < MaxRows
  /\ AddRow(Current(w), "STARTED")
  /\ attempt' = [attempt EXCEPT ![w] = Len(history[Current(w).path]) + 1]
  /\ pc' = [pc EXCEPT ![w] = "recorded"]
  /\ UNCHANGED <<legacy, file, sent, rev, at, known, command>>

\* execute_file reaches Snowflake.
SubmitFile(w) ==
  /\ pc[w] = "recorded"
  /\ file' = [file EXCEPT ![Current(w).path] = "running"]
  /\ sent' = [sent EXCEPT ![Current(w).path] = @ + 1]
  /\ pc' = [pc EXCEPT ![w] = "executing"]
  /\ UNCHANGED <<history, legacy, rev, at, known, attempt, command>>

\* Snowflake stops at the first failing statement, or gets through the file.
SnowflakeEnds(p) ==
  /\ file[p] = "running"
  /\ \E outcome \in {"partial", "full"} : file' = [file EXCEPT ![p] = outcome]
  /\ UNCHANGED <<history, legacy, sent, runnerVars, command>>

\* Faulty: the exit code of the CLI is not looked at.
ExecutionAssumed(w) ==
  /\ pc[w] = "executing"
  /\ file[Current(w).path] # "running"
  /\ pc' = [pc EXCEPT ![w] = "applied"]
  /\ UNCHANGED <<history, legacy, file, sent, rev, at, known, attempt, command>>

\* execute_file returns.
ExecutionSucceeds(w) ==
  /\ pc[w] = "executing"
  /\ file[Current(w).path] = "full"
  /\ pc' = [pc EXCEPT ![w] = "applied"]
  /\ UNCHANGED <<history, legacy, file, sent, rev, at, known, attempt, command>>

\* execute_file raises: the file failed, or the CLI could not reach Snowflake
\* or lost the answer of a file that is running or has run.
ExecutionFails(w) ==
  /\ pc[w] \in {"recorded", "executing"}
  /\ pc' = [pc EXCEPT ![w] = "failing"]
  /\ UNCHANGED <<history, legacy, file, sent, rev, at, known, attempt, command>>

\* record_succeeded and record_failed update the row with the attempt's id,
\* if it is still STARTED.
CloseAttempt(w, status) ==
  history' = [history EXCEPT ![Current(w).path][attempt[w]].status =
                IF @ = "STARTED" THEN status ELSE @]

RecordSucceeded(w) ==
  /\ pc[w] = "applied"
  /\ CloseAttempt(w, "SUCCEEDED")
  /\ pc' = [pc EXCEPT ![w] = "deciding"]
  /\ at' = [at EXCEPT ![w] = @ + 1]
  /\ UNCHANGED <<legacy, file, sent, rev, known, attempt, command>>

\* Faulty: the failure is recorded and the next decision is taken.
RecordFailedAndGoOn(w) ==
  /\ pc[w] = "failing"
  /\ CloseAttempt(w, "FAILED")
  /\ pc' = [pc EXCEPT ![w] = "deciding"]
  /\ at' = [at EXCEPT ![w] = @ + 1]
  /\ UNCHANGED <<legacy, file, sent, rev, known, attempt, command>>

\* The failure is recorded and the deployment stops.
RecordFailed(w) ==
  /\ pc[w] = "failing"
  /\ CloseAttempt(w, "FAILED")
  /\ JobEnds(w)
  /\ UNCHANGED <<legacy, file, sent, command>>

\* The plan is exhausted.
FinishDeployment(w) ==
  /\ pc[w] = "deciding"
  /\ at[w] \notin DOMAIN Migrations(rev[w])
  /\ JobEnds(w)
  /\ UNCHANGED <<history, legacy, file, sent, command>>

\* The job dies, or a statement on the history table fails; either ends the
\* deployment where it is, and the group is free again.
Crash(w) ==
  /\ pc[w] # "idle"
  /\ JobEnds(w)
  /\ UNCHANGED <<history, legacy, file, sent, command>>

-----------------------------------------------------------------------------
\* baseline_existing_migrations and remediate_migration: the check and the
\* insert are two calls of the CLI, outside the concurrency group.

\* Faulty: an environment with a history may be baselined.
CheckBaselineAnytime(e, r) ==
  /\ command[e] = NoCommand
  /\ ManagedObjects
  /\ command' = [command EXCEPT ![e] = [kind |-> "baseline", rev |-> r]]
  /\ UNCHANGED <<history, legacy, file, sent, runnerVars>>

CheckBaseline(e, r) ==
  /\ command[e] = NoCommand
  /\ ManagedObjects
  /\ HistoryEmpty
  /\ command' = [command EXCEPT ![e] = [kind |-> "baseline", rev |-> r]]
  /\ UNCHANGED <<history, legacy, file, sent, runnerVars>>

InManifest(p, r) == \E i \in DOMAIN Migrations(r) : Migrations(r)[i].path = p
EntryOf(p, r) ==
  Migrations(r)[CHOOSE i \in DOMAIN Migrations(r) : Migrations(r)[i].path = p]

\* Faulty: a status the planner does not know.
RecordBaselineMisspelt(e) ==
  /\ command[e].kind = "baseline"
  /\ \A p \in Path : Len(history[p]) < MaxRows
  /\ history' = [p \in Path |->
       IF InManifest(p, command[e].rev)
         THEN Append(history[p], RowOf(EntryOf(p, command[e].rev), "BASELINE"))
         ELSE history[p]]
  /\ command' = [command EXCEPT ![e] = NoCommand]
  /\ UNCHANGED <<legacy, file, sent, runnerVars>>

\* One INSERT writes a BASELINED row for every entry of the manifests.
RecordBaseline(e) ==
  /\ command[e].kind = "baseline"
  /\ \A p \in Path : Len(history[p]) < MaxRows
  /\ history' = [p \in Path |->
       IF InManifest(p, command[e].rev)
         THEN Append(history[p], RowOf(EntryOf(p, command[e].rev), "BASELINED"))
         ELSE history[p]]
  /\ command' = [command EXCEPT ![e] = NoCommand]
  /\ UNCHANGED <<legacy, file, sent, runnerVars>>

\* The latest attempt is unresolved and the checked-out file is the same.
CheckResolve(e, r, p) ==
  /\ command[e] = NoCommand
  /\ InManifest(p, r)
  /\ Blocked(p)
  /\ Matches(EntryOf(p, r), Latest(p))
  /\ command' = [command EXCEPT ![e] = [kind |-> "resolve", entry |-> EntryOf(p, r)]]
  /\ UNCHANGED <<history, legacy, file, sent, runnerVars>>

RecordResolve(e) ==
  /\ command[e].kind = "resolve"
  /\ Len(history[command[e].entry.path]) < MaxRows
  /\ AddRow(command[e].entry, "REMEDIATED")
  /\ command' = [command EXCEPT ![e] = NoCommand]
  /\ UNCHANGED <<legacy, file, sent, runnerVars>>

\* The command dies before its insert.
Abandon(e) ==
  /\ command[e] # NoCommand
  /\ command' = [command EXCEPT ![e] = NoCommand]
  /\ UNCHANGED <<history, legacy, file, sent, runnerVars>>

-----------------------------------------------------------------------------
\* The specification

Init ==
  /\ history = [p \in Path |-> <<>>]
  /\ legacy \in BOOLEAN
  /\ file = [p \in Path |-> "unsent"]
  /\ sent = [p \in Path |-> 0]
  /\ pc = [w \in Runner |-> "idle"]
  /\ rev = [w \in Runner |-> NoRevision]
  /\ at = [w \in Runner |-> 1]
  /\ known = [w \in Runner |-> {}]
  /\ attempt = [w \in Runner |-> 0]
  /\ command = [e \in Engineer |-> NoCommand]

\* The steps of a started deployment, short of its death.
Proceed(w) ==
  \/ Skip(w)
  \/ RecordStarted(w)
  \/ SubmitFile(w)
  \/ ExecutionSucceeds(w)
  \/ ExecutionFails(w)
  \/ RecordSucceeded(w)
  \/ RecordFailed(w)
  \/ FinishDeployment(w)

Operate(e) ==
  \/ \E r \in Revision : CheckBaseline(e, r)
  \/ RecordBaseline(e)
  \/ \E r \in Revision, p \in Path : CheckResolve(e, r, p)
  \/ RecordResolve(e)
  \/ Abandon(e)

Next ==
  \/ \E w \in Runner, r \in Revision : StartDeployment(w, r)
  \/ \E w \in Runner : Proceed(w) \/ Crash(w)
  \/ \E p \in Path : SnowflakeEnds(p)
  \/ \E e \in Engineer : Operate(e)

Spec == Init /\ [][Next]_vars

\* A job that is not killed goes on, and Snowflake ends every file it runs.
\* Nothing obliges anybody to deploy, or an engineer to act.
Fairness ==
  /\ \A w \in Runner : WF_vars(Proceed(w))
  /\ \A p \in Path : WF_vars(SnowflakeEnds(p))

FairSpec == Spec /\ Fairness
-----------------------------------------------------------------------------
\* Properties

\* No migration file is handed to Snowflake twice in an environment, whatever
\* jobs die, fail or overlap with engineers ("apply-once").
AtMostOnce == \A p \in Path : sent[p] <= 1

\* Why AtMostOnce holds.  The group admits one job at a time; a job holds the
\* row of its attempt before it submits; a submitted file has a row, so no
\* later plan applies it; and what a job has yet to apply was never submitted.
GroupInv ==
  \A w, other \in Runner : pc[w] # "idle" /\ pc[other] # "idle" => w = other
AttemptInv ==
  \A w \in Runner : pc[w] \notin {"idle", "deciding"} =>
    /\ at[w] \in DOMAIN Migrations(rev[w])
    /\ Current(w).path \notin known[w]
    /\ attempt[w] \in DOMAIN history[Current(w).path]
SentInv == \A p \in Path : sent[p] \in {0, 1} /\ (sent[p] = 1 => Recorded(p))
ToSend(w) ==
  {i \in DOMAIN Migrations(rev[w]) :
     /\ Migrations(rev[w])[i].path \notin known[w]
     /\ i > at[w] \/ (i = at[w] /\ pc[w] \in {"deciding", "recorded"})}
UnsentInv ==
  \A w \in Runner : pc[w] # "idle" =>
    \A i \in ToSend(w) : sent[Migrations(rev[w])[i].path] = 0
OnceInv == TypeOK /\ GroupInv /\ AttemptInv /\ SentInv /\ UnsentInv

\* A SUCCEEDED row is never a lie: the whole file has run.
SuccessIsReal ==
  \A p \in Path : \A i \in DOMAIN history[p] :
    history[p][i].status = "SUCCEEDED" => file[p] = "full"

\* A deployment gets past a manifest entry only when it is settled: nothing
\* is executed after an unresolved predecessor, and a deployment that reaches
\* the end leaves no entry of its revision behind.
InOrder ==
  \A w \in Runner : pc[w] # "idle" =>
    \A i \in 1..(at[w] - 1) : Settled(Migrations(rev[w])[i].path)

\* Whatever revisions are deployed in whatever order, the history of a scope
\* is a sequence that only grows at its end: positions 1..n, one path each,
\* and every row of a path agrees on position and checksum.
Scopes == {ControlPath, Path \ ControlPath}
RecordedIn(scope) == {p \in scope : Recorded(p)}
SequenceLocked ==
  /\ \A p \in Path : \A i \in DOMAIN history[p] : Matches(history[p][i], Latest(p))
  /\ \A scope \in Scopes : \A p \in RecordedIn(scope) :
       /\ \A q \in RecordedIn(scope) : Latest(p).pos = Latest(q).pos => p = q
       /\ Latest(p).pos > 1 =>
            \E q \in RecordedIn(scope) : Latest(q).pos = Latest(p).pos - 1

\* An unresolved attempt becomes terminal only because its file has really
\* run to the end, or because an engineer recorded a review of that path.  And
\* a failure that is recorded blocks its migration, unless a review of that
\* attempt was recorded while it was still running: the review is then the
\* newer row, and the next plan skips the failed file (record_failed,
\* latest_history).
Reviewed(p) ==
  \E e \in Engineer : /\ command[e].kind = "resolve" /\ command[e].entry.path = p
                      /\ command'[e] = NoCommand
FailureRecorded(p) ==
  \E i \in DOMAIN history[p] :
    history[p][i].status = "STARTED" /\ history'[p][i].status = "FAILED"
UnblockedByReview ==
  [][\A p \in Path :
       /\ Blocked(p) /\ Settled(p)' /\ ~FailureRecorded(p) =>
            Reviewed(p) \/ (file[p] = "full" /\ Latest(p)'.status = "SUCCEEDED")
       /\ FailureRecorded(p) => Blocked(p)' \/ Latest(p)'.status = "REMEDIATED"]_vars

\* The environment as MigrationLedger sees it.
Standing == [p \in Path |-> IF ~Recorded(p) THEN "new"
                            ELSE IF Settled(p) THEN "settled" ELSE "attempted"]
Ledger == INSTANCE MigrationLedger WITH standing <- Standing

\* Deployment and its engineers implement the abstract ledger: a settled
\* migration never becomes unsettled, nothing is sent unannounced.
ImplementsLedger == Ledger!LedgerSpec

\* A job that is not killed reaches its end: the plan is exhausted or the
\* failure is recorded, and the concurrency group is released.
DeploymentEnds == \A w \in Runner : pc[w] # "idle" ~> pc[w] = "idle"
=============================================================================
