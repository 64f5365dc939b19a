------------------------- MODULE HealthIncidents -------------------------
(***************************************************************************)
(* Health and incidents of one dataset: the run evidence of the ingestion  *)
(* API (migration 060), the views that reduce evidence to a status (030,   *)
(* 080, 140) and the two evaluators, EVALUATE_DOMAIN_HEALTH (030) and      *)
(* EVALUATE_QUALITY_INCIDENTS (080), which open and resolve the rows of    *)
(* CONTROL.INCIDENT.  Every table is keyed and joined by DATASET_ID, so    *)
(* one dataset stands for all.                                             *)
(*                                                                         *)
(* An evaluator is a procedure without a transaction: each statement reads *)
(* what is committed when it starts and commits on its own.  It is called  *)
(* by a task once a minute, by the operation files of lifecycle.py and by  *)
(* hand, so calls overlap, and a call may end after any statement.         *)
(***************************************************************************)
EXTENDS Naturals, FiniteSets

CONSTANTS
  Version,        \* versions of the dataset
  Refreshed,      \* those among them whose model is dynamic_table
  RefreshState,   \* states that the refresh history shows of them
  NoVersion,      \* ACTIVE_VERSION or VERSION is NULL
  IngestionRun,   \* ids a connector passes to the run API
  SlaStage,       \* stages with a row in SLA_POLICY
  SlaFacts,       \* what a policy and the timestamps it is about can show
  ReconStage,     \* stages that are reconciled
  QualityRun,     \* ids of DQ and reconciliation runs
  Reported,       \* the severities and statuses that producers pass
  NoRun,          \* no run yet
  Session,        \* sessions that call an evaluator
  Calls,          \* the evaluators a session may call
  Task,           \* the sessions of the two scheduled tasks
  MaxChanges      \* bound on the changes of evidence and of the dataset row

ASSUME CallsAssumption == Calls \in [Session -> SUBSET {"domain", "quality"}]
ASSUME SessionAssumption == IsFiniteSet(Session) /\ Task \subseteq Session
ASSUME NullAssumption == NoVersion \notin Version /\ NoRun \notin QualityRun
ASSUME BoundAssumption == MaxChanges \in Nat

VARIABLES
  lifecycle,    \* LIFECYCLE_STATUS; ENABLED is set with it
  active,       \* ACTIVE_VERSION
  ingestion,    \* STATUS of each INGESTION_RUN
  lastIngestion,\* the run stamped last
  silver,       \* of each version: STATUS of its run or refresh stamped last
  gold,         \* STATUS of the latest DBT_RUN
  timing,       \* the facts of each policy
  results,      \* the outcomes recorded under each subject and run
  latest,       \* of each subject: the run that recorded last
  open,         \* the number of OPEN incidents of each key
  base,         \* OVERALL_STATUS of DATASET_HEALTH
  session,      \* the next statement of a call and its temporary table
  failures,     \* consecutive failed runs of a task
  suspended,    \* tasks that are suspended
  changes       \* changes so far

evidence == <<lifecycle, active, ingestion, lastIngestion, silver, gold, timing,
              results, latest>>
scheduling == <<failures, suspended>>

\* History, for the properties only.
VARIABLES
  seenTrue,     \* keys whose condition held at some time since a call began
  seenFalse,    \* keys whose condition did not hold at some such time
  alone,        \* calls during which no evidence changed and none of its kind ran
  settled       \* kinds whose last event was the end of such a call

history == <<seenTrue, seenFalse, alone, settled>>
vars == <<evidence, open, base, session, scheduling, changes, history>>

-----------------------------------------------------------------------------
\* Types

RunStatus == {"NONE", "RUNNING", "SUCCESS", "FAILED"}
Lifecycle == {"ACTIVE", "PAUSED", "DECOMMISSIONED"}
Outcome == {"PASS", "WARN", "ERROR"}

\* DQ results belong to a version, reconciliations to a version or to none.
Subject == [type : {"DQ"}, version : Version, stage : {"SILVER"}]
           \cup [type : {"RECONCILIATION"}, version : Version \cup {NoVersion},
                 stage : ReconStage]

\* INCIDENT_KEY without its dataset: the type and, for some types, a stage.
FailureKey == {<<"INGESTION_FAILURE", "">>, <<"PIPELINE_FAILURE", "">>, <<"DBT_FAILURE", "">>}
SlaKey == {<<"SLA_VIOLATION", stage>> : stage \in SlaStage}
DqKey == {<<"DQ_FAILURE", "">>}
ReconKey == {<<"RECONCILIATION_FAILURE", stage>> : stage \in ReconStage}
ManualKey == {<<"INVESTIGATION", "">>}

DomainType == {"INGESTION_FAILURE", "PIPELINE_FAILURE", "DBT_FAILURE", "SLA_VIOLATION"}
QualityType == {"DQ_FAILURE", "RECONCILIATION_FAILURE"}
AutomaticKey == FailureKey \cup SlaKey \cup DqKey \cup ReconKey
Key == AutomaticKey \cup ManualKey
ManagedType == [domain |-> DomainType, quality |-> QualityType]
Managed(kind) == {k \in Key : k[1] \in ManagedType[kind]}

Statement == {"idle", "failures", "sla", "dq", "reconciliation", "find", "insert",
              "resolve", "refresh"}
Kind == {"domain", "quality"}
Idle == [kind |-> "none", next |-> "idle", conditions |-> {}, missing |-> {}]
OverallStatuses == {"NONE", "GREEN", "YELLOW", "RED", "PAUSED", "DEVELOPMENT", "DECOMMISSIONED"}

TypeOK ==
  /\ lifecycle \in Lifecycle
  /\ active \in Version \cup {NoVersion}
  /\ ingestion \in [IngestionRun -> RunStatus]
  /\ lastIngestion \in IngestionRun \cup {NoRun}
  /\ silver \in [Version -> RunStatus \cup RefreshState]
  /\ gold \in RunStatus \cup {"SKIPPED"}
  /\ timing \in [SlaStage -> SlaFacts]
  /\ results \in [Subject -> [QualityRun -> SUBSET Outcome]]
  /\ latest \in [Subject -> QualityRun \cup {NoRun}]
  /\ open \in [Key -> Nat]
  /\ base \in OverallStatuses
  /\ session \in [Session -> [kind : Kind \cup {"none"}, next : Statement,
                             conditions : SUBSET AutomaticKey,
                             missing : SUBSET AutomaticKey]]
  /\ failures \in [Task -> 0..3]
  /\ suspended \subseteq Task
  /\ changes \in 0..MaxChanges
  /\ seenTrue \in [Session -> SUBSET Key]
  /\ seenFalse \in [Session -> SUBSET Key]
  /\ alone \subseteq Session
  /\ settled \subseteq Kind

-----------------------------------------------------------------------------
\* The views over the evidence

Enabled == lifecycle = "ACTIVE"

\* DATASET_OBSERVABILITY_V: the latest ingestion and dbt run, and the latest
\* run or refresh of the active version.
IngestionStatus == IF lastIngestion = NoRun THEN "NONE" ELSE ingestion[lastIngestion]

SilverStatus ==
  CASE active = NoVersion -> "NONE"
    [] active \in Refreshed ->
         LET state == silver[active]
         IN  CASE state = "EXECUTING" -> "RUNNING"
               [] state \in {"SUCCEEDED", "SKIPPED"} -> "SUCCESS"
               [] state \in {"FAILED", "CANCELLED", "UPSTREAM_FAILED"} -> "FAILED"
               [] OTHER -> "UNKNOWN"
    [] OTHER -> silver[active]

\* LATEST_DATA_AT is not NULL: a run that succeeded has a timestamp, and a
\* connector passes that of the source when it begins.
DataKnown == gold = "SUCCESS" \/ SilverStatus = "SUCCESS" \/ lastIngestion # NoRun

SomeStageFailed == "FAILED" \in {IngestionStatus, SilverStatus, gold}

\* SLA_EVALUATION_V: the first rule that applies.
SlaStatus(stage) ==
  LET f == timing[stage]
      interval == f.cadence = "INTERVAL"
      deadline == f.cadence = "SCHEDULED_DEADLINE"
  IN  IF ~f.enabled \/ ~Enabled THEN "DISABLED"
      ELSE IF f.cadence \notin {"CONTINUOUS", "INTERVAL", "SCHEDULED_DEADLINE"}
        THEN "INVALID_POLICY"
      ELSE IF f.exceeded THEN "VIOLATED"
      ELSE IF interval /\ ~f.configured THEN "INVALID_POLICY"
      ELSE IF interval /\ ~f.sourceSeen THEN "UNKNOWN"
      ELSE IF interval /\ f.idle THEN "VIOLATED"
      ELSE IF deadline /\ ~f.configured THEN "INVALID_POLICY"
      ELSE IF deadline /\ ~f.due THEN "NOT_DUE"
      ELSE IF deadline /\ ~f.publishedToday THEN "VIOLATED"
      ELSE IF stage = "END_TO_END" /\ ~DataKnown THEN "UNKNOWN" ELSE "PASS"

ViolatedStages == {stage \in SlaStage : SlaStatus(stage) = "VIOLATED"}

\* REFRESH_DATASET_HEALTH: OVERALL_STATUS of the snapshot.
BaseStatus ==
  IF ~Enabled THEN "PAUSED"
  ELSE IF active = NoVersion THEN "DEVELOPMENT"
  ELSE IF SomeStageFailed \/ ViolatedStages # {} THEN "RED"
  ELSE IF \/ \E stage \in SlaStage : SlaStatus(stage) \in {"INVALID_POLICY", "UNKNOWN"}
          \/ ~DataKnown THEN "YELLOW"
  ELSE "GREEN"

\* DQ_LATEST_RUN_V and RECONCILIATION_LATEST_STAGE_V: the verdict of the run
\* that recorded last.
Verdict(subject) ==
  IF latest[subject] = NoRun THEN "UNASSESSED"
  ELSE LET outcomes == results[subject][latest[subject]]
       IN  IF "ERROR" \in outcomes THEN "FAILED"
           ELSE IF "WARN" \in outcomes THEN "WARNING" ELSE "PASS"

DqVerdict ==
  IF active = NoVersion THEN "UNASSESSED"
  ELSE Verdict([type |-> "DQ", version |-> active, stage |-> "SILVER"])

\* RECONCILIATION_ACTIVE_STAGE_V: evidence of the active version wins over
\* evidence without a version, whichever is newer.
ReconVerdict(stage) ==
  LET of(v) == [type |-> "RECONCILIATION", version |-> v, stage |-> stage]
  IN  IF latest[of(active)] # NoRun THEN Verdict(of(active)) ELSE Verdict(of(NoVersion))

QualityVerdicts == {DqVerdict} \cup {ReconVerdict(stage) : stage \in ReconStage}

\* DATASET_HEALTH_V, which merges quality with the snapshot when it is read.
OverallStatus ==
  IF lifecycle # "ACTIVE" THEN lifecycle
  ELSE IF base = "RED" \/ "FAILED" \in QualityVerdicts THEN "RED"
  ELSE IF base = "YELLOW" \/ "WARNING" \in QualityVerdicts THEN "YELLOW"
  ELSE base

-----------------------------------------------------------------------------
\* The conditions, as the statements of the evaluators select them

\* Faulty: the dbt status is left out.
WithoutDbtFailures ==
  IF ~Enabled THEN {}
  ELSE (IF IngestionStatus = "FAILED" THEN {<<"INGESTION_FAILURE", "">>} ELSE {})
       \cup (IF SilverStatus = "FAILED" THEN {<<"PIPELINE_FAILURE", "">>} ELSE {})

FailureConditions ==
  IF ~Enabled THEN {}
  ELSE (IF IngestionStatus = "FAILED" THEN {<<"INGESTION_FAILURE", "">>} ELSE {})
       \cup (IF SilverStatus = "FAILED" THEN {<<"PIPELINE_FAILURE", "">>} ELSE {})
       \cup (IF gold = "FAILED" THEN {<<"DBT_FAILURE", "">>} ELSE {})

SlaConditions ==
  IF ~Enabled THEN {} ELSE {<<"SLA_VIOLATION", stage>> : stage \in ViolatedStages}

DqConditions ==
  IF Enabled /\ DqVerdict = "FAILED" THEN {<<"DQ_FAILURE", "">>} ELSE {}

ReconConditions ==
  IF ~Enabled THEN {}
  ELSE {<<"RECONCILIATION_FAILURE", stage>> :
           stage \in {st \in ReconStage : ReconVerdict(st) = "FAILED"}}

Condition == FailureConditions \cup SlaConditions \cup DqConditions \cup ReconConditions

-----------------------------------------------------------------------------
\* Changes of the evidence

\* What a running call can have seen includes the new state.
Watch ==
  LET conditions == Condition'
      extend(seen, keys) == [s \in Session |->
        IF session[s].next = "idle" THEN {} ELSE seen[s] \cup keys]
  IN  /\ seenTrue' = extend(seenTrue, conditions)
      /\ seenFalse' = extend(seenFalse, Key \ conditions)

Change ==
  /\ changes' = changes + 1
  /\ alone' = {} /\ settled' = {}
  /\ UNCHANGED <<open, base, session, scheduling>>
  /\ Watch

\* BEGIN_INGESTION_RUN inserts a row unless the id has one; a late or repeated
\* call of the other two finds no RUNNING row and changes nothing.
BeginIngestion(r) ==
  /\ ingestion[r] = "NONE"
  /\ ingestion' = [ingestion EXCEPT ![r] = "RUNNING"]
  /\ lastIngestion' = r
  /\ UNCHANGED <<lifecycle, active, silver, gold, timing, results, latest>>
  /\ Change
EndIngestion(r, status) ==
  /\ ingestion[r] = "RUNNING"
  /\ ingestion' = [ingestion EXCEPT ![r] = status]
  /\ lastIngestion' = r
  /\ UNCHANGED <<lifecycle, active, silver, gold, timing, results, latest>>
  /\ Change
CompleteIngestion(r) == EndIngestion(r, "SUCCESS")
FailIngestion(r) == EndIngestion(r, "FAILED")

\* A run or a refresh of a version stamps its row.
StampSilver(v) ==
  /\ \E state \in IF v \in Refreshed THEN RefreshState ELSE RunStatus \ {"NONE"} :
       state # silver[v] /\ silver' = [silver EXCEPT ![v] = state]
  /\ UNCHANGED <<lifecycle, active, ingestion, lastIngestion, gold, timing, results, latest>>
  /\ Change

\* The on-run-end macro of dbt inserts a row with its final status; a model is
\* skipped after a failure upstream.
StampGold ==
  /\ gold' \in {"SUCCESS", "FAILED", "SKIPPED"} \ {gold}
  /\ UNCHANGED <<lifecycle, active, ingestion, lastIngestion, silver, timing, results, latest>>
  /\ Change

\* Time passes, data is published or a policy is edited.
Measure(stage) ==
  /\ \E facts \in SlaFacts \ {timing[stage]} : timing' = [timing EXCEPT ![stage] = facts]
  /\ UNCHANGED <<lifecycle, active, ingestion, lastIngestion, silver, gold, results, latest>>
  /\ Change

\* Faulty: a status other than PASS is stored as the producer passes it.
StoredAsPassed(severity, status) ==
  IF status = "PASS" THEN "PASS" ELSE IF severity = "WARN" THEN "WARN" ELSE status

\* RECORD_DQ_RESULT and RECORD_RECONCILIATION_RESULT: an unknown status is
\* INVALID, which is a failure, and an unknown severity is ERROR.
OutcomeOf(severity, status) ==
  IF status = "PASS" THEN "PASS" ELSE IF severity = "WARN" THEN "WARN" ELSE "ERROR"
RecordResult(subject, run) ==
  /\ \E report \in Reported :
       results' = [results EXCEPT ![subject][run] = @ \cup {OutcomeOf(report[1], report[2])}]
  /\ latest' = [latest EXCEPT ![subject] = run]
  /\ UNCHANGED <<lifecycle, active, ingestion, lastIngestion, silver, gold, timing>>
  /\ Change

\* UPDATE CONTROL.DATASET of pause, resume and decommission, and of a cutover.
SetLifecycle ==
  /\ lifecycle' \in Lifecycle \ {lifecycle}
  /\ UNCHANGED <<active, ingestion, lastIngestion, silver, gold, timing, results, latest>>
  /\ Change
SetActive ==
  /\ active' \in Version \ {active}
  /\ UNCHANGED <<lifecycle, ingestion, lastIngestion, silver, gold, timing, results, latest>>
  /\ Change

EvidenceChanges ==
  \/ \E r \in IngestionRun : BeginIngestion(r)
  \/ \E r \in IngestionRun : CompleteIngestion(r)
  \/ \E r \in IngestionRun : FailIngestion(r)
  \/ \E v \in Version : StampSilver(v)
  \/ StampGold
  \/ \E stage \in SlaStage : Measure(stage)
  \/ \E subject \in Subject, run \in QualityRun : RecordResult(subject, run)
  \/ SetLifecycle
  \/ SetActive

\* A person opens and closes an investigation of another type.
OpenInvestigation(k) ==
  /\ changes < MaxChanges
  /\ open[k] = 0
  /\ open' = [open EXCEPT ![k] = 1]
  /\ changes' = changes + 1
  /\ UNCHANGED <<evidence, base, session, scheduling, history>>
CloseInvestigation(k) ==
  /\ open[k] = 1
  /\ open' = [open EXCEPT ![k] = 0]
  /\ UNCHANGED <<evidence, base, session, scheduling, changes, history>>

-----------------------------------------------------------------------------
\* The evaluators, statement by statement

Running(s) == session[s].next # "idle"
Evaluators(kind) == {s \in Session : kind \in Calls[s]}

\* A task runs on its schedule unless it is suspended, and never twice at once.
Start(s, kind, statement) ==
  /\ kind \in Calls[s]
  /\ ~Running(s)
  /\ s \notin suspended
  /\ session' = [session EXCEPT ![s] = [Idle EXCEPT !.kind = kind, !.next = statement]]
  /\ alone' = LET others == {t \in Session : session[t].kind = kind}
              IN  (alone \ others) \cup (IF others = {} THEN {s} ELSE {})
  /\ settled' = settled \ {kind}
  /\ seenTrue' = [seenTrue EXCEPT ![s] = Condition]
  /\ seenFalse' = [seenFalse EXCEPT ![s] = Key \ Condition]
  /\ UNCHANGED <<evidence, open, scheduling, changes>>

StartDomain(s) ==
  /\ Start(s, "domain", "failures")
  /\ base' = BaseStatus
StartQuality(s) ==
  /\ Start(s, "quality", "dq")
  /\ UNCHANGED base

\* INSERT INTO the temporary table of conditions.
Collect(s, statement, conditions, next) ==
  /\ session[s].next = statement
  /\ session' = [session EXCEPT ![s].next = next, ![s].conditions = @ \cup conditions]
  /\ UNCHANGED <<evidence, open, base, scheduling, changes, history>>
CollectFailures(s) == Collect(s, "failures", FailureConditions, "sla")
\* Faulty: SLA violations are not inserted.
CollectNoSla(s) == Collect(s, "sla", {}, "find")
CollectSla(s) == Collect(s, "sla", SlaConditions, "find")
CollectDq(s) == Collect(s, "dq", DqConditions, "reconciliation")
CollectReconciliation(s) == Collect(s, "reconciliation", ReconConditions, "find")

\* Faulty: INSERT without NOT EXISTS.
FindAll(s) ==
  /\ session[s].next = "find"
  /\ session' = [session EXCEPT ![s].next = "insert", ![s].missing = session[s].conditions]
  /\ UNCHANGED <<evidence, open, base, scheduling, changes, history>>

\* The UPDATE of the open rows changes their texts only.  INSERT ... WHERE NOT
\* EXISTS reads first and commits its rows afterwards.
FindMissing(s) ==
  /\ session[s].next = "find"
  /\ session' = [session EXCEPT ![s].next = "insert",
                   ![s].missing = {k \in session[s].conditions : open[k] = 0}]
  /\ UNCHANGED <<evidence, open, base, scheduling, changes, history>>

OpenMissing(s) ==
  /\ session[s].next = "insert"
  /\ open' = [k \in Key |-> IF k \in session[s].missing THEN open[k] + 1 ELSE open[k]]
  /\ session' = [session EXCEPT ![s].next = "resolve", ![s].missing = {}]
  /\ UNCHANGED <<evidence, base, scheduling, changes, history>>

Forget(s) ==
  /\ alone' = alone \ {s}
  /\ seenTrue' = [seenTrue EXCEPT ![s] = {}]
  /\ seenFalse' = [seenFalse EXCEPT ![s] = {}]

\* The end of a call: a task that succeeds forgets its failures.
End(s) ==
  /\ session' = [session EXCEPT ![s] = Idle]
  /\ failures' = [t \in Task |-> IF t = s THEN 0 ELSE failures[t]]
  /\ settled' = IF s \in alone THEN settled \cup {session[s].kind} ELSE settled
  /\ Forget(s)
  /\ UNCHANGED <<evidence, suspended, changes>>

\* Faulty: every open incident, whatever its type.
RecoveredOfAnyType(s) == Key \ session[s].conditions
\* Faulty: the list of types lacks SLA_VIOLATION.
RecoveredWithoutSla(s) ==
  {k \in Managed(session[s].kind) : k[1] # "SLA_VIOLATION"} \ session[s].conditions

Recovered(s) == Managed(session[s].kind) \ session[s].conditions
ResolvedBy(s) == [k \in Key |-> IF k \in Recovered(s) THEN 0 ELSE open[k]]

\* The UPDATE to RESOLVED, the last statement of the quality evaluator.
ResolveDomain(s) ==
  /\ session[s].next = "resolve" /\ session[s].kind = "domain"
  /\ open' = ResolvedBy(s)
  /\ session' = [session EXCEPT ![s].next = "refresh"]
  /\ UNCHANGED <<evidence, base, scheduling, changes, history>>
ResolveQuality(s) ==
  /\ session[s].next = "resolve" /\ session[s].kind = "quality"
  /\ open' = ResolvedBy(s)
  /\ UNCHANGED base
  /\ End(s)
RefreshHealth(s) ==
  /\ session[s].next = "refresh"
  /\ base' = BaseStatus
  /\ UNCHANGED open
  /\ End(s)

\* A statement fails or USER_TASK_TIMEOUT_MS ends the call; what was committed
\* stays.  SUSPEND_TASK_AFTER_NUM_FAILURES suspends a task after three.
Abort(s) ==
  /\ Running(s)
  /\ session' = [session EXCEPT ![s] = Idle]
  /\ failures' = [t \in Task |-> IF t = s THEN (failures[t] + 1) % 3 ELSE failures[t]]
  /\ suspended' = IF s \in Task /\ failures[s] = 2 THEN suspended \cup {s} ELSE suspended
  /\ Forget(s)
  /\ UNCHANGED <<evidence, open, base, changes, settled>>

\* ALTER TASK ... RESUME by a person; a task is created suspended.
ResumeTask(s) ==
  /\ s \in suspended
  /\ suspended' = suspended \ {s}
  /\ UNCHANGED <<evidence, open, base, session, failures, changes, history>>

Evaluate(s) ==
  \/ StartDomain(s) \/ CollectFailures(s) \/ CollectSla(s)
  \/ StartQuality(s) \/ CollectDq(s) \/ CollectReconciliation(s)
  \/ FindMissing(s) \/ OpenMissing(s)
  \/ ResolveDomain(s) \/ ResolveQuality(s) \/ RefreshHealth(s)
  \/ Abort(s)

-----------------------------------------------------------------------------
Init ==
  /\ lifecycle = "ACTIVE"
  /\ active \in Version \cup {NoVersion}
  /\ ingestion = [r \in IngestionRun |-> "NONE"]
  /\ lastIngestion = NoRun
  /\ silver = [v \in Version |-> "NONE"]
  /\ gold = "NONE"
  /\ timing \in [SlaStage -> {facts \in SlaFacts : ~facts.exceeded}]
  /\ results = [subject \in Subject |-> [r \in QualityRun |-> {}]]
  /\ latest = [subject \in Subject |-> NoRun]
  /\ open = [k \in Key |-> 0]
  /\ base = "NONE"
  /\ session = [s \in Session |-> Idle]
  /\ failures = [t \in Task |-> 0]
  /\ suspended = Task
  /\ changes = 0
  /\ seenTrue = [s \in Session |-> {}]
  /\ seenFalse = [s \in Session |-> {}]
  /\ alone = {} /\ settled = {}

Next ==
  \/ changes < MaxChanges /\ EvidenceChanges
  \/ \E s \in Session : Evaluate(s)
  \/ \E s \in Task : ResumeTask(s)
  \/ \E k \in ManualKey : OpenInvestigation(k) \/ CloseInvestigation(k)

\* A task that is not suspended runs every minute, and every statement ends.
Fairness == \A s \in Task : WF_vars(Evaluate(s))
Spec == Init /\ [][Next]_vars /\ Fairness

-----------------------------------------------------------------------------
\* Safety

\* No key ever has more OPEN incidents than evaluations of its kind can run at
\* once: with the task alone there is one, and a second OPEN row needs an
\* overlapping call (WHERE NOT EXISTS of the INSERT).
OpenBounded ==
  \A kind \in Kind : \A k \in Managed(kind) :
    open[k] <= Cardinality(Evaluators(kind))

\* When the last evaluation of each kind ran alone and nothing has changed
\* since, an operating dataset with a published version is RED on the
\* dashboard exactly if it has an open automatic incident.  Two programs
\* compute the two: REFRESH_DATASET_HEALTH and the views, and the evaluators.
RedMeansIncident ==
  settled = Kind /\ Enabled /\ active # NoVersion
    => (OverallStatus = "RED" <=> \E k \in AutomaticKey : open[k] > 0)

\* An incident is opened only for a condition that held, and resolved only for
\* one that had ceased to hold, at some time since that evaluation began, and
\* an evaluation touches the incident types of its own kind only: whatever
\* overlaps, no verdict is older than the call that records it.
JustifiedStep(s) ==
  /\ \A k \in Key : open'[k] > open[k] => k \in seenTrue[s] \cap Managed(session[s].kind)
  /\ \A k \in Key : open'[k] < open[k] => k \in seenFalse[s] \cap Managed(session[s].kind)
OpenedAndResolvedForCause ==
  [][\A s \in Session : session[s] # session'[s] => JustifiedStep(s)]_vars

\* Liveness: while its task is not suspended again and again, a condition that
\* stays is an open incident for good, and one that stays away has none.
TaskOf(kind) == Task \cap Evaluators(kind)
Operated(kind) == TaskOf(kind) # {} /\ <>[](TaskOf(kind) \cap suspended = {})
LastingConditionStaysOpen ==
  \A kind \in Kind : \A k \in Managed(kind) :
    Operated(kind) /\ <>[](k \in Condition) => <>[](open[k] > 0)
GoneConditionStaysResolved ==
  \A kind \in Kind : \A k \in Managed(kind) :
    Operated(kind) /\ <>[](k \notin Condition) => <>[](open[k] = 0)

=============================================================================
