------------------------- MODULE ReleaseEvidence -------------------------
(***************************************************************************)
(* The evidence about one registered candidate: runs of its pipeline       *)
(* (pipeline_apply.py), data-quality results (pipeline_objects.py,         *)
(* dynamic_table.py), active-vs-candidate comparisons (pipeline_compare.py)*)
(* and RELEASE_READINESS_V, which weighs them by their timestamps.         *)
(*                                                                         *)
(* Every timestamp is CURRENT_TIMESTAMP() of the statement that writes it, *)
(* so the newest row is the one written last.  What the views compare is   *)
(* only whether a result was written after the last stamp of a run: this   *)
(* is the field "fresh" of a result.                                       *)
(***************************************************************************)
EXTENDS Naturals, Sequences, Functions

CONSTANTS
  Validation,   \* the DQ checks of 020_validate.sql, in order
  Comparison,   \* the checks of 025_compare.sql, in order
  HardCheck,    \* comparison checks that record FAIL, not REVIEW_REQUIRED
  RunPerCheck,  \* each DQ result has a RUN_ID of its own (Dynamic Tables)
  Session,      \* sessions of Snowflake tasks and of engineers
  FileKind,     \* what the sessions execute
  Overlap       \* sets of kinds that may be executed at the same time

DqCheck == Range(Validation)
CompareCheck == Range(Comparison)
Check == DqCheck \cup CompareCheck

ASSUME CheckAssumption ==
  /\ Validation \in Seq(DqCheck) /\ Validation # <<>>
  /\ Comparison \in Seq(CompareCheck) /\ Comparison # <<>>
  /\ HardCheck \subseteq CompareCheck
  /\ DqCheck \cap CompareCheck = {}
ASSUME ModelAssumption == RunPerCheck \in BOOLEAN

VARIABLES
  flaws,      \* the checks that the candidate's data fails now
  runtime,    \* STATUS of the run row stamped last, "none" without one
  dq,         \* the results of the latest DQ run
  compared,   \* the latest result of each comparison check made so far
  script,     \* what a session executes and how far it is
  recorded    \* the results of the validation a session has executed last

evidence == <<runtime, dq, compared>>
vars == <<flaws, runtime, dq, compared, script, recorded>>

-----------------------------------------------------------------------------
\* Types

Kind == {"task", "apply", "validate", "compare"}
NoScript == [kind |-> "none", step |-> "none", next |-> 1, found |-> FALSE]
RunKind == {"task", "apply"}
RunScript == [kind : RunKind, step : {"transforming", "committed"}, next : {1},
              found : {FALSE}]
ValidationScript == [kind : {"task", "validate"}, step : {"measure", "record"},
                     next : DOMAIN Validation, found : BOOLEAN]
ComparisonScript == [kind : {"compare"}, step : {"compare"}, next : DOMAIN Comparison,
                     found : {FALSE}]
Script == RunScript \cup ValidationScript \cup ComparisonScript
Result(checks) == [check : checks, failed : BOOLEAN, fresh : BOOLEAN]

TypeOK ==
  /\ flaws \subseteq Check
  /\ runtime \in {"none", "RUNNING", "SUCCESS", "FAILED"}
  /\ dq \subseteq Result(DqCheck)
  /\ compared \subseteq Result(CompareCheck)
  /\ script \in [Session -> Script \cup {NoScript}]
  /\ recorded \in [Session -> SUBSET Result(DqCheck)]

-----------------------------------------------------------------------------
\* The views

\* DQ_LATEST_RUN_V: DQ_STATUS, and CHECKED_AT of the newest result.
DqFailed == \E r \in dq : r.failed
DqFresh == \E r \in dq : r.fresh

\* Faulty: the newest comparison counts, not the oldest.
NewestComparisonFresh == \E r \in compared : r.fresh

\* CANDIDATE_COMPARISON_STATUS_V: OLDEST_VALIDATED_AT of the latest results.
ComparisonFresh == \A r \in compared : r.fresh
ComparisonFailed == \E r \in compared : r.failed /\ r.check \in HardCheck
ComparisonForReview == \E r \in compared : r.failed

\* RELEASE_READINESS_V of a registered candidate.
Blocked ==
  \/ runtime # "SUCCESS"
  \/ dq = {} \/ DqFailed \/ ~DqFresh
  \/ compared = {} \/ ComparisonFailed \/ ~ComparisonFresh
Readiness ==
  IF Blocked THEN "BLOCKED"
  ELSE IF ComparisonForReview THEN "REVIEW_REQUIRED" ELSE "READY"

-----------------------------------------------------------------------------
\* Sessions

Running(s) == script[s] # NoScript
At(s, step) == script[s].step = step
GoTo(s, step) == script' = [script EXCEPT ![s].step = step]
MayRun(kind) ==
  /\ kind \in FileKind
  /\ \A s \in Session : Running(s) => {kind, script[s].kind} \in Overlap
Open(s, kind, step) ==
  /\ MayRun(kind)
  /\ ~Running(s)
  /\ script' = [script EXCEPT ![s] = [kind |-> kind, step |-> step, next |-> 1,
                                      found |-> FALSE]]
Close(s) == script' = [script EXCEPT ![s] = NoScript]

\* What was written before a stamp of a run is older than the run.  A session
\* that starts a run has no validation of its own in progress.
Older(results) == {[r EXCEPT !.fresh = FALSE] : r \in results}
StampRun(s, status) ==
  /\ runtime' = status
  /\ dq' = Older(dq)
  /\ compared' = Older(compared)
  /\ recorded' = [other \in Session |-> IF other = s THEN {} ELSE Older(recorded[other])]

-----------------------------------------------------------------------------
\* The apply procedure: the task calls it, and then the validation; an engineer
\* may call it by hand.

\* Faulty: the RUNNING row is written inside the transaction.
StartRunUnlogged(s, kind) ==
  /\ kind \in RunKind
  /\ Open(s, kind, "transforming")
  /\ UNCHANGED <<flaws, evidence, recorded>>

StartRun(s, kind) ==
  /\ kind \in RunKind
  /\ Open(s, kind, "transforming")
  /\ StampRun(s, "RUNNING")
  /\ UNCHANGED flaws

\* COMMIT: from now on a check sees the new data.
CommitRun(s) ==
  /\ At(s, "transforming")
  /\ flaws' \in SUBSET Check
  /\ GoTo(s, "committed")
  /\ UNCHANGED <<evidence, recorded>>

\* A statement of the transaction raises: ROLLBACK, FAILED, RAISE.
FailRun(s) ==
  /\ At(s, "transforming")
  /\ StampRun(s, "FAILED")
  /\ Close(s)
  /\ UNCHANGED flaws

\* Faulty: the status the release preflight does not know.
RecordRunMisspelt(s) ==
  /\ At(s, "committed")
  /\ StampRun(s, "SUCCEEDED")
  /\ IF script[s].kind = "task" THEN GoTo(s, "measure") ELSE Close(s)
  /\ UNCHANGED flaws

RecordRun(s) ==
  /\ At(s, "committed")
  /\ StampRun(s, "SUCCESS")
  /\ IF script[s].kind = "task" THEN GoTo(s, "measure") ELSE Close(s)
  /\ UNCHANGED flaws

-----------------------------------------------------------------------------
\* The validation procedure, and the validation file of a Dynamic Table

StartValidation(s) ==
  /\ Open(s, "validate", "measure")
  /\ recorded' = [recorded EXCEPT ![s] = {}]
  /\ UNCHANGED <<flaws, evidence>>

\* V_VIOLATIONS := (query).
MeasureCheck(s) ==
  /\ ~RunPerCheck
  /\ At(s, "measure")
  /\ script' = [script EXCEPT ![s].step = "record",
                              ![s].found = Validation[script[s].next] \in flaws]
  /\ UNCHANGED <<flaws, evidence, recorded>>

\* INSERT INTO DQ_RESULT, in a statement of its own for the procedure, together
\* with the query for a Dynamic Table.
ResultNow(s) ==
  LET check == Validation[script[s].next]
  IN [check |-> check, fresh |-> TRUE,
      failed |-> IF RunPerCheck THEN check \in flaws ELSE script[s].found]

NextCheck(s) ==
  IF script[s].next = Len(Validation)
    THEN Close(s)
    ELSE script' = [script EXCEPT ![s].step = "measure", ![s].next = @ + 1,
                                  ![s].found = FALSE]

\* Faulty: a RUN_ID for every result of the procedure.
RecordCheckAlone(s) ==
  /\ At(s, IF RunPerCheck THEN "measure" ELSE "record")
  /\ dq' = {ResultNow(s)}
  /\ recorded' = [recorded EXCEPT ![s] = @ \cup {ResultNow(s)}]
  /\ NextCheck(s)
  /\ UNCHANGED <<flaws, runtime, compared>>

\* The run that was written to last is the latest.
RecordCheck(s) ==
  /\ At(s, IF RunPerCheck THEN "measure" ELSE "record")
  /\ dq' = {ResultNow(s)} \cup (IF RunPerCheck THEN {} ELSE recorded[s])
  /\ recorded' = [recorded EXCEPT ![s] = @ \cup {ResultNow(s)}]
  /\ NextCheck(s)
  /\ UNCHANGED <<flaws, runtime, compared>>

-----------------------------------------------------------------------------
\* The comparison file: every check is one INSERT ... SELECT.

StartComparison(s) ==
  /\ Open(s, "compare", "compare")
  /\ UNCHANGED <<flaws, evidence, recorded>>

RecordComparison(s) ==
  /\ At(s, "compare")
  /\ LET check == Comparison[script[s].next]
     IN compared' = {r \in compared : r.check # check}
                      \cup {[check |-> check, failed |-> check \in flaws, fresh |-> TRUE]}
  /\ IF script[s].next = Len(Comparison)
       THEN Close(s)
       ELSE script' = [script EXCEPT ![s].next = @ + 1]
  /\ UNCHANGED <<flaws, runtime, dq, recorded>>

-----------------------------------------------------------------------------
\* Replay and failure

\* The replay procedure changes the data in one transaction and records it in
\* REPAIR_RUN, which the readiness view does not read.
Replay ==
  /\ MayRun("replay")
  /\ flaws' \in SUBSET Check
  /\ UNCHANGED <<evidence, script, recorded>>

\* The session is lost, or a statement outside the transaction raises.  An open
\* transaction is rolled back; the run's row stays as it is.
Stop(s) ==
  /\ Running(s)
  /\ Close(s)
  /\ recorded' = [recorded EXCEPT ![s] = {}]
  /\ UNCHANGED <<flaws, evidence>>

-----------------------------------------------------------------------------
\* The specification

Init ==
  /\ flaws \in SUBSET (CompareCheck \ HardCheck)
  /\ runtime = "none"
  /\ dq = {}
  /\ compared = {}
  /\ script = [s \in Session |-> NoScript]
  /\ recorded = [s \in Session |-> {}]

Execute(s) ==
  \/ \E kind \in FileKind : StartRun(s, kind)
  \/ CommitRun(s)
  \/ FailRun(s)
  \/ RecordRun(s)
  \/ StartValidation(s)
  \/ MeasureCheck(s)
  \/ RecordCheck(s)
  \/ StartComparison(s)
  \/ RecordComparison(s)
  \/ Stop(s)

Next == Replay \/ \E s \in Session : Execute(s)

Spec == Init /\ [][Next]_vars

-----------------------------------------------------------------------------
\* Properties

\* The order RELEASE_READINESS.md asks for: catch up, then validate, compare and
\* release.  While a run goes on, nothing but comparisons is executed.
RunsAlone ==
  /\ "replay" \notin FileKind
  /\ \A run \in RunKind, kind \in RunKind \cup {"validate"} : {run, kind} \notin Overlap

\* If RunsAlone: what readiness counts, it counts about the data the candidate
\* holds now, however runs, validations and comparisons fail or are lost.  Every
\* result of the latest DQ run and every latest comparison is the one its check
\* would give.
CountedIsCurrent ==
  Readiness # "BLOCKED" =>
    \A r \in dq \cup compared : r.failed <=> r.check \in flaws

\* If RunsAlone: while a run is between its RUNNING row and its end, whatever the
\* evidence that older runs have left, the candidate is not ready.
RunBlocks ==
  (\E s \in Session : script[s].step \in {"transforming", "committed"}) => Blocked

\* Why both hold.  A run has no company but comparisons, so its row is the one
\* stamped last; a validation in progress has seen one state of the data; and
\* after a successful run what is fresh is about that run's data.
Current(results) == \A r \in results : r.failed <=> r.check \in flaws
Fresh(results) == \A r \in results : r.fresh
CompanyInv ==
  \A s, other \in Session :
    s # other /\ script[s].kind \in RunKind => script[other].kind \in {"compare", "none"}
RunningInv == \A s \in Session : script[s] \in RunScript => runtime = "RUNNING"
ValidationInv ==
  \A s \in Session : script[s] \in ValidationScript =>
    /\ ~RunPerCheck => Current(recorded[s]) /\ Fresh(recorded[s])
    /\ At(s, "record") => script[s].found = (Validation[script[s].next] \in flaws)
FreshInv ==
  /\ DqFresh => Fresh(dq)
  /\ runtime = "SUCCESS" => Current({r \in dq \cup compared : r.fresh})
EvidenceInv == TypeOK /\ CompanyInv /\ RunningInv /\ ValidationInv /\ FreshInv

\* docs/architecture/RELEASE_READINESS.md: "missing/failed DQ" blocks.  When a
\* validation is through and one of its checks has failed, the candidate is
\* blocked.  Holds of the validation procedure; refuted of the validation
\* file of a Dynamic Table, where the last check alone is the latest run.
FailedDqBlocks ==
  [][\A s \in Session :
       (RecordCheck(s) /\ ~Running(s)' /\ \E r \in recorded'[s] : r.failed) => Blocked']_vars
=============================================================================
