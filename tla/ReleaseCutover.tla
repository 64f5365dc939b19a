------------------------- MODULE ReleaseCutover -------------------------
(***************************************************************************)
(* The versions of one dataset: registering a candidate                    *)
(* (pipeline_operations.py), activating it and rolling back                *)
(* (release_operations.py, control_plane_120_release_readiness.sql),       *)
(* pausing, resuming and decommissioning (lifecycle.py).                   *)
(*                                                                         *)
(* Each of these is a reviewed SQL file that somebody executes; Snowflake  *)
(* commits it statement by statement, so a file is a sequence of steps of  *)
(* a session, which may fail or die between any two of them while other    *)
(* sessions go on.  Consecutive reads into variables are one step.         *)
(***************************************************************************)
EXTENDS Integers, FiniteSets

CONSTANTS
  Version,        \* versions of the dataset
  NoVersion,      \* SQL NULL in a pointer column
  FirstVersion,   \* the version the dataset was first deployed with
  ViewCount,      \* published views: 2 for scd2 (history, current), else 1
  Session,        \* sessions executing files
  ScriptKind,     \* the kinds of files that are executed
  Overlap         \* sets of kinds that may be executed at the same time

ASSUME VersionAssumption == NoVersion \notin Version /\ FirstVersion \in Version
ASSUME ViewAssumption == ViewCount \in Nat \ {0}

VARIABLES
  active,         \* DATASET.ACTIVE_VERSION
  candidate,      \* DATASET.CANDIDATE_VERSION
  lifecycle,      \* DATASET.LIFECYCLE_STATUS
  status,         \* DATASET_VERSION.STATUS, "absent" without a row
  view,           \* the version each published view selects from
  resumed,        \* versions whose task or dynamic table is resumed
  script,         \* the file a session executes and how far it is
  served,         \* versions that are or have been active (ghost)
  interrupted     \* whether a release, or another file, stopped half-way (ghost)

pointers == <<active, candidate, served>>
vars == <<active, candidate, lifecycle, status, view, resumed, script, served,
          interrupted>>

-----------------------------------------------------------------------------
\* Types

ReleaseKind == {"activate", "rollback"}
LifecycleKind == {"pause", "resume", "decommission"}
NoScript == [kind |-> "none", step |-> "none", from |-> NoVersion, to |-> NoVersion,
             shown |-> 0]
\* A release file before, and after, the last published view is switched.
OpenRelease == [kind : ReleaseKind, step : {"preflight", "edge", "publish"},
                from : Version, to : Version, shown : 0..(ViewCount - 1)]
ShownRelease == [kind : ReleaseKind,
                 step : {"statuses", "pointers", "retire", "postflight", "verified"},
                 from : Version, to : Version, shown : {ViewCount}]
VersionScript == [kind : {"register", "pause", "resume"}, step : {"dataset", "version"},
                  from : {NoVersion}, to : Version, shown : {0}]
Decommission == [kind : {"decommission"}, step : {"dataset", "version"},
                 from : {NoVersion}, to : {NoVersion}, shown : {0}]
Script == OpenRelease \cup ShownRelease \cup VersionScript \cup Decommission

TypeOK ==
  /\ active \in Version
  /\ candidate \in Version \cup {NoVersion}
  /\ lifecycle \in {"ACTIVE", "PAUSED", "DECOMMISSIONED"}
  /\ status \in [Version -> {"absent", "DEPLOYED", "ACTIVE", "RETIRED"}]
  /\ view \in [1..ViewCount -> Version]
  /\ resumed \subseteq Version
  /\ script \in [Session -> Script \cup {NoScript}]
  /\ served \subseteq Version
  /\ interrupted \subseteq {"release", "other"}

-----------------------------------------------------------------------------
\* Views of the control plane

Versions(s) == {v \in Version : status[v] = s}

\* SQL `a <> b`: true only if neither side is NULL.
SqlDiffers(a, b) == a # NoVersion /\ b # NoVersion /\ a # b

\* DATASET_VERSION_INVARIANT_V = 'PASS': one ACTIVE row, the active one, and
\* a DEPLOYED row exactly for the candidate.
InvariantPass ==
  /\ Versions("ACTIVE") = {active}
  /\ candidate # active
  /\ Versions("DEPLOYED") = {candidate} \ {NoVersion}

\* RELEASE_READINESS_V.  The verdict sums up what only the evidence of the
\* candidate decides: runtime, data quality and comparison.
Verdict == {"READY", "REVIEW_REQUIRED", "BLOCKED"}
Readiness(verdict) ==
  IF InvariantPass /\ candidate # NoVersion THEN verdict ELSE "BLOCKED"

-----------------------------------------------------------------------------
\* Executing a file

At(s, kinds, step) == script[s].kind \in kinds /\ script[s].step = step
GoTo(s, step) == script' = [script EXCEPT ![s].step = step]
Open(s, kind, step, from, to) ==
  /\ kind \in ScriptKind
  /\ script[s] = NoScript
  /\ \A t \in Session : script[t] # NoScript => {kind, script[t].kind} \in Overlap
  /\ script' = [script EXCEPT ![s] = [kind |-> kind, step |-> step, from |-> from,
                                      to |-> to, shown |-> 0]]
Close(s) == script' = [script EXCEPT ![s] = NoScript]

-----------------------------------------------------------------------------
\* Register a candidate

\* Faulty: the guard only looks for another DEPLOYED row, not at the pointer.
CheckCandidateIgnoringPointer(s, v) ==
  /\ \A other \in Session : script[other].kind # "register"
  /\ Versions("ACTIVE") = {active}
  /\ v # active
  /\ Versions("DEPLOYED") \subseteq {v}
  /\ status[v] \notin {"ACTIVE", "RETIRED"}
  /\ Open(s, "register", "dataset", NoVersion, v)
  /\ UNCHANGED <<pointers, lifecycle, status, view, resumed, interrupted>>

\* Faulty: the guard does not look at the status of the incoming version.
CheckCandidateAnyStatus(s, v) ==
  /\ \A other \in Session : script[other].kind # "register"
  /\ Versions("ACTIVE") = {active}
  /\ v # active
  /\ candidate \in {v, NoVersion}
  /\ Versions("DEPLOYED") \subseteq {v}
  /\ Open(s, "register", "dataset", NoVersion, v)
  /\ UNCHANGED <<pointers, lifecycle, status, view, resumed, interrupted>>

\* The guard block.  Files of the silver manifest are deployed one at a time.
CheckCandidate(s, v) ==
  /\ \A other \in Session : script[other].kind # "register"
  /\ Versions("ACTIVE") = {active}
  /\ v # active
  /\ candidate \in {v, NoVersion}
  /\ Versions("DEPLOYED") \subseteq {v}
  /\ status[v] \notin {"ACTIVE", "RETIRED"}
  /\ Open(s, "register", "dataset", NoVersion, v)
  /\ UNCHANGED <<pointers, lifecycle, status, view, resumed, interrupted>>

MergeDataset(s) ==
  /\ At(s, {"register"}, "dataset")
  /\ candidate' = script[s].to
  /\ GoTo(s, "version")
  /\ UNCHANGED <<active, served, lifecycle, status, view, resumed, interrupted>>

MergeVersion(s) ==
  /\ At(s, {"register"}, "version")
  /\ status' = [status EXCEPT ![script[s].to] = IF @ = "ACTIVE" THEN @ ELSE "DEPLOYED"]
  /\ Close(s)
  /\ UNCHANGED <<pointers, lifecycle, view, resumed, interrupted>>

-----------------------------------------------------------------------------
\* Activate and roll back

\* INSERT INTO RELEASE_RUN ... 'STARTED'.
StartRelease(s, kind, from, to) ==
  /\ kind \in ReleaseKind /\ from # to
  /\ Open(s, kind, "preflight", from, to)
  /\ UNCHANGED <<pointers, lifecycle, status, view, resumed, interrupted>>

\* Activate reads RELEASE_READINESS_V; REVIEW_REQUIRED needs the acceptance
\* that was generated into the file.
ReadReadiness(s) ==
  /\ At(s, {"activate"}, "preflight")
  /\ \E verdict \in Verdict, allow \in BOOLEAN :
       \/ Readiness(verdict) = "READY"
       \/ Readiness(verdict) = "REVIEW_REQUIRED" /\ allow
  /\ GoTo(s, "edge")
  /\ UNCHANGED <<pointers, lifecycle, status, view, resumed, interrupted>>

\* Then it compares the file's edge with DATASET, in SQL's logic.
CheckEdge(s) ==
  /\ At(s, {"activate"}, "edge")
  /\ ~SqlDiffers(active, script[s].from)
  /\ ~SqlDiffers(candidate, script[s].to)
  /\ GoTo(s, "publish")
  /\ UNCHANGED <<pointers, lifecycle, status, view, resumed, interrupted>>

\* Roll back reads pointers, statuses and the evidence of both versions.
CheckRollback(s) ==
  /\ At(s, {"rollback"}, "preflight")
  /\ active = script[s].from
  /\ candidate = NoVersion
  /\ Cardinality(Versions("ACTIVE")) = 1
  /\ status[script[s].to] = "RETIRED"
  /\ \E verdict \in Verdict : verdict = "READY"
  /\ GoTo(s, "publish")
  /\ UNCHANGED <<pointers, lifecycle, status, view, resumed, interrupted>>

\* CREATE OR REPLACE VIEW, one statement per published view.
PublishView(s) ==
  /\ At(s, ReleaseKind, "publish")
  /\ LET i == script[s].shown + 1 IN
       /\ view' = [view EXCEPT ![i] = script[s].to]
       /\ script' = [script EXCEPT ![s].shown = i,
                       ![s].step = IF i = ViewCount THEN "statuses" ELSE @]
  /\ UNCHANGED <<pointers, lifecycle, status, resumed, interrupted>>

\* One UPDATE for both rows.
SwitchStatuses(s) ==
  /\ At(s, ReleaseKind, "statuses")
  /\ status' = [v \in Version |->
       IF status[v] = "absent" THEN "absent"
       ELSE IF v = script[s].to THEN "ACTIVE"
       ELSE IF v = script[s].from THEN "RETIRED"
       ELSE status[v]]
  /\ GoTo(s, "pointers")
  /\ UNCHANGED <<pointers, lifecycle, view, resumed, interrupted>>

\* Faulty: the guard of the rollback file in the activate file.
ExpectedNoCandidate(s) == active = script[s].from /\ candidate = NoVersion

\* The guarded UPDATE of DATASET; no row matches if the pointers have moved.
Expected(s) ==
  active = script[s].from
    /\ candidate = IF script[s].kind = "activate" THEN script[s].to ELSE NoVersion
MovePointers(s) ==
  /\ At(s, ReleaseKind, "pointers")
  /\ IF Expected(s)
       THEN /\ active' = script[s].to
            /\ candidate' = NoVersion
            /\ served' = served \cup {script[s].to}
       ELSE UNCHANGED pointers
  /\ GoTo(s, "retire")
  /\ UNCHANGED <<lifecycle, status, view, resumed, interrupted>>

\* ALTER TASK ... SUSPEND for the replaced version.
RetireRuntime(s) ==
  /\ At(s, ReleaseKind, "retire")
  /\ resumed' = resumed \ {script[s].from}
  /\ GoTo(s, "postflight")
  /\ UNCHANGED <<pointers, lifecycle, status, view, interrupted>>

\* Faulty: the pointers are not read again.
PostflightWithoutPointers(s) ==
  /\ Versions("ACTIVE") = {script[s].to}
  /\ status[script[s].from] = "RETIRED"
  /\ \A i \in 1..ViewCount : view[i] = script[s].to

\* Pointers, statuses and view definitions are read again and compared.
Postflight(s) ==
  /\ active = script[s].to
  /\ candidate = NoVersion
  /\ Versions("ACTIVE") = {script[s].to}
  /\ status[script[s].from] = "RETIRED"
  /\ \A i \in 1..ViewCount : view[i] = script[s].to
CheckPostflight(s) ==
  /\ At(s, ReleaseKind, "postflight")
  /\ Postflight(s)
  /\ GoTo(s, "verified")
  /\ UNCHANGED <<pointers, lifecycle, status, view, resumed, interrupted>>

\* RELEASE_RUN.STATUS = 'SUCCEEDED'.
RecordSuccess(s) ==
  /\ At(s, ReleaseKind, "verified")
  /\ Close(s)
  /\ UNCHANGED <<pointers, lifecycle, status, view, resumed, interrupted>>

-----------------------------------------------------------------------------
\* Pause, resume, decommission

StartLifecycle(s, kind, v) ==
  /\ kind \in {"pause", "resume"}
  /\ Open(s, kind, "dataset", NoVersion, v)
  /\ resumed' = IF kind = "pause" THEN resumed \ {v} ELSE resumed \cup {v}
  /\ UNCHANGED <<pointers, lifecycle, status, view, interrupted>>

SetLifecycle(s) ==
  /\ At(s, {"pause", "resume"}, "dataset")
  /\ lifecycle' = IF script[s].kind = "pause" THEN "PAUSED" ELSE "ACTIVE"
  /\ Close(s)
  /\ UNCHANGED <<pointers, status, view, resumed, interrupted>>

\* The suspends of all versions, in order, are taken as one step.
SuspendAll(s) ==
  /\ Open(s, "decommission", "dataset", NoVersion, NoVersion)
  /\ resumed' = {}
  /\ UNCHANGED <<pointers, lifecycle, status, view, interrupted>>

\* Faulty: both pointers are cleared.
WithdrawDatasetClearing(s) ==
  /\ At(s, {"decommission"}, "dataset")
  /\ lifecycle' = "DECOMMISSIONED"
  /\ active' = NoVersion
  /\ candidate' = NoVersion
  /\ GoTo(s, "version")
  /\ UNCHANGED <<served, status, view, resumed, interrupted>>

WithdrawDataset(s) ==
  /\ At(s, {"decommission"}, "dataset")
  /\ lifecycle' = "DECOMMISSIONED"
  /\ candidate' = NoVersion
  /\ GoTo(s, "version")
  /\ UNCHANGED <<active, served, status, view, resumed, interrupted>>

\* Faulty: only the row that serves is retired.
RetireActiveVersion(s) ==
  /\ At(s, {"decommission"}, "version")
  /\ status' = [v \in Version |-> IF status[v] = "ACTIVE" THEN "RETIRED" ELSE status[v]]
  /\ Close(s)
  /\ UNCHANGED <<pointers, lifecycle, view, resumed, interrupted>>

RetireVersions(s) ==
  /\ At(s, {"decommission"}, "version")
  /\ status' = [v \in Version |-> IF status[v] = "absent" THEN "absent" ELSE "RETIRED"]
  /\ Close(s)
  /\ UNCHANGED <<pointers, lifecycle, view, resumed, interrupted>>

-----------------------------------------------------------------------------
\* Failure

\* A statement raises (a release records FAILED and the phase) or the session
\* is lost (its row stays STARTED).  A preflight that raises or is lost has
\* changed nothing, and no other file reads what pause and resume change.
StoppedHalfWay(s) ==
  IF script[s].kind \in {"pause", "resume"} \/ script[s].step \in {"preflight", "edge"} THEN {}
  ELSE IF script[s].kind \in ReleaseKind THEN {"release"}
  ELSE {"other"}
Stop(s) ==
  /\ script[s] # NoScript
  /\ interrupted' = interrupted \cup StoppedHalfWay(s)
  /\ Close(s)
  /\ UNCHANGED <<pointers, lifecycle, status, view, resumed>>

-----------------------------------------------------------------------------
\* The specification

Init ==
  /\ active = FirstVersion
  /\ candidate = NoVersion
  /\ lifecycle = "ACTIVE"
  /\ status = [v \in Version |-> IF v = FirstVersion THEN "ACTIVE" ELSE "absent"]
  /\ view = [i \in 1..ViewCount |-> FirstVersion]
  /\ resumed = {FirstVersion}
  /\ script = [s \in Session |-> NoScript]
  /\ served = {FirstVersion}
  /\ interrupted = {}

Register(s) == (\E v \in Version : CheckCandidate(s, v)) \/ MergeDataset(s) \/ MergeVersion(s)

Release(s) ==
  \/ \E kind \in ReleaseKind, from, to \in Version : StartRelease(s, kind, from, to)
  \/ ReadReadiness(s)
  \/ CheckEdge(s)
  \/ CheckRollback(s)
  \/ PublishView(s)
  \/ SwitchStatuses(s)
  \/ MovePointers(s)
  \/ RetireRuntime(s)
  \/ CheckPostflight(s)
  \/ RecordSuccess(s)

Lifecycle(s) ==
  \/ \E kind \in LifecycleKind, v \in Version : StartLifecycle(s, kind, v)
  \/ SetLifecycle(s)
  \/ SuspendAll(s)
  \/ WithdrawDataset(s)
  \/ RetireVersions(s)

Next == \E s \in Session : Register(s) \/ Release(s) \/ Lifecycle(s) \/ Stop(s)

Spec == Init /\ [][Next]_vars

-----------------------------------------------------------------------------
\* Properties

Idle == \A s \in Session : script[s] = NoScript
Served(v) == active = v \/ \E i \in 1..ViewCount : view[i] = v

\* Any file failing or dying anywhere: DATASET's pointers keep the promises of
\* ReleasePointers, if activation overlaps neither registration nor
\* decommission, and rollback not decommission.
Promise == INSTANCE ReleasePointers WITH serving <- active, waiting <- candidate
KeepsPromise == Promise!PointerSpec

\* If no file stopped half-way, then between files the published views, the
\* pointers and the statuses agree, or the dataset was decommissioned and every
\* version is retired; if registration overlaps neither activation nor
\* decommission.
WholeBetweenFiles ==
  Idle /\ interrupted = {} =>
    /\ \A i \in 1..ViewCount : view[i] = active
    /\ InvariantPass \/ Versions("ACTIVE") \cup Versions("DEPLOYED") = {}

\* A release retires a runtime only when neither the pointer nor a published
\* view serves that version any more, so a cutover that fails leaves the old
\* processing available; if releases overlap neither each other nor what may
\* move the candidate they count on.
OldPathAvailable ==
  [][\A s \in Session : At(s, ReleaseKind, "retire") /\ script'[s] # script[s] =>
       \A v \in resumed \ resumed' : ~Served(v)]_vars

\* A retired version comes back only through a rollback, never by registering
\* it again; if neither activation nor decommission overlaps registration, and
\* activation overlaps neither activation nor decommission.
RetiredStaysOut ==
  [][\A v \in Version : status[v] = "RETIRED" /\ status'[v] # "RETIRED" =>
       \E s \in Session : At(s, {"rollback"}, "statuses") /\ script[s].to = v]_vars

\* Whatever overlaps, a second candidate never replaces the first.
CandidateNeverOverwritten ==
  [][candidate # NoVersion /\ candidate' # candidate => candidate' = NoVersion]_vars

\* Why it holds: one registration at a time, and while it is between its guard
\* and its MERGE the pointer is free or already names its version.
OneRegistration ==
  \A s, other \in Session :
    script[s].kind = "register" /\ script[other].kind = "register" => s = other
PointerFree ==
  \A s \in Session : At(s, {"register"}, "dataset") => candidate \in {script[s].to, NoVersion}
CandidateInv == TypeOK /\ OneRegistration /\ PointerFree

\* Whatever overlaps, when nothing runs and every release has recorded SUCCEEDED or
\* stopped in its preflight, readers are served the active version and no
\* other version is ACTIVE.
SuccessIsWhole ==
  Idle /\ "release" \notin interrupted =>
    /\ \A i \in 1..ViewCount : view[i] = active
    /\ Versions("ACTIVE") \subseteq {active}
=============================================================================
